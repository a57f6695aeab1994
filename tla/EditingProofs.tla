---------------------------- MODULE EditingProofs ----------------------------
(***************************************************************************)
(* Proofs about what is written before anything is published, for every    *)
(* value of the constants: each component keeps an invariant of its own,   *)
(* and a step of one leaves the others as they are.                        *)
(***************************************************************************)
EXTENDS MCEditing, TLAPS, FiniteSetTheorems, WellFoundedInduction

------------------------------------------------------------------------------
(* The import of a film.  A request that is about to name a file, or to    *)
(* write its row, has measured it; one that is about to write its row has  *)
(* its file.                                                               *)

ImportSteps == {"idle", "write", "probe", "rename", "row"}

ImportTypes ==
    /\ listed \subseteq Import!Row
    /\ tries \in Nat
    /\ kept \subseteq 1 .. tries /\ partial \subseteq 1 .. tries
    /\ imports \in [Uploaders -> [pc : ImportSteps, film : Films \cup {Import!NoImport.film}, key : 0 .. tries]]
    /\ \A u \in Uploaders : imports[u].pc # "idle" => imports[u].film \in Films /\ imports[u].key # 0

FilmsAreMeasured ==
    \A u \in Uploaders :
        /\ imports[u].pc \in {"rename", "row"} => imports[u].film \notin Unfit
        /\ imports[u].pc = "row" => imports[u].key \in kept

ImportInv ==
    /\ ImportTypes /\ FilmsAreMeasured
    /\ Import!RowHasFile /\ Import!OneRowPerFilm

LEMMA ImportInit == Import!Init => ImportInv
<1> SUFFICES ASSUME Import!Init PROVE ImportInv
  OBVIOUS
<1>1. /\ listed = {} /\ kept = {} /\ partial = {} /\ tries = 0 /\ told = {}
      /\ imports = [u \in Uploaders |-> Import!NoImport]
  BY DEF Import!Init
<1>2. Import!NoImport = [pc |-> "idle", film |-> Import!NoImport.film, key |-> 0]
  BY DEF Import!NoImport
<1>3. ImportTypes
  BY <1>1, <1>2 DEF ImportTypes, ImportSteps
<1>4. FilmsAreMeasured
  BY <1>1, <1>2 DEF FilmsAreMeasured
<1>5. Import!RowHasFile /\ Import!OneRowPerFilm
  BY <1>1 DEF Import!RowHasFile, Import!OneRowPerFilm
<1> QED
  BY <1>3, <1>4, <1>5 DEF ImportInv

\* A step of a request that writes no row.
LEMMA ImportMoves ==
    ASSUME ImportInv, NEW u \in Uploaders,
           imports[u].pc # "idle", UNCHANGED <<listed, tries, told>>,
           kept \subseteq kept', kept' \subseteq 1 .. tries, partial' \subseteq 1 .. tries,
           NEW pc \in ImportSteps, imports' = [imports EXCEPT ![u].pc = pc],
           pc \in {"rename", "row"} => imports[u].film \notin Unfit,
           pc = "row" => imports[u].key \in kept'
    PROVE  ImportInv'
<1>1. ImportTypes'
  BY DEF ImportInv, ImportTypes
<1>2. FilmsAreMeasured'
  BY DEF ImportInv, ImportTypes, FilmsAreMeasured
<1>3. Import!RowHasFile' /\ Import!OneRowPerFilm'
  BY DEF ImportInv, Import!RowHasFile, Import!OneRowPerFilm
<1> QED
  BY <1>1, <1>2, <1>3 DEF ImportInv

LEMMA ImportReceives ==
    ASSUME ImportInv, NEW u \in Uploaders, NEW film \in Films, Import!Receive(u, film)
    PROVE  ImportInv'
<1>1. /\ tries' = tries + 1 /\ UNCHANGED <<listed, kept, partial>>
      /\ told' \subseteq told \cup listed
      /\ \/ UNCHANGED imports
         \/ imports' = [imports EXCEPT ![u] = [pc |-> "write", film |-> film, key |-> tries']]
  BY DEF Import!Receive, Import!RowOf
<1>2. tries' \in Nat /\ 1 .. tries \subseteq 1 .. tries' /\ 0 .. tries \subseteq 0 .. tries' /\ tries' \in 0 .. tries' /\ tries' # 0
  BY <1>1 DEF ImportInv, ImportTypes
<1>3. ImportTypes'
  <2>1. imports' \in [Uploaders -> [pc : ImportSteps, film : Films \cup {Import!NoImport.film}, key : 0 .. tries']]
    BY <1>1, <1>2 DEF ImportInv, ImportTypes, ImportSteps
  <2>2. \A v \in Uploaders : imports'[v].pc # "idle" => imports'[v].film \in Films /\ imports'[v].key # 0
    BY <1>1, <1>2 DEF ImportInv, ImportTypes
  <2> QED
    BY <1>1, <1>2, <2>1, <2>2 DEF ImportInv, ImportTypes
<1>4. FilmsAreMeasured'
  BY <1>1 DEF ImportInv, ImportTypes, FilmsAreMeasured
<1>5. Import!RowHasFile' /\ Import!OneRowPerFilm'
  BY <1>1 DEF ImportInv, Import!RowHasFile, Import!OneRowPerFilm
<1> QED
  BY <1>3, <1>4, <1>5 DEF ImportInv

LEMMA ImportRecords ==
    ASSUME ImportInv, NEW u \in Uploaders, Import!Record(u)
    PROVE  ImportInv'
<1> DEFINE row == [film |-> imports[u].film, key |-> imports[u].key]
<1>1. /\ imports[u].pc = "row" /\ imports' = [imports EXCEPT ![u].pc = "idle"]
      /\ UNCHANGED <<kept, partial, tries>>
      /\ \/ UNCHANGED <<listed, told>>
         \/ /\ \A other \in listed : other.film # row.film
            /\ listed' = listed \cup {row} /\ told' = told \cup {row}
  BY DEF Import!Record, Import!Doing, Import!MoveTo, Import!Taken, Import!RowOf
<1>2. row \in Import!Row /\ row.film \notin Unfit /\ row.key \in kept
  BY <1>1 DEF ImportInv, ImportTypes, FilmsAreMeasured, Import!Row
<1>3. ImportTypes'
  BY <1>1, <1>2 DEF ImportInv, ImportTypes, ImportSteps
<1>4. FilmsAreMeasured'
  BY <1>1 DEF ImportInv, ImportTypes, FilmsAreMeasured
<1>5. Import!RowHasFile' /\ Import!OneRowPerFilm'
  BY <1>1, <1>2 DEF ImportInv, Import!RowHasFile, Import!OneRowPerFilm
<1> QED
  BY <1>3, <1>4, <1>5 DEF ImportInv

LEMMA ImportStep == ImportInv /\ [Import!Next]_import => ImportInv'
<1> SUFFICES ASSUME ImportInv, [Import!Next]_import PROVE ImportInv'
  OBVIOUS
<1>1. CASE UNCHANGED import
  BY <1>1 DEF import, ImportInv, ImportTypes, FilmsAreMeasured, Import!RowHasFile, Import!OneRowPerFilm
<1>2. CASE Import!Die
  <2>1. /\ imports' = [u \in Uploaders |-> Import!NoImport] /\ UNCHANGED <<listed, kept, partial, tries, told>>
        /\ Import!NoImport = [pc |-> "idle", film |-> Import!NoImport.film, key |-> 0]
    BY <1>2 DEF Import!Die, Import!NoImport
  <2>2. ImportTypes' /\ FilmsAreMeasured'
    BY <2>1 DEF ImportInv, ImportTypes, FilmsAreMeasured, ImportSteps
  <2> QED
    BY <2>1, <2>2 DEF ImportInv, Import!RowHasFile, Import!OneRowPerFilm
<1>3. ASSUME NEW u \in Uploaders, NEW film \in Films, Import!Receive(u, film) PROVE ImportInv'
  BY <1>3, ImportReceives
<1>4. ASSUME NEW u \in Uploaders, Import!WritePart(u) PROVE ImportInv'
  <2>1. /\ imports[u].pc = "write" /\ imports' = [imports EXCEPT ![u].pc = "probe"]
        /\ partial' = partial \cup {imports[u].key} /\ UNCHANGED <<listed, kept, tries, told>>
    BY <1>4 DEF Import!WritePart, Import!Doing, Import!MoveTo
  <2>2. partial' \subseteq 1 .. tries /\ kept' \subseteq 1 .. tries
    BY <2>1 DEF ImportInv, ImportTypes
  <2> QED
    BY <2>1, <2>2, ImportMoves DEF ImportSteps
<1>5. ASSUME NEW u \in Uploaders, Import!Probe(u) PROVE ImportInv'
  <2>1. /\ imports[u].pc = "probe" /\ UNCHANGED <<listed, kept, tries, told>> /\ partial' \subseteq partial
        /\ \/ imports' = [imports EXCEPT ![u].pc = "idle"]
           \/ imports[u].film \notin Unfit /\ imports' = [imports EXCEPT ![u].pc = "rename"]
    BY <1>5 DEF Import!Probe, Import!Doing, Import!MoveTo
  <2>2. partial' \subseteq 1 .. tries /\ kept' \subseteq 1 .. tries
    BY <2>1 DEF ImportInv, ImportTypes
  <2> QED
    BY <2>1, <2>2, ImportMoves DEF ImportSteps
<1>6. ASSUME NEW u \in Uploaders, Import!Rename(u) PROVE ImportInv'
  <2>1. /\ imports[u].pc = "rename" /\ imports' = [imports EXCEPT ![u].pc = "row"]
        /\ partial' \subseteq partial /\ kept' = kept \cup {imports[u].key}
        /\ UNCHANGED <<listed, tries, told>>
    BY <1>6 DEF Import!Rename, Import!Doing, Import!MoveTo
  <2>2. /\ partial' \subseteq 1 .. tries /\ kept' \subseteq 1 .. tries
        /\ imports[u].film \notin Unfit
    BY <2>1 DEF ImportInv, ImportTypes, FilmsAreMeasured
  <2> QED
    BY <2>1, <2>2, ImportMoves DEF ImportSteps
<1>7. ASSUME NEW u \in Uploaders, Import!Record(u) PROVE ImportInv'
  BY <1>7, ImportRecords
<1> QED
  BY <1>1, <1>2, <1>3, <1>4, <1>5, <1>6, <1>7 DEF Import!Next, Import!Serves

LEMMA ImportHolds ==
    ImportInv => Import!TypeOK /\ Import!RowHasFile /\ Import!OneRowPerFilm
BY DEF ImportInv, ImportTypes, Import!TypeOK

------------------------------------------------------------------------------
(* The versions of a prompt.  While no two contents cross each other, the  *)
(* requests at work have one content, and only its row may be younger than *)
(* the moment one of them began.                                           *)

PromptTypes ==
    /\ file \in Contents /\ starts \in 0 .. MaxStarts /\ crossed \in BOOLEAN
    /\ DOMAIN promptRows \subseteq Contents
    /\ promptRows \in [DOMAIN promptRows -> [active : BOOLEAN, created : 1 .. starts]]
    /\ syncing \in [Starters -> [pc : {"stopped", "read", "found", "inserted", "serving"},
                                content : Contents, now : 0 .. starts]]
    /\ \A p \in Starters : syncing[p].pc # "stopped" => syncing[p].now # 0

OneContent ==
    \A p, q \in Starters :
        Prompts!Syncing(p) /\ Prompts!Syncing(q) => syncing[p].content = syncing[q].content

ReadersAreYounger ==
    \A p \in Starters : syncing[p].pc \in {"read", "found"} =>
        \A c \in DOMAIN promptRows : c # syncing[p].content => promptRows[c].created < syncing[p].now

NewestIsLast ==
    /\ newest = {} <=> DOMAIN promptRows = {}
    /\ \A c \in newest :
         /\ newest = {c} /\ c \in DOMAIN promptRows /\ promptRows[c].active
         /\ \A d \in DOMAIN promptRows \ {c} : promptRows[d].created < promptRows[c].created

InsertedIsNewest ==
    \A p \in Starters : syncing[p].pc = "inserted" => newest = {syncing[p].content}

PromptInv ==
    /\ PromptTypes
    /\ ~crossed => OneContent /\ ReadersAreYounger /\ NewestIsLast /\ InsertedIsNewest

LEMMA PromptConstants ==
    /\ MaxStarts \in Nat
    /\ (CHOOSE c \in Contents : TRUE) \in Contents
<1>1. MaxStarts \in Nat /\ Contents # {}
  BY EditingAssumption DEF EditingAssumption, Prompts!PromptAssumption
<1>2. (CHOOSE c \in Contents : TRUE) \in Contents
  BY <1>1
<1> QED
  BY <1>1, <1>2

LEMMA PromptInit == Prompts!Init => PromptInv
<1> SUFFICES ASSUME Prompts!Init PROVE PromptInv
  OBVIOUS
<1>1. /\ file = (CHOOSE c \in Contents : TRUE) /\ promptRows = [c \in {} |-> {}]
      /\ syncing = [p \in Starters |-> Prompts!Stopped]
      /\ starts = 0 /\ newest = {} /\ crossed = FALSE /\ DOMAIN promptRows = {}
  BY DEF Prompts!Init
<1>2. Prompts!Stopped = [pc |-> "stopped", content |-> CHOOSE c \in Contents : TRUE, now |-> 0]
  BY DEF Prompts!Stopped
<1>3. PromptTypes
  <2>1. promptRows \in [DOMAIN promptRows -> [active : BOOLEAN, created : 1 .. starts]]
    BY <1>1
  <2>2. syncing \in [Starters -> [pc : {"stopped", "read", "found", "inserted", "serving"},
                                 content : Contents, now : 0 .. starts]]
    BY <1>1, <1>2, PromptConstants
  <2>3. file \in Contents
    BY <1>1, PromptConstants, Zenon
  <2>4. starts \in 0 .. MaxStarts /\ DOMAIN promptRows \subseteq Contents
    BY <1>1, PromptConstants
  <2>5. crossed \in BOOLEAN
    BY <1>1
  <2> QED
    BY <2>1, <2>2, <2>3, <2>4, <2>5, <1>1, <1>2 DEF PromptTypes
<1>4. OneContent /\ ReadersAreYounger /\ NewestIsLast /\ InsertedIsNewest
  BY <1>1, <1>2 DEF OneContent, ReadersAreYounger, NewestIsLast, InsertedIsNewest, Prompts!Syncing
<1> QED
  BY <1>3, <1>4 DEF PromptInv

\* A step that leaves the rows and the file of the prompt alone, and begins
\* nothing.
LEMMA PromptMoves ==
    ASSUME PromptInv, NEW p \in Starters, NEW next \in [pc : {"stopped", "read", "found", "inserted", "serving"},
                                                       content : Contents, now : 0 .. starts],
           UNCHANGED <<file, promptRows, starts, newest, crossed>>,
           syncing' = [syncing EXCEPT ![p] = next],
           \/ next = Prompts!Stopped
           \/ /\ next.pc \in {"found", "serving"} /\ Prompts!Syncing(p)
              /\ next.pc = "found" => syncing[p].pc = "read"
              /\ next.content = syncing[p].content /\ next.now = syncing[p].now
    PROVE  PromptInv'
<1>1. Prompts!Stopped.pc = "stopped"
  BY DEF Prompts!Stopped
<1>2. PromptTypes'
  BY <1>1 DEF PromptInv, PromptTypes, Prompts!Syncing
<1>3. ASSUME ~crossed PROVE (OneContent /\ ReadersAreYounger /\ NewestIsLast /\ InsertedIsNewest)'
  <2>1. OneContent /\ ReadersAreYounger /\ NewestIsLast /\ InsertedIsNewest
    BY <1>3 DEF PromptInv
  <2>2. \A q \in Starters : syncing'[q] = IF q = p THEN next ELSE syncing[q]
    BY DEF PromptInv, PromptTypes
  <2>3. OneContent'
    BY <2>1, <2>2, <1>1 DEF OneContent, Prompts!Syncing
  <2>4. ReadersAreYounger'
    BY <2>1, <2>2, <1>1 DEF ReadersAreYounger
  <2>5. NewestIsLast' /\ InsertedIsNewest'
    BY <2>1, <2>2, <1>1 DEF NewestIsLast, InsertedIsNewest
  <2> QED
    BY <2>3, <2>4, <2>5
<1> QED
  BY <1>2, <1>3 DEF PromptInv

LEMMA PromptBegins ==
    ASSUME PromptInv, NEW p \in Starters, Prompts!Begin(p)
    PROVE  PromptInv'
<1>1. /\ starts < MaxStarts /\ starts' = starts + 1 /\ UNCHANGED <<file, promptRows, newest>>
      /\ syncing' = [syncing EXCEPT ![p] = [pc |-> "read", content |-> file, now |-> starts']]
      /\ crossed' = (crossed \/ \E q \in Starters : Prompts!Syncing(q) /\ syncing[q].content # file)
  BY DEF Prompts!Begin
<1>2. /\ starts \in Nat /\ starts' \in 0 .. MaxStarts /\ starts' # 0 /\ starts' \in 0 .. starts'
      /\ 0 .. starts \subseteq 0 .. starts' /\ 1 .. starts \subseteq 1 .. starts'
      /\ \A n \in 1 .. starts : n < starts'
  BY <1>1, PromptConstants DEF PromptInv, PromptTypes
<1>3. PromptTypes'
  <2>1. promptRows' \in [DOMAIN promptRows' -> [active : BOOLEAN, created : 1 .. starts']]
    BY <1>1, <1>2 DEF PromptInv, PromptTypes
  <2>2. syncing' \in [Starters -> [pc : {"stopped", "read", "found", "inserted", "serving"},
                                  content : Contents, now : 0 .. starts']]
    BY <1>1, <1>2 DEF PromptInv, PromptTypes
  <2>3. crossed' \in BOOLEAN
    BY <1>1
  <2> QED
    BY <1>1, <1>2, <2>1, <2>2, <2>3 DEF PromptInv, PromptTypes
<1>4. \A q \in Starters : syncing'[q] = IF q = p THEN [pc |-> "read", content |-> file, now |-> starts']
                                        ELSE syncing[q]
  BY <1>1 DEF PromptInv, PromptTypes
<1>5. ASSUME ~crossed' PROVE (OneContent /\ ReadersAreYounger /\ NewestIsLast /\ InsertedIsNewest)'
  <2>1. /\ OneContent /\ ReadersAreYounger /\ NewestIsLast /\ InsertedIsNewest
        /\ \A q \in Starters : Prompts!Syncing(q) => syncing[q].content = file
    BY <1>5, <1>1 DEF PromptInv
  <2>2. OneContent'
    BY <2>1, <1>4 DEF OneContent, Prompts!Syncing
  <2>3. \A c \in DOMAIN promptRows : promptRows[c].created < starts'
    BY <1>2 DEF PromptInv, PromptTypes
  <2>4. ReadersAreYounger'
    BY <2>1, <2>3, <1>1, <1>4 DEF ReadersAreYounger
  <2>5. NewestIsLast' /\ InsertedIsNewest'
    BY <2>1, <1>1, <1>4 DEF NewestIsLast, InsertedIsNewest
  <2> QED
    BY <2>2, <2>4, <2>5
<1> QED
  BY <1>3, <1>5 DEF PromptInv

LEMMA PromptInserts ==
    ASSUME PromptInv, NEW p \in Starters, syncing[p].pc = "found",
           syncing[p].content \notin DOMAIN promptRows, Prompts!Insert(p)
    PROVE  PromptInv'
<1> DEFINE mine == syncing[p].content
<1>1. /\ promptRows' = [c \in DOMAIN promptRows \cup {mine} |->
                          IF c = mine THEN [active |-> TRUE, created |-> syncing[p].now] ELSE promptRows[c]]
      /\ newest' = {mine} /\ syncing' = [syncing EXCEPT ![p].pc = "inserted"]
      /\ UNCHANGED <<file, starts, crossed>>
  BY DEF Prompts!Insert
<1>2. mine \in Contents /\ syncing[p].now \in 1 .. starts
  BY DEF PromptInv, PromptTypes
<1>3. DOMAIN promptRows' = DOMAIN promptRows \cup {mine}
  BY <1>1
<1>4. PromptTypes'
  <2>1. promptRows' \in [DOMAIN promptRows' -> [active : BOOLEAN, created : 1 .. starts]]
    BY <1>1, <1>2, <1>3 DEF PromptInv, PromptTypes
  <2> QED
    BY <2>1, <1>1, <1>2, <1>3 DEF PromptInv, PromptTypes
<1>5. \A q \in Starters :
        /\ syncing'[q].content = syncing[q].content /\ syncing'[q].now = syncing[q].now
        /\ syncing'[q].pc = IF q = p THEN "inserted" ELSE syncing[q].pc
  BY <1>1 DEF PromptInv, PromptTypes
<1>6. ASSUME ~crossed PROVE (OneContent /\ ReadersAreYounger /\ NewestIsLast /\ InsertedIsNewest)'
  <2>1. OneContent /\ ReadersAreYounger /\ NewestIsLast /\ InsertedIsNewest
    BY <1>6 DEF PromptInv
  <2>2. OneContent'
    BY <2>1, <1>5 DEF OneContent, Prompts!Syncing
  <2>3. \A q \in Starters : syncing[q].pc \in {"read", "found", "inserted"} => syncing[q].content = mine
    BY <2>1 DEF OneContent, Prompts!Syncing
  <2>4. ReadersAreYounger'
    BY <2>1, <2>3, <1>1, <1>3, <1>5 DEF ReadersAreYounger
  <2>5. NewestIsLast'
    BY <2>1, <1>1, <1>3 DEF ReadersAreYounger, NewestIsLast
  <2>6. InsertedIsNewest'
    BY <2>3, <1>1, <1>5 DEF InsertedIsNewest
  <2> QED
    BY <2>2, <2>4, <2>5, <2>6
<1> QED
  BY <1>1, <1>4, <1>6 DEF PromptInv

LEMMA PromptDeactivates ==
    ASSUME PromptInv, NEW p \in Starters, Prompts!Deactivate(p)
    PROVE  PromptInv'
<1> DEFINE mine == syncing[p].content
<1>1. /\ syncing[p].pc = "inserted" /\ UNCHANGED <<file, starts, newest, crossed>>
      /\ promptRows' = [c \in DOMAIN promptRows |->
                          IF c = mine THEN promptRows[c] ELSE [promptRows[c] EXCEPT !.active = FALSE]]
      /\ syncing' = [syncing EXCEPT ![p].pc = "serving"]
  BY DEF Prompts!Deactivate
<1>2. DOMAIN promptRows' = DOMAIN promptRows
  BY <1>1
<1>3. \A c \in DOMAIN promptRows : promptRows'[c] \in [active : BOOLEAN, created : 1 .. starts]
                                   /\ promptRows'[c].created = promptRows[c].created
                                   /\ (c = mine => promptRows'[c] = promptRows[c])
  BY <1>1 DEF PromptInv, PromptTypes
<1>4. PromptTypes'
  <2>1. promptRows' \in [DOMAIN promptRows' -> [active : BOOLEAN, created : 1 .. starts]]
    BY <1>1, <1>2, <1>3
  <2> QED
    BY <2>1, <1>1, <1>2 DEF PromptInv, PromptTypes
<1>5. \A q \in Starters :
        /\ syncing'[q].content = syncing[q].content /\ syncing'[q].now = syncing[q].now
        /\ syncing'[q].pc = IF q = p THEN "serving" ELSE syncing[q].pc
  BY <1>1 DEF PromptInv, PromptTypes
<1>6. ASSUME ~crossed PROVE (OneContent /\ ReadersAreYounger /\ NewestIsLast /\ InsertedIsNewest)'
  <2>1. OneContent /\ ReadersAreYounger /\ NewestIsLast /\ InsertedIsNewest
    BY <1>6 DEF PromptInv
  <2>2. OneContent'
    BY <2>1, <1>5 DEF OneContent, Prompts!Syncing
  <2>3. newest = {mine}
    BY <2>1, <1>1 DEF InsertedIsNewest
  <2>4. ReadersAreYounger'
    BY <2>1, <1>2, <1>3, <1>5 DEF ReadersAreYounger
  <2>5. NewestIsLast'
    BY <2>1, <2>3, <1>1, <1>2, <1>3 DEF NewestIsLast
  <2>6. InsertedIsNewest'
    BY <2>1, <1>1, <1>5 DEF InsertedIsNewest
  <2> QED
    BY <2>2, <2>4, <2>5, <2>6
<1> QED
  BY <1>1, <1>4, <1>6 DEF PromptInv

LEMMA PromptStep == PromptInv /\ [Prompts!Next]_prompts => PromptInv'
<1> SUFFICES ASSUME PromptInv, [Prompts!Next]_prompts PROVE PromptInv'
  OBVIOUS
<1>1. CASE UNCHANGED prompts
  BY <1>1 DEF prompts, PromptInv, PromptTypes, OneContent, ReadersAreYounger, NewestIsLast,
              InsertedIsNewest, Prompts!Syncing
<1>2. ASSUME NEW c \in Contents, Prompts!Edit(c) PROVE PromptInv'
  BY <1>2 DEF Prompts!Edit, PromptInv, PromptTypes, OneContent, ReadersAreYounger, NewestIsLast,
              InsertedIsNewest, Prompts!Syncing
<1>3. ASSUME NEW p \in Starters PROVE Prompts!Begin(p) => PromptInv'
  BY PromptBegins
<1>4. Prompts!Stopped \in [pc : {"stopped", "read", "found", "inserted", "serving"},
                           content : Contents, now : 0 .. starts]
  BY PromptConstants DEF Prompts!Stopped, PromptInv, PromptTypes
<1>5. ASSUME NEW p \in Starters, Prompts!Find(p) PROVE PromptInv'
  <2> DEFINE next == [syncing[p] EXCEPT !.pc =
                        IF syncing[p].content \in DOMAIN promptRows THEN "serving" ELSE "found"]
  <2>1. /\ syncing[p].pc = "read" /\ syncing' = [syncing EXCEPT ![p] = next]
        /\ UNCHANGED <<file, promptRows, starts, newest, crossed>>
    BY <1>5 DEF Prompts!Find
  <2>2. /\ next \in [pc : {"stopped", "read", "found", "inserted", "serving"},
                     content : Contents, now : 0 .. starts]
        /\ next.pc \in {"found", "serving"} /\ next.content = syncing[p].content /\ next.now = syncing[p].now
    BY DEF PromptInv, PromptTypes
  <2>3. Prompts!Syncing(p)
    BY <2>1 DEF Prompts!Syncing
  <2> HIDE DEF next
  <2> QED
    BY <2>1, <2>2, <2>3, PromptMoves
<1>6. ASSUME NEW p \in Starters, Prompts!Insert(p) PROVE PromptInv'
  <2>1. CASE syncing[p].content \in DOMAIN promptRows
    <3>1. /\ syncing' = [syncing EXCEPT ![p] = Prompts!Stopped]
          /\ UNCHANGED <<file, promptRows, starts, newest, crossed>>
      BY <1>6, <2>1 DEF Prompts!Insert
    <3> QED
      BY <3>1, <1>4, PromptMoves
  <2>2. CASE syncing[p].content \notin DOMAIN promptRows
    BY <1>6, <2>2, PromptInserts DEF Prompts!Insert
  <2> QED
    BY <2>1, <2>2
<1>7. ASSUME NEW p \in Starters PROVE Prompts!Deactivate(p) => PromptInv'
  BY PromptDeactivates
<1>8. ASSUME NEW p \in Starters, Prompts!Die(p) PROVE PromptInv'
  <2>1. /\ syncing' = [syncing EXCEPT ![p] = Prompts!Stopped]
        /\ UNCHANGED <<file, promptRows, starts, newest, crossed>>
    BY <1>8 DEF Prompts!Die
  <2> QED
    BY <2>1, <1>4, PromptMoves
<1> QED
  BY <1>1, <1>2, <1>3, <1>5, <1>6, <1>7, <1>8 DEF Prompts!Next

LEMMA PromptHolds == PromptInv => Prompts!TypeOK /\ Prompts!LastInsertedIsServed
<1> SUFFICES ASSUME PromptInv PROVE Prompts!TypeOK /\ Prompts!LastInsertedIsServed
  OBVIOUS
<1>1. Prompts!TypeOK
  BY DEF PromptInv, PromptTypes, Prompts!TypeOK
<1>2. ASSUME ~crossed PROVE Prompts!ActiveVersion = newest
  <2>1. NewestIsLast
    BY <1>2 DEF PromptInv
  <2>2. \A c \in DOMAIN promptRows : promptRows[c].created \in Nat
    BY DEF PromptInv, PromptTypes
  <2>3. CASE newest = {}
    BY <2>1, <2>3 DEF NewestIsLast, Prompts!ActiveVersion, Prompts!Active
  <2>4. CASE newest # {}
    <3>1. PICK c \in newest : TRUE
      BY <2>4
    <3>2. c \in Prompts!Active /\ \A d \in Prompts!Active \ {c} : promptRows[d].created < promptRows[c].created
      BY <3>1, <2>1 DEF NewestIsLast, Prompts!Active
    <3>3. Prompts!Active \subseteq DOMAIN promptRows
      BY DEF Prompts!Active
    <3>4. Prompts!ActiveVersion = {c}
      BY <3>2, <3>3, <2>2 DEF Prompts!ActiveVersion
    <3> QED
      BY <3>1, <3>4, <2>1 DEF NewestIsLast
  <2> QED
    BY <2>3, <2>4
<1> QED
  BY <1>1, <1>2 DEF Prompts!LastInsertedIsServed

------------------------------------------------------------------------------
(* The recordings.  Whoever is deleting one decided it while no message    *)
(* held it, and an upload knows its recording.                             *)

VoiceTypes ==
    /\ made \in 0 .. MaxAssets
    /\ DOMAIN assets \subseteq 1 .. made /\ keys \subseteq 1 .. made
    /\ assets \in [DOMAIN assets -> Voice!AssetRow]
    /\ texts \subseteq DOMAIN assets
    /\ requests \in [Senders -> [kind : {"idle", "upload", "send", "delete"}, asset : 0 .. made,
                                sound : Sounds \cup {"none"}]]
    /\ \A s \in Senders : requests[s].kind = "upload" => requests[s].asset # 0 /\ requests[s].sound \in Sounds

DeletionsAreDecided ==
    /\ \A s \in Senders : requests[s].kind = "delete" => requests[s].asset \in doomed
    /\ sweep.todo \subseteq doomed
    /\ sweep.row # 0 => sweep.row \in doomed

VoiceInv == VoiceTypes /\ DeletionsAreDecided /\ Voice!OneRowPerSound

LEMMA VoiceConstants == MaxAssets \in Nat
BY EditingAssumption DEF EditingAssumption, Voice!RecordingsAssumption

LEMMA VoiceInit == Voice!Init => VoiceInv
<1> SUFFICES ASSUME Voice!Init PROVE VoiceInv
  OBVIOUS
<1>1. /\ DOMAIN assets = {} /\ keys = {} /\ texts = {} /\ made = 0
      /\ requests = [s \in Senders |-> [kind |-> "idle", asset |-> 0, sound |-> "none"]]
      /\ sweep.todo = {} /\ sweep.row = 0
  BY DEF Voice!Init, Voice!Idle, Voice!Still
<1>2. assets \in [DOMAIN assets -> Voice!AssetRow]
  BY DEF Voice!Init
<1>3. VoiceTypes
  BY <1>1, <1>2, VoiceConstants DEF VoiceTypes
<1>4. DeletionsAreDecided
  BY <1>1 DEF DeletionsAreDecided
<1>5. Voice!OneRowPerSound
  BY <1>1 DEF Voice!OneRowPerSound, Voice!Known
<1> QED
  BY <1>3, <1>4, <1>5 DEF VoiceInv

\* A step of one request, or of none, that gives no identifier: the rows are
\* those that were there, older or used.
LEMMA VoiceMoves ==
    ASSUME VoiceInv, UNCHANGED made, keys' \subseteq 1 .. made, texts' \subseteq DOMAIN assets',
           DOMAIN assets' \subseteq DOMAIN assets,
           assets' \in [DOMAIN assets' -> Voice!AssetRow],
           \A a \in DOMAIN assets' : assets'[a].sound = assets[a].sound,
           doomed \subseteq doomed', sweep'.todo \subseteq doomed', sweep'.row # 0 => sweep'.row \in doomed',
           NEW kinds, kinds = [kind : {"idle", "send", "delete"}, asset : 0 .. made, sound : {"none"}],
           \/ UNCHANGED requests
           \/ \E s \in Senders, next \in kinds :
                /\ requests' = [requests EXCEPT ![s] = next]
                /\ next.kind = "delete" => next.asset \in doomed'
    PROVE  VoiceInv'
<1>1. VoiceTypes'
  <2>1. /\ requests' \in [Senders -> [kind : {"idle", "upload", "send", "delete"}, asset : 0 .. made,
                                      sound : Sounds \cup {"none"}]]
        /\ \A s \in Senders : requests'[s].kind = "upload" => requests'[s].asset # 0 /\ requests'[s].sound \in Sounds
    BY DEF VoiceInv, VoiceTypes
  <2> QED
    BY <2>1 DEF VoiceInv, VoiceTypes
<1>2. DeletionsAreDecided'
  BY DEF VoiceInv, VoiceTypes, DeletionsAreDecided
<1>3. Voice!OneRowPerSound'
  BY DEF VoiceInv, Voice!OneRowPerSound, Voice!Known
<1> QED
  BY <1>1, <1>2, <1>3 DEF VoiceInv

LEMMA VoiceUploads ==
    ASSUME VoiceInv, NEW s \in Senders, NEW sound \in Sounds, Voice!UploadFile(s, sound)
    PROVE  VoiceInv'
<1>1. /\ made < MaxAssets /\ made' = made + 1 /\ keys' = keys \cup {made'}
      /\ requests' = [requests EXCEPT ![s] = [kind |-> "upload", asset |-> made', sound |-> sound]]
      /\ UNCHANGED <<assets, texts, notes, sweep, doomed>>
  BY DEF Voice!UploadFile, Voice!Begin
<1>2. /\ made' \in 0 .. MaxAssets /\ made' # 0 /\ made' \in 0 .. made' /\ made' \in 1 .. made'
      /\ 0 .. made \subseteq 0 .. made' /\ 1 .. made \subseteq 1 .. made'
  BY <1>1, VoiceConstants DEF VoiceInv, VoiceTypes
<1>3. VoiceTypes'
  <2>1. requests' \in [Senders -> [kind : {"idle", "upload", "send", "delete"}, asset : 0 .. made',
                                   sound : Sounds \cup {"none"}]]
    BY <1>1, <1>2 DEF VoiceInv, VoiceTypes
  <2>2. \A r \in Senders : requests'[r].kind = "upload" => requests'[r].asset # 0 /\ requests'[r].sound \in Sounds
    BY <1>1, <1>2 DEF VoiceInv, VoiceTypes
  <2> QED
    BY <1>1, <1>2, <2>1, <2>2 DEF VoiceInv, VoiceTypes
<1>4. DeletionsAreDecided'
  BY <1>1 DEF VoiceInv, VoiceTypes, DeletionsAreDecided
<1>5. Voice!OneRowPerSound'
  BY <1>1 DEF VoiceInv, Voice!OneRowPerSound, Voice!Known
<1> QED
  BY <1>3, <1>4, <1>5 DEF VoiceInv

LEMMA VoiceRows ==
    ASSUME VoiceInv, NEW s \in Senders, Voice!UploadRow(s)
    PROVE  VoiceInv'
<1> DEFINE a == requests[s].asset
           new == [sound |-> requests[s].sound, used |-> FALSE, old |-> FALSE]
<1>1. /\ requests[s].kind = "upload"
      /\ requests' = [requests EXCEPT ![s] = [kind |-> "idle", asset |-> 0, sound |-> "none"]]
      /\ UNCHANGED <<keys, texts, notes, sweep, made, doomed>>
      /\ \/ UNCHANGED assets
         \/ /\ \A b \in DOMAIN assets : assets[b].sound # requests[s].sound
            /\ assets' = [b \in DOMAIN assets \cup {a} |-> IF b = a THEN new ELSE assets[b]]
  BY DEF Voice!UploadRow, Voice!Busy, Voice!End, Voice!Idle, Voice!Stored, Voice!ByHash, Voice!Known
<1>2. a \in 1 .. made /\ new \in Voice!AssetRow
  BY <1>1 DEF VoiceInv, VoiceTypes, Voice!AssetRow
<1>3. /\ requests' \in [Senders -> [kind : {"idle", "upload", "send", "delete"}, asset : 0 .. made,
                                    sound : Sounds \cup {"none"}]]
      /\ \A r \in Senders : requests'[r].kind = "upload" => requests'[r].asset # 0 /\ requests'[r].sound \in Sounds
      /\ DeletionsAreDecided'
  BY <1>1, VoiceConstants DEF VoiceInv, VoiceTypes, DeletionsAreDecided
<1>4. CASE UNCHANGED assets
  BY <1>1, <1>3, <1>4 DEF VoiceInv, VoiceTypes, Voice!OneRowPerSound, Voice!Known
<1>5. CASE /\ \A b \in DOMAIN assets : assets[b].sound # requests[s].sound
           /\ assets' = [b \in DOMAIN assets \cup {a} |-> IF b = a THEN new ELSE assets[b]]
  <2>1. DOMAIN assets' = DOMAIN assets \cup {a}
    BY <1>5
  <2>2. assets' \in [DOMAIN assets' -> Voice!AssetRow]
    BY <1>2, <1>5, <2>1 DEF VoiceInv, VoiceTypes
  <2>3. VoiceTypes'
    BY <1>1, <1>2, <1>3, <2>1, <2>2 DEF VoiceInv, VoiceTypes
  <2>4. Voice!OneRowPerSound'
    BY <1>5, <2>1 DEF VoiceInv, Voice!OneRowPerSound, Voice!Known
  <2> QED
    BY <1>3, <2>3, <2>4 DEF VoiceInv
<1> QED
  BY <1>1, <1>4, <1>5

\* A row that is marked keeps its recording.
LEMMA VoiceMarks ==
    ASSUME assets \in [DOMAIN assets -> Voice!AssetRow], NEW a,
           \/ assets' = [assets EXCEPT ![a].used = TRUE]
           \/ assets' = [assets EXCEPT ![a].old = TRUE]
    PROVE  /\ DOMAIN assets' = DOMAIN assets /\ assets' \in [DOMAIN assets' -> Voice!AssetRow]
           /\ \A b \in DOMAIN assets' : assets'[b].sound = assets[b].sound
<1>1. DOMAIN assets' = DOMAIN assets
  OBVIOUS
<1>2. ASSUME NEW b \in DOMAIN assets PROVE assets'[b] \in Voice!AssetRow /\ assets'[b].sound = assets[b].sound
  <2>1. /\ assets[b] = [sound |-> assets[b].sound, used |-> assets[b].used, old |-> assets[b].old]
        /\ assets[b].sound \in Sounds /\ assets[b].used \in BOOLEAN /\ assets[b].old \in BOOLEAN
    BY DEF Voice!AssetRow
  <2>2. \/ assets'[b] = assets[b]
        \/ assets'[b] = [assets[b] EXCEPT !.used = TRUE]
        \/ assets'[b] = [assets[b] EXCEPT !.old = TRUE]
    OBVIOUS
  <2> QED
    BY <2>1, <2>2 DEF Voice!AssetRow
<1>3. assets' = [b \in DOMAIN assets |-> assets'[b]]
  OBVIOUS
<1> QED
  BY <1>1, <1>2, <1>3

LEMMA VoiceStep == VoiceInv /\ [Voice!Next]_voice => VoiceInv'
<1> SUFFICES ASSUME VoiceInv, [Voice!Next]_voice PROVE VoiceInv'
  OBVIOUS
<1> DEFINE Idle == [kind |-> "idle", asset |-> 0, sound |-> "none"]
           kinds == [kind : {"idle", "send", "delete"}, asset : 0 .. made, sound : {"none"}]
<1>0. /\ made \in Nat /\ Idle \in kinds /\ DOMAIN assets \subseteq 0 .. made /\ sweep.todo \subseteq doomed
      /\ sweep.row # 0 => sweep.row \in doomed
      /\ \A s \in Senders : requests[s].asset \in 0 .. made
      /\ assets \in [DOMAIN assets -> Voice!AssetRow]
  BY DEF VoiceInv, VoiceTypes, DeletionsAreDecided
<1>1. CASE UNCHANGED voice
  BY <1>1 DEF voice, VoiceInv, VoiceTypes, DeletionsAreDecided, Voice!OneRowPerSound, Voice!Known
<1>2. ASSUME NEW s \in Senders, Voice!Upload(s) PROVE VoiceInv'
  <2>1. ASSUME NEW sound \in Sounds, Voice!UploadAgain(s, sound) PROVE VoiceInv'
    <3>1. keys' \subseteq 1 .. made /\ UNCHANGED <<assets, texts, notes, requests, sweep, made, doomed>>
      BY <2>1 DEF Voice!UploadAgain, Voice!ByHash, Voice!Known, VoiceInv, VoiceTypes
    <3> QED
      BY <3>1, <1>0, VoiceMoves DEF VoiceInv, VoiceTypes
  <2> QED
    BY <1>2, <2>1, VoiceUploads, VoiceRows DEF Voice!Upload
<1>3. ASSUME NEW s \in Senders, Voice!Sending(s) PROVE VoiceInv'
  <2>1. ASSUME NEW a \in DOMAIN assets, Voice!Send(s, a) PROVE VoiceInv'
    <3> DEFINE next == [kind |-> "send", asset |-> a, sound |-> "none"]
    <3>1. /\ requests' = [requests EXCEPT ![s] = next] /\ UNCHANGED <<assets, keys, texts, sweep, made, doomed>>
      BY <2>1 DEF Voice!Send, Voice!Begin
    <3>2. next \in kinds /\ next.kind # "delete"
      BY <1>0
    <3> HIDE DEF next, kinds
    <3> QED
      BY <3>1, <3>2, <1>0, VoiceMoves DEF VoiceInv, VoiceTypes, kinds
  <2>2. CASE Voice!Attach(s) \/ Voice!SendFails(s)
    <3>1. /\ requests' = [requests EXCEPT ![s] = Idle] /\ UNCHANGED <<keys, texts, sweep, made, doomed>>
          /\ \/ UNCHANGED assets
             \/ assets' = [assets EXCEPT ![requests[s].asset].used = TRUE]
      BY <2>2 DEF Voice!Attach, Voice!SendFails, Voice!End, Voice!Idle
    <3>2. /\ DOMAIN assets' = DOMAIN assets /\ assets' \in [DOMAIN assets' -> Voice!AssetRow]
          /\ \A a \in DOMAIN assets' : assets'[a].sound = assets[a].sound
      BY <3>1, <1>0, VoiceMarks
    <3>3. Idle.kind # "delete"
      OBVIOUS
    <3> HIDE DEF Idle, kinds
    <3> QED
      BY <3>1, <3>2, <3>3, <1>0, VoiceMoves DEF VoiceInv, VoiceTypes, kinds
  <2> QED
    BY <1>3, <2>1, <2>2 DEF Voice!Sending, Voice!Known
<1>4. ASSUME NEW s \in Senders, Voice!Deletion(s) PROVE VoiceInv'
  <2>1. ASSUME NEW a \in DOMAIN assets, Voice!DeleteFile(s, a) PROVE VoiceInv'
    <3> DEFINE next == [kind |-> "delete", asset |-> a, sound |-> "none"]
    <3>1. /\ requests' = [requests EXCEPT ![s] = next] /\ UNCHANGED <<assets, texts, sweep, made>>
          /\ keys' \subseteq keys /\ doomed' = doomed \cup {a}
      BY <2>1 DEF Voice!DeleteFile, Voice!Begin, Voice!Deletable
    <3>2. next \in kinds /\ next.asset \in doomed' /\ doomed \subseteq doomed'
      BY <1>0, <3>1
    <3> HIDE DEF next, kinds
    <3> QED
      BY <3>1, <3>2, <1>0, VoiceMoves DEF VoiceInv, VoiceTypes, kinds
  <2>2. CASE Voice!DeleteRow(s)
    <3>1. /\ requests' = [requests EXCEPT ![s] = Idle] /\ UNCHANGED <<keys, sweep, made, doomed>>
          /\ assets' = [b \in DOMAIN assets \ {requests[s].asset} |-> assets[b]]
          /\ texts' = texts \ {requests[s].asset}
      BY <2>2 DEF Voice!DeleteRow, Voice!Remove, Voice!End, Voice!Idle, Voice!Known
    <3>2. /\ DOMAIN assets' \subseteq DOMAIN assets /\ assets' \in [DOMAIN assets' -> Voice!AssetRow]
          /\ texts' \subseteq DOMAIN assets'
          /\ \A a \in DOMAIN assets' : assets'[a].sound = assets[a].sound
      BY <3>1, <1>0 DEF VoiceInv, VoiceTypes
    <3>3. Idle.kind # "delete"
      OBVIOUS
    <3> HIDE DEF Idle, kinds
    <3> QED
      BY <3>1, <3>2, <3>3, <1>0, VoiceMoves DEF VoiceInv, VoiceTypes, kinds
  <2> QED
    BY <1>4, <2>1, <2>2 DEF Voice!Deletion, Voice!Known
<1>5. ASSUME NEW a \in DOMAIN assets, Voice!Transcribe(a) \/ Voice!Age(a) PROVE VoiceInv'
  <2>1. /\ UNCHANGED <<keys, requests, sweep, made, doomed>>
        /\ \/ UNCHANGED assets /\ texts' = texts \cup {a}
           \/ UNCHANGED texts /\ assets' = [assets EXCEPT ![a].old = TRUE]
    BY <1>5 DEF Voice!Transcribe, Voice!Age
  <2>2. /\ DOMAIN assets' = DOMAIN assets /\ assets' \in [DOMAIN assets' -> Voice!AssetRow]
        /\ \A b \in DOMAIN assets' : assets'[b].sound = assets[b].sound
    BY <2>1, <1>0, VoiceMarks
  <2> QED
    BY <2>1, <2>2, <1>0, VoiceMoves DEF VoiceInv, VoiceTypes
<1>6. CASE (\E a \in sweep.todo : Voice!SweepFile(a)) \/ Voice!Sweep \/ Voice!SweepDies
  <2>1. /\ UNCHANGED <<assets, texts, requests, made>> /\ keys' \subseteq keys
        /\ doomed \subseteq doomed' /\ sweep'.todo \subseteq doomed' /\ (sweep'.row # 0 => sweep'.row \in doomed')
    BY <1>6, <1>0 DEF Voice!SweepFile, Voice!Sweep, Voice!SweepDies, Voice!Still, Voice!Orphans, Voice!Known
  <2> QED
    BY <2>1, <1>0, VoiceMoves DEF VoiceInv, VoiceTypes
<1>7. CASE Voice!SweepRow
  <2>1. /\ UNCHANGED <<keys, requests, made, doomed>> /\ sweep'.todo = sweep.todo /\ sweep'.row = 0
        /\ assets' = [b \in DOMAIN assets \ {sweep.row} |-> assets[b]]
        /\ texts' = texts \ {sweep.row}
    BY <1>7 DEF Voice!SweepRow, Voice!Remove, Voice!Known
  <2>2. /\ DOMAIN assets' \subseteq DOMAIN assets /\ assets' \in [DOMAIN assets' -> Voice!AssetRow]
        /\ texts' \subseteq DOMAIN assets'
        /\ \A a \in DOMAIN assets' : assets'[a].sound = assets[a].sound
    BY <2>1, <1>0 DEF VoiceInv, VoiceTypes
  <2> QED
    BY <2>1, <2>2, <1>0, VoiceMoves DEF VoiceInv, VoiceTypes
<1> QED
  BY <1>1, <1>2, <1>3, <1>4, <1>5, <1>6, <1>7 DEF Voice!Next, Voice!Known

LEMMA VoiceHolds == VoiceInv => Voice!TypeOK /\ Voice!OneRowPerSound
BY VoiceConstants DEF VoiceInv, VoiceTypes, Voice!TypeOK, Voice!Known

\* A row goes only after its deletion was decided.
LEMMA HeldEvidenceStays ==
    ASSUME VoiceInv, [Voice!Next]_voice,
           NEW a \in DOMAIN assets, a \notin DOMAIN assets'
    PROVE  a \in doomed
<1>1. CASE UNCHANGED voice
  BY <1>1 DEF voice
<1>2. ASSUME NEW s \in Senders, Voice!UploadRow(s) PROVE a \in DOMAIN assets'
  BY <1>2 DEF Voice!UploadRow, Voice!Stored, Voice!Known
<1>3. ASSUME NEW s \in Senders, Voice!Attach(s) PROVE a \in DOMAIN assets'
  BY <1>3 DEF Voice!Attach
<1>4. ASSUME NEW s \in Senders, Voice!DeleteRow(s) PROVE a \in doomed
  BY <1>4 DEF Voice!DeleteRow, Voice!Busy, Voice!Remove, Voice!Known, VoiceInv, DeletionsAreDecided
<1>5. ASSUME Voice!SweepRow PROVE a \in doomed
  BY <1>5 DEF Voice!SweepRow, Voice!Remove, Voice!Known, VoiceInv, DeletionsAreDecided
<1>6. ASSUME NEW b, Voice!Age(b) PROVE a \in DOMAIN assets'
  BY <1>6 DEF Voice!Age
<1>7. ASSUME UNCHANGED assets PROVE a \in DOMAIN assets'
  BY <1>7
<1> QED
  BY <1>1, <1>2, <1>3, <1>4, <1>5, <1>6, <1>7
     DEF Voice!Next, Voice!Upload, Voice!UploadFile, Voice!UploadAgain, Voice!Sending, Voice!Send,
         Voice!SendFails, Voice!Deletion, Voice!DeleteFile, Voice!Transcribe, Voice!SweepFile, Voice!Sweep,
         Voice!SweepDies

------------------------------------------------------------------------------
(* The editorial plan.  Every row was accepted on facts that were known    *)
(* when it was asked for, and its angles are marked by whole selections,   *)
(* save where its creation or its last selection was cut.                  *)

Proposals == UNION Answered

PlanRows ==
    [status : Plan!SubjectStatuses, evidence : {s.evidence : s \in Proposals},
     angles : UNION {[angles -> Plan!AngleMarks] : angles \in SUBSET UNION {s.angles : s \in Proposals}}]

Grounded(evidence) == evidence # {} /\ Plan!Ungrounded(evidence, {"f1", "f2"}) = {}

RowIsGrounded(row) == Grounded(row.evidence) /\ \A a \in DOMAIN row.angles : Grounded(a.evidence)

RowIsSettled(row) ==
    /\ DOMAIN row.angles # {}
    /\ \A a, b \in DOMAIN row.angles : row.angles[a] = "selected" /\ row.angles[b] = "selected" => a = b
    /\ \A a \in DOMAIN row.angles : row.angles[a] = "selected" => row.status = "selected"

SoundRows == {row \in PlanRows : RowIsGrounded(row) /\ RowIsSettled(row)}

RowsAreSound(rows, cut) ==
    /\ rows \in Seq(PlanRows) /\ cut \subseteq DOMAIN rows
    /\ \A n \in DOMAIN rows : RowIsGrounded(rows[n])
    /\ \A n \in DOMAIN rows \ cut : RowIsSettled(rows[n])

PlanInv ==
    /\ known \subseteq {"f1", "f2"} /\ brief \in {"none", "draft", "validated"}
    /\ asked \in [Requests -> SUBSET SUBSET {"f1", "f2"}]
    /\ RowsAreSound(subjects, halved)

LEMMA PlanConstants ==
    ASSUME NEW plan0 \in Answered
    PROVE  IsFiniteSet(plan0)
<1>1. Plan!IsFiniteSet(plan0)
  BY EditingAssumption DEF EditingAssumption, Plan!PlanAssumption
<1> QED
  BY <1>1 DEF Plan!IsFiniteSet, IsFiniteSet

\* checkGrounding: what rests on facts rests on more of them.
LEMMA MoreFactsGround ==
    ASSUME NEW quotes, NEW facts0 \in SUBSET {"f1", "f2"}, Plan!Ungrounded(quotes, facts0) = {}
    PROVE  Plan!Ungrounded(quotes, {"f1", "f2"}) = {}
BY DEF Plan!Ungrounded

LEMMA GroundedRests ==
    ASSUME NEW evidence, Grounded(evidence)
    PROVE  /\ evidence # {}
           /\ \A q \in evidence : [q0 |-> {}, q1 |-> {"f1"}, q2 |-> {"f2"}][q] # {}
BY DEF Grounded, Plan!Ungrounded

\* A row is made of a subject that was accepted, and of some of its angles.
LEMMA AcceptedRowIsGrounded ==
    ASSUME NEW subject \in Proposals, NEW facts0 \in SUBSET {"f1", "f2"},
           Plan!Accepted(subject, facts0), NEW angles0 \in SUBSET Plan!KeptAngles(subject, facts0)
    PROVE  LET row == Plan!RowOf(subject, angles0)
           IN /\ row \in PlanRows /\ RowIsGrounded(row)
              /\ row.status = "proposed" /\ row.angles = [a \in angles0 |-> "open"]
<1> DEFINE row == Plan!RowOf(subject, angles0)
<1>1. /\ row.status = "proposed" /\ row.evidence = subject.evidence
      /\ row.angles = [a \in angles0 |-> "open"] /\ DOMAIN row.angles = angles0
      /\ row = [status |-> row.status, evidence |-> row.evidence, angles |-> row.angles]
  BY DEF Plan!RowOf
<1>2. Grounded(subject.evidence)
  BY MoreFactsGround DEF Plan!Accepted, Grounded
<1>3. \A a \in angles0 : Grounded(a.evidence)
  BY MoreFactsGround DEF Plan!KeptAngles, Grounded
<1>4. row \in PlanRows
  <2>1. angles0 \in SUBSET UNION {s.angles : s \in Proposals}
    BY DEF Plan!KeptAngles
  <2>2. row.angles \in [angles0 -> Plan!AngleMarks]
    BY <1>1 DEF Plan!AngleMarks
  <2>3. row.angles \in UNION {[angles -> Plan!AngleMarks] : angles \in SUBSET UNION {s.angles : s \in Proposals}}
    BY <2>1, <2>2
  <2>4. row.status \in Plan!SubjectStatuses /\ row.evidence \in {s.evidence : s \in Proposals}
    BY <1>1 DEF Plan!SubjectStatuses
  <2> QED
    BY <1>1, <2>3, <2>4 DEF PlanRows
<1>5. RowIsGrounded(row)
  BY <1>1, <1>2, <1>3 DEF RowIsGrounded
<1> QED
  BY <1>1, <1>4, <1>5

LEMMA AcceptedRowIsSound ==
    ASSUME NEW subject \in Proposals, NEW facts0 \in SUBSET {"f1", "f2"},
           Plan!Accepted(subject, facts0)
    PROVE  Plan!Row(subject, facts0) \in SoundRows
<1> DEFINE row == Plan!Row(subject, facts0)
<1>1. PICK angles0 \in SUBSET Plan!KeptAngles(subject, facts0) :
        angles0 = Plan!KeptAngles(subject, facts0) /\ angles0 # {}
  BY DEF Plan!Accepted
<1>2. row = Plan!RowOf(subject, angles0)
  BY <1>1 DEF Plan!Row
<1> HIDE DEF row
<1>3. /\ row \in PlanRows /\ RowIsGrounded(row) /\ row.status = "proposed"
      /\ row.angles = [a \in angles0 |-> "open"]
  BY <1>2, AcceptedRowIsGrounded
<1>4. RowIsSettled(row)
  BY <1>1, <1>3 DEF RowIsSettled
<1> QED
  BY <1>3, <1>4 DEF SoundRows, row

\* createPlan: there is an order of the rows, and no row comes from nowhere.
LEMMA StoredAreRows ==
    ASSUME NEW accepted, IsFiniteSet(accepted), NEW facts0
    PROVE  /\ Plan!Stored(accepted, facts0) \in Seq({Plan!Row(s, facts0) : s \in accepted})
<1> DEFINE rows0 == {Plan!Row(s, facts0) : s \in accepted}
           size == Cardinality(accepted)
           Whole(r) == \A s \in accepted : \E n \in DOMAIN r : r[n] = Plan!Row(s, facts0)
<1>1. Plan!Cardinality(accepted) = size
  BY DEF Plan!Cardinality, Cardinality
<1>2. size \in Nat /\ ExistsBijection(1 .. size, accepted)
  BY FS_CardinalityType
<1>3. PICK f \in Bijection(1 .. size, accepted) : TRUE
  BY <1>2 DEF ExistsBijection
<1>4. /\ f \in [1 .. size -> accepted]
      /\ \A s \in accepted : \E n \in 1 .. size : f[n] = s
  BY <1>3 DEF Bijection, Surjection
<1> DEFINE r == [n \in 1 .. size |-> Plan!Row(f[n], facts0)]
<1>5. r \in [1 .. size -> rows0] /\ Whole(r)
  <2>1. \A n \in 1 .. size : r[n] \in rows0
    BY <1>4
  <2>2. ASSUME NEW s \in accepted PROVE \E n \in DOMAIN r : r[n] = Plan!Row(s, facts0)
    <3>1. PICK n \in 1 .. size : f[n] = s
      BY <1>4
    <3> QED
      BY <3>1
  <2> QED
    BY <2>1, <2>2
<1>6. \E rows \in [1 .. size -> rows0] : Whole(rows)
  BY <1>5
<1>7. Plan!Stored(accepted, facts0) = CHOOSE rows \in [1 .. size -> rows0] : Whole(rows)
  BY <1>1 DEF Plan!Stored
<1> HIDE DEF rows0, Whole, size
<1>8. Plan!Stored(accepted, facts0) \in [1 .. size -> rows0]
  BY <1>6, <1>7
<1>9. Plan!Stored(accepted, facts0) \in Seq(rows0)
  BY <1>2, <1>8 DEF size
<1> QED
  BY <1>9 DEF rows0

\* Sound rows come after those that were there.
LEMMA RowsAdded ==
    ASSUME PlanInv, NEW new \in Seq(SoundRows), NEW all, all = subjects \o new
    PROVE  RowsAreSound(all, halved)
<1>1. /\ subjects \in Seq(PlanRows) /\ halved \subseteq DOMAIN subjects
      /\ \A n \in DOMAIN subjects : RowIsGrounded(subjects[n])
      /\ \A n \in DOMAIN subjects \ halved : RowIsSettled(subjects[n])
  BY DEF PlanInv, RowsAreSound
<1>2. new \in Seq(PlanRows) /\ \A n \in DOMAIN new : RowIsGrounded(new[n]) /\ RowIsSettled(new[n])
  BY DEF SoundRows
<1>3. all \in Seq(PlanRows)
  BY <1>1, <1>2
<1>4. /\ DOMAIN subjects = 1 .. Len(subjects) /\ DOMAIN new = 1 .. Len(new)
      /\ DOMAIN all = 1 .. Len(subjects) + Len(new) /\ Len(subjects) \in Nat /\ Len(new) \in Nat
  BY <1>1, <1>2
<1>5. \A n \in DOMAIN all : all[n] = IF n <= Len(subjects) THEN subjects[n] ELSE new[n - Len(subjects)]
  BY <1>1, <1>2, <1>4
<1>6. ASSUME NEW n \in DOMAIN all PROVE RowIsGrounded(all[n]) /\ (n \notin halved => RowIsSettled(all[n]))
  <2>1. CASE n <= Len(subjects)
    <3>1. n \in DOMAIN subjects /\ all[n] = subjects[n]
      BY <1>4, <1>5, <2>1
    <3> QED
      BY <1>1, <3>1
  <2>2. CASE ~(n <= Len(subjects))
    <3>1. n - Len(subjects) \in DOMAIN new /\ all[n] = new[n - Len(subjects)]
      BY <1>4, <1>5, <2>2
    <3> QED
      BY <1>2, <3>1
  <2> QED
    BY <2>1, <2>2
<1>7. halved \subseteq DOMAIN all
  BY <1>1, <1>4
<1> QED
  BY <1>3, <1>6, <1>7 DEF RowsAreSound

\* A last row that was cut.
LEMMA RowCut ==
    ASSUME NEW rows, NEW cut, RowsAreSound(rows, cut), NEW row \in PlanRows, RowIsGrounded(row)
    PROVE  RowsAreSound(rows \o <<row>>, cut \cup {Len(rows \o <<row>>)})
<1> DEFINE all == rows \o <<row>>
<1>1. rows \in Seq(PlanRows) /\ cut \subseteq DOMAIN rows /\ Len(rows) \in Nat /\ DOMAIN rows = 1 .. Len(rows)
  BY DEF RowsAreSound
<1>2. /\ all \in Seq(PlanRows) /\ Len(all) = Len(rows) + 1 /\ DOMAIN all = 1 .. Len(rows) + 1
      /\ all[Len(rows) + 1] = row /\ \A n \in 1 .. Len(rows) : all[n] = rows[n]
  BY <1>1
<1> HIDE DEF all
<1>3. ASSUME NEW n \in DOMAIN all
      PROVE  RowIsGrounded(all[n]) /\ (n \notin cut \cup {Len(all)} => RowIsSettled(all[n]))
  <2>1. CASE n = Len(all)
    BY <1>2, <2>1
  <2>2. CASE n # Len(all)
    <3>1. n \in DOMAIN rows /\ all[n] = rows[n]
      BY <1>1, <1>2, <2>2
    <3> QED
      BY <3>1 DEF RowsAreSound
  <2> QED
    BY <2>1, <2>2
<1>4. cut \cup {Len(all)} \subseteq DOMAIN all
  BY <1>1, <1>2
<1>5. RowsAreSound(all, cut \cup {Len(all)})
  BY <1>2, <1>3, <1>4 DEF RowsAreSound
<1> QED
  BY <1>5 DEF all

\* Every subject that was accepted makes a sound row.
LEMMA StoredAreSound ==
    ASSUME NEW plan0 \in Answered, NEW facts0 \in SUBSET {"f1", "f2"}, NEW some \in SUBSET plan0,
           \A subject \in some : Plan!Accepted(subject, facts0)
    PROVE  Plan!Stored(some, facts0) \in Seq(SoundRows)
<1>1. IsFiniteSet(some)
  BY PlanConstants, FS_Subset
<1>2. \A s \in some : Plan!Row(s, facts0) \in SoundRows
  BY AcceptedRowIsSound DEF Proposals
<1>3. Plan!Stored(some, facts0) \in Seq({Plan!Row(s, facts0) : s \in some})
  BY <1>1, StoredAreRows
<1>4. {Plan!Row(s, facts0) : s \in some} \subseteq SoundRows
  BY <1>2
<1> QED
  BY <1>3, <1>4

LEMMA PlanAnswers ==
    ASSUME PlanInv, NEW r \in Requests, NEW plan0 \in Answered, Plan!Answer(r, plan0)
    PROVE  PlanInv'
<1>1. PICK facts0 \in asked[r] :
        subjects' = subjects \o Plan!Stored({subject \in plan0 : Plan!Accepted(subject, facts0)}, facts0)
  BY DEF Plan!Answer
<1>2. facts0 \in SUBSET {"f1", "f2"}
  BY <1>1 DEF PlanInv
<1>3. PICK accepted \in SUBSET plan0 : accepted = {subject \in plan0 : Plan!Accepted(subject, facts0)}
  OBVIOUS
<1>4. Plan!Stored(accepted, facts0) \in Seq(SoundRows)
  BY <1>2, <1>3, StoredAreSound
<1>5. RowsAreSound(subjects', halved)
  BY <1>1, <1>3, <1>4, RowsAdded
<1>6. asked' = [asked EXCEPT ![r] = {}] /\ UNCHANGED <<known, brief, halved>>
  BY DEF Plan!Answer
<1>7. RowsAreSound(subjects, halved)'
  BY <1>5, <1>6
<1> QED
  BY <1>6, <1>7 DEF PlanInv

LEMMA PlanAnswersInPart ==
    ASSUME PlanInv, NEW r \in Requests, NEW plan0 \in Answered, Plan!AnswerCut(r, plan0)
    PROVE  PlanInv'
<1>1. PICK facts0 \in asked[r] :
        \E last \in {subject \in plan0 : Plan!Accepted(subject, facts0)} :
          \E whole \in SUBSET ({subject \in plan0 : Plan!Accepted(subject, facts0)} \ {last}),
             angles0 \in SUBSET Plan!KeptAngles(last, facts0) :
               subjects' = subjects \o Plan!Stored(whole, facts0) \o <<Plan!RowOf(last, angles0)>>
  BY DEF Plan!AnswerCut
<1>2. PICK last \in {subject \in plan0 : Plan!Accepted(subject, facts0)} :
        \E whole \in SUBSET ({subject \in plan0 : Plan!Accepted(subject, facts0)} \ {last}),
           angles0 \in SUBSET Plan!KeptAngles(last, facts0) :
             subjects' = subjects \o Plan!Stored(whole, facts0) \o <<Plan!RowOf(last, angles0)>>
  BY <1>1
<1>3. PICK whole \in SUBSET ({subject \in plan0 : Plan!Accepted(subject, facts0)} \ {last}),
           angles0 \in SUBSET Plan!KeptAngles(last, facts0) :
             subjects' = subjects \o Plan!Stored(whole, facts0) \o <<Plan!RowOf(last, angles0)>>
  BY <1>2
<1>4. facts0 \in SUBSET {"f1", "f2"}
  BY <1>1 DEF PlanInv
<1>5. Plan!Stored(whole, facts0) \in Seq(SoundRows)
  BY <1>3, <1>4, StoredAreSound
<1>6. PICK rows : rows = subjects \o Plan!Stored(whole, facts0)
  OBVIOUS
<1>7. RowsAreSound(rows, halved)
  BY <1>5, <1>6, RowsAdded
<1>8. PICK row \in PlanRows : row = Plan!RowOf(last, angles0) /\ RowIsGrounded(row)
  BY <1>2, <1>3, <1>4, AcceptedRowIsGrounded DEF Proposals
<1>9. subjects' = rows \o <<row>>
  BY <1>3, <1>6, <1>8
<1>10. RowsAreSound(subjects', halved \cup {Len(subjects')})
  BY <1>7, <1>8, <1>9, RowCut
<1>11. /\ halved' = halved \cup {Len(subjects')} /\ asked' = [q \in Requests |-> {}]
       /\ UNCHANGED <<known, brief>>
  BY DEF Plan!AnswerCut, Plan!Dies
<1>12. RowsAreSound(subjects, halved)'
  BY <1>10, <1>11
<1> QED
  BY <1>11, <1>12 DEF PlanInv

LEMMA PlanInit == Plan!Init => PlanInv
<1> SUFFICES ASSUME Plan!Init PROVE PlanInv
  OBVIOUS
<1>1. /\ known = {"f1", "f2"} /\ brief \in {"none", "draft", "validated"}
      /\ subjects = <<>> /\ asked = [r \in Requests |-> {}] /\ halved = {}
  BY DEF Plan!Init
<1> QED
  BY <1>1 DEF PlanInv, RowsAreSound

\* A row that one angle of it is selected or marked in.
LEMMA PlanMarks ==
    ASSUME PlanInv, NEW n \in DOMAIN subjects, NEW row \in PlanRows, RowIsGrounded(row),
           n \notin halved' => RowIsSettled(row), halved' \in {halved, halved \ {n}, halved \cup {n}},
           subjects' = [subjects EXCEPT ![n] = row], UNCHANGED <<known, brief>>,
           asked' \in {asked, [r \in Requests |-> {}]}
    PROVE  PlanInv'
<1>1. /\ subjects \in Seq(PlanRows) /\ halved \subseteq DOMAIN subjects
      /\ \A m \in DOMAIN subjects : RowIsGrounded(subjects[m])
      /\ \A m \in DOMAIN subjects \ halved : RowIsSettled(subjects[m])
  BY DEF PlanInv, RowsAreSound
<1>2. /\ subjects' \in Seq(PlanRows) /\ DOMAIN subjects' = DOMAIN subjects /\ subjects'[n] = row
      /\ \A m \in DOMAIN subjects \ {n} : subjects'[m] = subjects[m]
  BY <1>1
<1>3. \A m \in DOMAIN subjects \ {n} : m \in halved' <=> m \in halved
  OBVIOUS
<1>4. halved' \subseteq DOMAIN subjects'
  BY <1>1, <1>2
<1>5. \A m \in DOMAIN subjects' : RowIsGrounded(subjects'[m])
  BY <1>1, <1>2
<1>6. \A m \in DOMAIN subjects' \ halved' : RowIsSettled(subjects'[m])
  BY <1>1, <1>2, <1>3
<1>7. RowsAreSound(subjects, halved)'
  BY <1>2, <1>4, <1>5, <1>6 DEF RowsAreSound
<1>8. asked' \in [Requests -> SUBSET SUBSET {"f1", "f2"}]
  BY DEF PlanInv
<1> QED
  BY <1>7, <1>8 DEF PlanInv

\* Marks are marks of the same angles.
LEMMA MarksReplaced ==
    ASSUME NEW old \in PlanRows, RowIsGrounded(old), NEW marks \in [DOMAIN old.angles -> Plan!AngleMarks],
           NEW status0 \in Plan!SubjectStatuses
    PROVE  LET row == [status |-> status0, evidence |-> old.evidence, angles |-> marks]
           IN row \in PlanRows /\ RowIsGrounded(row)
<1> DEFINE row == [status |-> status0, evidence |-> old.evidence, angles |-> marks]
<1>1. PICK angles \in SUBSET UNION {s.angles : s \in Proposals} : old.angles \in [angles -> Plan!AngleMarks]
  BY DEF PlanRows
<1>2. marks \in UNION {[those -> Plan!AngleMarks] : those \in SUBSET UNION {s.angles : s \in Proposals}}
  BY <1>1
<1>3. old.evidence \in {s.evidence : s \in Proposals}
  BY DEF PlanRows
<1>4. row \in PlanRows
  BY <1>2, <1>3 DEF PlanRows
<1>5. RowIsGrounded(row)
  BY DEF RowIsGrounded
<1> QED
  BY <1>4, <1>5

LEMMA OldRow ==
    ASSUME PlanInv, NEW n \in DOMAIN subjects
    PROVE  /\ subjects[n] \in PlanRows /\ RowIsGrounded(subjects[n])
           /\ n \notin halved => RowIsSettled(subjects[n])
           /\ subjects[n] = [status |-> subjects[n].status, evidence |-> subjects[n].evidence,
                             angles |-> subjects[n].angles]
           /\ subjects[n].angles \in [DOMAIN subjects[n].angles -> Plan!AngleMarks]
           /\ subjects[n].status \in Plan!SubjectStatuses
<1>1. subjects[n] \in PlanRows /\ RowIsGrounded(subjects[n]) /\ (n \notin halved => RowIsSettled(subjects[n]))
  BY DEF PlanInv, RowsAreSound
<1>2. PICK angles : subjects[n].angles \in [angles -> Plan!AngleMarks]
  BY <1>1 DEF PlanRows
<1>3. subjects[n].status \in Plan!SubjectStatuses
  BY <1>1 DEF PlanRows
<1>4. subjects[n] = [status |-> subjects[n].status, evidence |-> subjects[n].evidence,
                     angles |-> subjects[n].angles]
  BY <1>1 DEF PlanRows
<1> QED
  BY <1>1, <1>2, <1>3, <1>4

LEMMA PlanSelects ==
    ASSUME PlanInv, NEW n \in DOMAIN subjects, NEW a \in DOMAIN subjects[n].angles, Plan!SelectAngle(n, a)
    PROVE  PlanInv'
<1>1. PICK old \in PlanRows :
        /\ old = subjects[n] /\ RowIsGrounded(old)
        /\ old = [status |-> old.status, evidence |-> old.evidence, angles |-> old.angles]
        /\ old.angles \in [DOMAIN old.angles -> Plan!AngleMarks]
  BY OldRow
<1>2. PICK marks :
        /\ marks = Plan!Select(old.angles, a) /\ marks \in [DOMAIN old.angles -> Plan!AngleMarks]
        /\ \A b \in DOMAIN old.angles : marks[b] = IF b = a THEN "selected" ELSE "rejected"
  <2>1. PICK marks : marks = Plan!Select(old.angles, a)
    OBVIOUS
  <2>2. marks = [b \in DOMAIN old.angles |-> IF b = a THEN "selected" ELSE "rejected"]
    BY <2>1 DEF Plan!Select, Plan!Selecting
  <2>3. marks \in [DOMAIN old.angles -> Plan!AngleMarks]
    BY <2>2 DEF Plan!AngleMarks
  <2>4. \A b \in DOMAIN old.angles : marks[b] = IF b = a THEN "selected" ELSE "rejected"
    BY <2>2
  <2> QED
    BY <2>1, <2>3, <2>4
<1>3. PICK row : row = [status |-> "selected", evidence |-> old.evidence, angles |-> marks]
  OBVIOUS
<1>4. row \in PlanRows /\ RowIsGrounded(row)
  BY <1>1, <1>2, <1>3, MarksReplaced DEF Plan!SubjectStatuses
<1>5. row.status = "selected" /\ row.angles = marks /\ DOMAIN marks = DOMAIN old.angles
  BY <1>2, <1>3
<1>6. RowIsSettled(row)
  BY <1>1, <1>2, <1>5 DEF RowIsSettled
<1>7. subjects' = [subjects EXCEPT ![n] = row]
  <2>1. subjects' = [subjects EXCEPT ![n].angles = marks, ![n].status = "selected"]
    BY <1>1, <1>2 DEF Plan!SelectAngle
  <2>2. subjects' = [subjects EXCEPT ![n] = [[old EXCEPT !.angles = marks] EXCEPT !.status = "selected"]]
    BY <1>1, <2>1
  <2>3. [old EXCEPT !.angles = marks] = [status |-> old.status, evidence |-> old.evidence, angles |-> marks]
    BY <1>1
  <2>4. [[status |-> old.status, evidence |-> old.evidence, angles |-> marks] EXCEPT !.status = "selected"] = row
    BY <1>3
  <2> QED
    BY <2>2, <2>3, <2>4
<1>8. halved' = halved \ {n} /\ UNCHANGED <<known, brief, asked>>
  BY DEF Plan!SelectAngle
<1> QED
  BY <1>4, <1>6, <1>7, <1>8, PlanMarks

LEMMA PlanSelectsInPart ==
    ASSUME PlanInv, NEW n \in DOMAIN subjects, NEW a \in DOMAIN subjects[n].angles, Plan!SelectCut(n, a)
    PROVE  PlanInv'
<1>1. PICK old \in PlanRows :
        /\ old = subjects[n] /\ RowIsGrounded(old)
        /\ old = [status |-> old.status, evidence |-> old.evidence, angles |-> old.angles]
        /\ old.angles \in [DOMAIN old.angles -> Plan!AngleMarks] /\ old.status \in Plan!SubjectStatuses
  BY OldRow
<1>2. PICK siblings \in SUBSET (DOMAIN subjects[n].angles \ {a}) :
        subjects' = [subjects EXCEPT ![n].angles = Plan!Selecting(@, a, siblings)]
  BY DEF Plan!SelectCut
<1>3. PICK marks \in [DOMAIN old.angles -> Plan!AngleMarks] : marks = Plan!Selecting(old.angles, a, siblings)
  BY <1>1 DEF Plan!Selecting, Plan!AngleMarks
<1>4. PICK row : row = [status |-> old.status, evidence |-> old.evidence, angles |-> marks]
  OBVIOUS
<1>5. row \in PlanRows /\ RowIsGrounded(row)
  BY <1>1, <1>3, <1>4, MarksReplaced
<1>6. subjects' = [subjects EXCEPT ![n] = row]
  <2>1. subjects' = [subjects EXCEPT ![n] = [old EXCEPT !.angles = marks]]
    BY <1>1, <1>2, <1>3
  <2>2. [old EXCEPT !.angles = marks] = row
    BY <1>1, <1>4
  <2> QED
    BY <2>1, <2>2
<1>7. halved' = halved \cup {n} /\ asked' = [r \in Requests |-> {}] /\ UNCHANGED <<known, brief>>
  BY DEF Plan!SelectCut, Plan!Dies
<1> QED
  BY <1>5, <1>6, <1>7, PlanMarks

LEMMA PlanRejects ==
    ASSUME PlanInv, NEW n \in DOMAIN subjects, NEW a \in DOMAIN subjects[n].angles,
           NEW mark \in {"open", "rejected"}, Plan!RejectAngle(n, a, mark)
    PROVE  PlanInv'
<1>1. PICK old \in PlanRows :
        /\ old = subjects[n] /\ RowIsGrounded(old) /\ (n \notin halved => RowIsSettled(old))
        /\ old = [status |-> old.status, evidence |-> old.evidence, angles |-> old.angles]
        /\ old.angles \in [DOMAIN old.angles -> Plan!AngleMarks] /\ old.status \in Plan!SubjectStatuses
  BY OldRow
<1>2. PICK marks :
        /\ marks = [old.angles EXCEPT ![a] = mark] /\ marks \in [DOMAIN old.angles -> Plan!AngleMarks]
        /\ \A b \in DOMAIN old.angles : marks[b] = "selected" => old.angles[b] = "selected"
  <2>1. PICK marks : marks = [old.angles EXCEPT ![a] = mark]
    OBVIOUS
  <2>2. marks \in [DOMAIN old.angles -> Plan!AngleMarks]
    BY <1>1, <2>1 DEF Plan!AngleMarks
  <2>3. \A b \in DOMAIN old.angles : marks[b] = "selected" => old.angles[b] = "selected"
    BY <1>1, <2>1
  <2> QED
    BY <2>1, <2>2, <2>3
<1>3. PICK row : row = [status |-> old.status, evidence |-> old.evidence, angles |-> marks]
  OBVIOUS
<1>4. row \in PlanRows /\ RowIsGrounded(row)
  BY <1>1, <1>2, <1>3, MarksReplaced
<1>5. row.status = old.status /\ row.angles = marks /\ DOMAIN marks = DOMAIN old.angles
  BY <1>2, <1>3
<1>6. n \notin halved => RowIsSettled(row)
  BY <1>1, <1>2, <1>5 DEF RowIsSettled
<1>7. subjects' = [subjects EXCEPT ![n] = row]
  <2>1. subjects' = [subjects EXCEPT ![n] = [old EXCEPT !.angles = marks]]
    BY <1>1, <1>2 DEF Plan!RejectAngle
  <2>2. [old EXCEPT !.angles = marks] = row
    BY <1>1, <1>3
  <2> QED
    BY <2>1, <2>2
<1>8. UNCHANGED <<known, brief, asked, halved>>
  BY DEF Plan!RejectAngle
<1> QED
  BY <1>4, <1>6, <1>7, <1>8, PlanMarks

LEMMA PlanStep == PlanInv /\ [Plan!Next]_plan => PlanInv'
<1> SUFFICES ASSUME PlanInv, [Plan!Next]_plan PROVE PlanInv'
  OBVIOUS
<1>1. CASE UNCHANGED plan
  BY <1>1 DEF plan, PlanInv
<1>2. ASSUME NEW r \in Requests, Plan!Ask(r) PROVE PlanInv'
  BY <1>2 DEF Plan!Ask, PlanInv
<1>3. ASSUME NEW r \in Requests, NEW plan0 \in Answered, Plan!Answer(r, plan0) \/ Plan!AnswerCut(r, plan0)
      PROVE  PlanInv'
  BY <1>3, PlanAnswers, PlanAnswersInPart
<1>4. ASSUME NEW n \in DOMAIN subjects, NEW a \in DOMAIN subjects[n].angles, Plan!AngleRoutes(n, a) PROVE PlanInv'
  <2>1. Plan!AngleMarks \ {"selected"} = {"open", "rejected"}
    BY DEF Plan!AngleMarks
  <2> QED
    BY <1>4, <2>1, PlanSelects, PlanSelectsInPart, PlanRejects DEF Plan!AngleRoutes
<1>5. ASSUME NEW f, Plan!Forget(f) PROVE PlanInv'
  BY <1>5 DEF Plan!Forget, PlanInv
<1>6. ASSUME NEW status0 \in {"draft", "validated"}, Plan!Rebrief(status0) PROVE PlanInv'
  BY <1>6 DEF Plan!Rebrief, PlanInv
<1> QED
  BY <1>1, <1>2, <1>3, <1>4, <1>5, <1>6 DEF Plan!Next, Plan!Planning

LEMMA PlanHolds == PlanInv => Plan!TypeOK /\ Plan!PlanIsGrounded /\ Plan!OneSelected
<1> SUFFICES ASSUME PlanInv PROVE Plan!TypeOK /\ Plan!PlanIsGrounded /\ Plan!OneSelected
  OBVIOUS
<1>1. Plan!TypeOK
  BY OldRow DEF PlanInv, RowsAreSound, Plan!TypeOK
<1>2. Plan!OneSelected
  BY OldRow DEF RowIsSettled, Plan!OneSelected
<1>3. ASSUME NEW n \in DOMAIN subjects
      PROVE  /\ DOMAIN subjects[n].angles # {} \/ n \in halved
             /\ \A evidence \in {subjects[n].evidence} \cup {a.evidence : a \in DOMAIN subjects[n].angles} :
                  /\ evidence # {}
                  /\ \A q \in evidence : [q0 |-> {}, q1 |-> {"f1"}, q2 |-> {"f2"}][q] # {}
  <2>1. RowIsGrounded(subjects[n]) /\ (n \notin halved => RowIsSettled(subjects[n]))
    BY OldRow
  <2>2. \A evidence \in {subjects[n].evidence} \cup {a.evidence : a \in DOMAIN subjects[n].angles} :
          Grounded(evidence)
    BY <2>1 DEF RowIsGrounded
  <2> QED
    BY <2>1, <2>2, GroundedRests DEF RowIsSettled
<1>4. Plan!PlanIsGrounded
  BY <1>3 DEF Plan!PlanIsGrounded
<1> QED
  BY <1>1, <1>2, <1>4

------------------------------------------------------------------------------
(* The memory of a project.  A fact replaces an older one, which names it  *)
(* back unless the replacement was cut; those cuts are the only facts      *)
(* replaced and still alive.                                               *)

MemoryTypes ==
    /\ status \in Memory!ProjectStatuses
    /\ facts \in Seq(Memory!FactRow) /\ Len(facts) <= MaxFacts
    /\ confirmed \subseteq DOMAIN facts /\ memoryCuts \in Nat

LinksAgree ==
    \A f \in DOMAIN facts :
        /\ facts[f].status = "superseded" <=> facts[f].by # 0
        /\ facts[f].by # 0 => facts[f].by \in DOMAIN facts /\ facts[facts[f].by].supersedes = f
        /\ facts[f].supersedes # 0 =>
             /\ facts[f].supersedes \in DOMAIN facts /\ facts[f].supersedes < f
             /\ \A g \in DOMAIN facts : facts[g].supersedes = facts[f].supersedes => f = g
             /\ \/ facts[facts[f].supersedes].by = f
                \/ facts[facts[f].supersedes].by = 0 /\ memoryCuts > 0

\* Those that were replaced and are not dead.
Survivors == {f \in DOMAIN facts : ~Memory!Unreplaced(f) /\ facts[f].status # "superseded"}

MemoryInv ==
    /\ MemoryTypes /\ LinksAgree /\ Memory!TrustedIsHuman
    /\ Cardinality(Survivors) <= memoryCuts

LEMMA MemoryCounts ==
    /\ MaxFacts \in Nat
    /\ \A S : Memory!Cardinality(S) = Cardinality(S) /\ (Memory!IsFiniteSet(S) <=> IsFiniteSet(S))
BY EditingAssumption DEF EditingAssumption, Memory!MemoryAssumption, Memory!Cardinality, Memory!IsFiniteSet,
                         Cardinality, IsFiniteSet

LEMMA MemoryFacts ==
    ASSUME MemoryInv
    PROVE  /\ DOMAIN facts = 1 .. Len(facts) /\ Len(facts) \in Nat /\ MaxFacts \in Nat
           /\ \A f \in DOMAIN facts : facts[f] \in Memory!FactRow
           /\ \A S \in SUBSET DOMAIN facts : IsFiniteSet(S) /\ Cardinality(S) \in Nat
<1>1. DOMAIN facts = 1 .. Len(facts) /\ Len(facts) \in Nat /\ \A f \in DOMAIN facts : facts[f] \in Memory!FactRow
  BY DEF MemoryInv, MemoryTypes
<1>2. IsFiniteSet(1 .. Len(facts))
  BY <1>1, FS_Interval
<1>3. \A S \in SUBSET DOMAIN facts : IsFiniteSet(S) /\ Cardinality(S) \in Nat
  BY <1>1, <1>2, FS_Subset, FS_CardinalityType
<1> QED
  BY <1>1, <1>3, MemoryCounts

\* There is room for one fact more.
LEMMA MemoryRoom ==
    ASSUME MemoryInv, Memory!Room
    PROVE  Len(facts) + 1 <= MaxFacts
<1>1. Cardinality({f \in DOMAIN facts : facts[f].edited}) \in Nat
  BY MemoryFacts
<1> QED
  BY <1>1, MemoryFacts, MemoryCounts DEF Memory!Room

LEMMA MemoryInit == Memory!Init => MemoryInv
<1> SUFFICES ASSUME Memory!Init PROVE MemoryInv
  OBVIOUS
<1>1. status = "discovery" /\ facts = <<>> /\ confirmed = {} /\ memoryCuts = 0
  BY DEF Memory!Init
<1>2. MemoryTypes
  BY <1>1, MemoryCounts DEF MemoryTypes, Memory!ProjectStatuses
<1>3. LinksAgree /\ Memory!TrustedIsHuman
  BY <1>1 DEF LinksAgree, Memory!TrustedIsHuman
<1>4. Cardinality(Survivors) <= memoryCuts
  <2>1. Survivors = {}
    BY <1>1 DEF Survivors
  <2> QED
    BY <1>1, <2>1, FS_EmptySet
<1> QED
  BY <1>2, <1>3, <1>4 DEF MemoryInv

\* A row written again in its place, dead if it was and linked as it was.
LEMMA MemoryRewrites ==
    ASSUME MemoryInv, NEW f \in DOMAIN facts, NEW row \in Memory!FactRow,
           facts' = [facts EXCEPT ![f] = row], UNCHANGED <<status, memoryCuts>>,
           confirmed' \subseteq DOMAIN facts, confirmed \ {f} \subseteq confirmed',
           row.supersedes = facts[f].supersedes, row.by = facts[f].by,
           row.status = "superseded" <=> facts[f].status = "superseded",
           row.status = "verified" => f \in confirmed'
    PROVE  MemoryInv'
<1>1. /\ DOMAIN facts' = DOMAIN facts /\ Len(facts') = Len(facts)
      /\ \A g \in DOMAIN facts : facts'[g] = IF g = f THEN row ELSE facts[g]
  BY DEF MemoryInv, MemoryTypes
<1>2. MemoryTypes'
  <2>1. facts' \in Seq(Memory!FactRow)
    BY DEF MemoryInv, MemoryTypes
  <2> QED
    BY <1>1, <2>1 DEF MemoryInv, MemoryTypes
<1>3. /\ \A g \in DOMAIN facts : /\ facts'[g].supersedes = facts[g].supersedes /\ facts'[g].by = facts[g].by
                                 /\ facts'[g].status = "superseded" <=> facts[g].status = "superseded"
  BY <1>1
<1>4. LinksAgree'
  BY <1>1, <1>3 DEF MemoryInv, LinksAgree
<1>5. Memory!TrustedIsHuman'
  BY <1>1 DEF MemoryInv, Memory!TrustedIsHuman
<1>6. Survivors' = Survivors
  BY <1>1, <1>3 DEF Survivors, Memory!Unreplaced
<1> QED
  BY <1>2, <1>4, <1>5, <1>6 DEF MemoryInv

\* planFactSupersession: what is written of the former fact.
LEMMA ReplacedFact ==
    ASSUME NEW old \in Memory!FactRow, NEW k \in 0 .. MaxFacts
    PROVE  /\ Memory!Replaced(old, k) \in Memory!FactRow
           /\ Memory!Replaced(old, k).status = "superseded" /\ Memory!Replaced(old, k).by = k
           /\ Memory!Replaced(old, k).supersedes = old.supersedes
<1>1. PICK no \in BOOLEAN : no = FALSE
  OBVIOUS
<1>2. Memory!Replaced(old, k) = [old EXCEPT !.status = "superseded", !.verified = no, !.dated = no, !.by = k]
  BY <1>1 DEF Memory!Replaced
<1>3. PICK to \in Memory!FactStatuses : to = "superseded"
  BY DEF Memory!FactStatuses
<1> DEFINE new == Memory!Replaced(old, k)
<1>4. new = [old EXCEPT !.status = to, !.verified = no, !.dated = no, !.by = k]
  BY <1>2, <1>3
<1> HIDE DEF new
<1>5. new \in Memory!FactRow /\ new.status = to /\ new.by = k /\ new.supersedes = old.supersedes
  BY <1>4 DEF Memory!FactRow
<1> QED
  BY <1>3, <1>5 DEF new

\* A fact more, which may replace a former one: that one names it back, or the
\* replacement was cut.
LEMMA MemoryGrows ==
    ASSUME MemoryInv, Memory!Room, NEW former \in 0 .. Len(facts),
           NEW row \in Memory!FactRow, row.supersedes = former, row.by = 0, row.status # "superseded",
           former # 0 => Memory!Unreplaced(former) /\ Memory!MayReplace(former),
           NEW dead \in BOOLEAN, dead => former # 0, NEW base,
           dead => base = [facts EXCEPT ![former] = Memory!Replaced(@, Len(facts) + 1)],
           ~dead => base = facts, facts' = Append(base, row), UNCHANGED status,
           dead \/ former = 0 => UNCHANGED memoryCuts,
           ~dead /\ former # 0 => memoryCuts' = memoryCuts + 1,
           confirmed \subseteq confirmed', confirmed' \subseteq confirmed \cup {Len(facts) + 1},
           row.status = "verified" => Len(facts) + 1 \in confirmed'
    PROVE  MemoryInv'
<1> DEFINE n == Len(facts)
<1>1. /\ n \in Nat /\ n + 1 <= MaxFacts /\ DOMAIN facts = 1 .. n /\ former \in 0 .. n
      /\ \A f \in 1 .. n : facts[f] \in Memory!FactRow
  BY MemoryFacts, MemoryRoom
<1>0. dead => /\ former \in 1 .. n /\ base[former].supersedes = facts[former].supersedes
              /\ base[former].by = n + 1 /\ base[former].status = "superseded"
              /\ base \in Seq(Memory!FactRow) /\ Len(base) = n
              /\ \A f \in 1 .. n : f # former => base[f] = facts[f]
  <2> SUFFICES ASSUME dead
               PROVE  /\ former \in 1 .. n /\ base[former].supersedes = facts[former].supersedes
                      /\ base[former].by = n + 1 /\ base[former].status = "superseded"
                      /\ base \in Seq(Memory!FactRow) /\ Len(base) = n
                      /\ \A f \in 1 .. n : f # former => base[f] = facts[f]
    OBVIOUS
  <2> DEFINE new == Memory!Replaced(facts[former], n + 1)
  <2>1. former \in 1 .. n /\ n + 1 \in 0 .. MaxFacts /\ base = [facts EXCEPT ![former] = new]
    BY <1>1, MemoryCounts
  <2>2. /\ new \in Memory!FactRow /\ new.status = "superseded" /\ new.by = n + 1
        /\ new.supersedes = facts[former].supersedes
    BY <2>1, <1>1, ReplacedFact
  <2> HIDE DEF new
  <2> QED
    BY <2>1, <2>2, <1>1 DEF MemoryInv, MemoryTypes
<1>2. base \in Seq(Memory!FactRow) /\ Len(base) = n
  BY <1>0 DEF MemoryInv, MemoryTypes
<1>3. facts' \in Seq(Memory!FactRow) /\ Len(facts') = n + 1 /\ DOMAIN facts' = 1 .. n + 1
  BY <1>1, <1>2
<1>4. /\ facts'[n + 1] = row
      /\ \A f \in 1 .. n : facts'[f] = base[f]
  BY <1>1, <1>2
<1>5. \A f \in 1 .. n :
        /\ facts'[f].supersedes = facts[f].supersedes
        /\ dead /\ f = former => facts'[f].by = n + 1 /\ facts'[f].status = "superseded"
        /\ ~dead \/ f # former => facts'[f] = facts[f]
  BY <1>0, <1>4
<1>6. MemoryTypes'
  BY <1>1, <1>3 DEF MemoryInv, MemoryTypes
<1>7. Memory!TrustedIsHuman'
  <2>1. ASSUME NEW f \in 1 .. n, facts'[f].status = "verified" PROVE f \in confirmed'
    BY <2>1, <1>1, <1>5 DEF MemoryInv, Memory!TrustedIsHuman
  <2> QED
    BY <1>1, <1>3, <1>4, <2>1 DEF Memory!TrustedIsHuman
<1>8. former # 0 => /\ former \in 1 .. n /\ facts[former].by = 0 /\ facts[former].status # "superseded"
                    /\ \A g \in 1 .. n : facts[g].supersedes # former
  BY <1>1 DEF Memory!Unreplaced, Memory!MayReplace, MemoryInv, LinksAgree
<1>9. LinksAgree'
  <2> SUFFICES ASSUME NEW f \in 1 .. n + 1
               PROVE  /\ facts'[f].status = "superseded" <=> facts'[f].by # 0
                      /\ facts'[f].by # 0 => facts'[f].by \in 1 .. n + 1 /\ facts'[facts'[f].by].supersedes = f
                      /\ facts'[f].supersedes # 0 =>
                           /\ facts'[f].supersedes \in 1 .. n + 1 /\ facts'[f].supersedes < f
                           /\ \A g \in 1 .. n + 1 : facts'[g].supersedes = facts'[f].supersedes => f = g
                           /\ \/ facts'[facts'[f].supersedes].by = f
                              \/ facts'[facts'[f].supersedes].by = 0 /\ memoryCuts' > 0
    BY <1>3 DEF LinksAgree
  <2>1. CASE f = n + 1
    BY <1>1, <1>4, <1>5, <1>8, <2>1 DEF MemoryInv, MemoryTypes
  <2>2. CASE f \in 1 .. n
    <3>1. /\ facts[f].status = "superseded" <=> facts[f].by # 0
          /\ facts[f].by # 0 => facts[f].by \in 1 .. n /\ facts[facts[f].by].supersedes = f
          /\ facts[f].supersedes # 0 =>
               /\ facts[f].supersedes \in 1 .. n /\ facts[f].supersedes < f
               /\ \A g \in 1 .. n : facts[g].supersedes = facts[f].supersedes => f = g
               /\ \/ facts[facts[f].supersedes].by = f
                  \/ facts[facts[f].supersedes].by = 0 /\ memoryCuts > 0
      BY <2>2, <1>1 DEF MemoryInv, LinksAgree
    <3>2. /\ facts'[f].status = "superseded" <=> facts'[f].by # 0
          /\ facts'[f].by # 0 => facts'[f].by \in 1 .. n + 1 /\ facts'[facts'[f].by].supersedes = f
      BY <3>1, <2>2, <1>1, <1>4, <1>5
    <3>3. ASSUME facts'[f].supersedes # 0
          PROVE  /\ facts'[f].supersedes \in 1 .. n + 1 /\ facts'[f].supersedes < f
                 /\ \A g \in 1 .. n + 1 : facts'[g].supersedes = facts'[f].supersedes => f = g
      BY <3>1, <3>3, <2>2, <1>1, <1>4, <1>5, <1>8
    <3>4. ASSUME facts'[f].supersedes # 0
          PROVE  \/ facts'[facts'[f].supersedes].by = f
                 \/ facts'[facts'[f].supersedes].by = 0 /\ memoryCuts' > 0
      BY <3>1, <3>4, <2>2, <1>1, <1>5, <1>8 DEF MemoryInv, MemoryTypes
    <3> QED
      BY <3>2, <3>3, <3>4
  <2> QED
    BY <1>1, <2>1, <2>2
<1>10. Survivors' \subseteq Survivors \cup (IF ~dead /\ former # 0 THEN {former} ELSE {})
  <2> SUFFICES ASSUME NEW f \in 1 .. n + 1, NEW g \in 1 .. n + 1, facts'[g].supersedes = f,
                      facts'[f].status # "superseded"
               PROVE  f \in Survivors \cup (IF ~dead /\ former # 0 THEN {former} ELSE {})
    BY <1>3 DEF Survivors, Memory!Unreplaced
  <2>1. CASE g = n + 1
    BY <2>1, <1>1, <1>4, <1>5, <1>8
  <2>2. CASE g \in 1 .. n
    <3>1. facts[g].supersedes = f /\ f \in 1 .. n
      BY <2>2, <1>1, <1>5 DEF MemoryInv, LinksAgree
    <3>2. facts[f].status # "superseded"
      BY <3>1, <1>1, <1>5, <1>8, <2>2
    <3> QED
      BY <3>1, <3>2, <2>2, <1>1 DEF Survivors, Memory!Unreplaced
  <2> QED
    BY <1>1, <2>1, <2>2
<1>11. Cardinality(Survivors') <= memoryCuts'
  <2>1. IsFiniteSet(Survivors) /\ Cardinality(Survivors) \in Nat /\ Cardinality(Survivors) <= memoryCuts
    <3>1. Survivors \in SUBSET DOMAIN facts
      BY DEF Survivors
    <3> QED
      BY <3>1, MemoryFacts DEF MemoryInv
  <2>2. CASE ~dead /\ former # 0
    <3>1. /\ IsFiniteSet(Survivors \cup {former}) /\ Cardinality(Survivors \cup {former}) \in Nat
          /\ Cardinality(Survivors \cup {former}) <= Cardinality(Survivors) + 1
      <4>1. /\ IsFiniteSet(Survivors \cup {former})
            /\ Cardinality(Survivors \cup {former})
                 = IF former \in Survivors THEN Cardinality(Survivors) ELSE Cardinality(Survivors) + 1
        BY <2>1, FS_AddElement
      <4> QED
        BY <2>1, <4>1
    <3>2. Survivors' \in SUBSET (Survivors \cup {former})
      BY <1>10, <2>2
    <3>3. Cardinality(Survivors') <= Cardinality(Survivors \cup {former}) /\ Cardinality(Survivors') \in Nat
      BY <3>1, <3>2, FS_Subset, FS_CardinalityType
    <3>4. memoryCuts' = memoryCuts + 1 /\ memoryCuts \in Nat
      BY <2>2 DEF MemoryInv, MemoryTypes
    <3> QED
      BY <2>1, <3>1, <3>3, <3>4
  <2>3. CASE dead \/ former = 0
    <3>1. Survivors' \in SUBSET Survivors
      BY <1>10, <2>3
    <3>2. Cardinality(Survivors') <= Cardinality(Survivors) /\ Cardinality(Survivors') \in Nat
      BY <2>1, <3>1, FS_Subset, FS_CardinalityType
    <3>3. memoryCuts' = memoryCuts /\ memoryCuts \in Nat
      BY <2>3 DEF MemoryInv, MemoryTypes
    <3> QED
      BY <2>1, <3>2, <3>3
  <2> QED
    BY <2>2, <2>3
<1> QED
  BY <1>6, <1>7, <1>9, <1>11 DEF MemoryInv

LEMMA FactBuilt ==
    ASSUME NEW source \in Memory!Sources, NEW initial \in Memory!FactStatuses, NEW former \in 0 .. MaxFacts
    PROVE  LET new == Memory!Built(source, initial, former)
           IN /\ new \in Memory!FactRow /\ new.supersedes = former /\ new.by = 0 /\ new.status = initial
              /\ Memory!StoreAccepts(new) => new.status # "superseded"
<1>1. PICK no \in BOOLEAN : no = FALSE
  OBVIOUS
<1>2. PICK yes \in BOOLEAN : yes = (initial = "verified")
  OBVIOUS
<1>3. PICK none \in 0 .. MaxFacts : none = 0
  BY MemoryCounts
<1> DEFINE new == Memory!Built(source, initial, former)
<1>4. new = [source |-> source, status |-> initial, verified |-> yes, dated |-> yes, edited |-> no,
             supersedes |-> former, by |-> none]
  BY <1>1, <1>2, <1>3 DEF Memory!Built
<1> HIDE DEF new
<1>5. new \in Memory!FactRow /\ new.supersedes = former /\ new.by = none /\ new.status = initial
  BY <1>4 DEF Memory!FactRow
<1>6. Memory!StoreAccepts(new) => new.status # "superseded"
  BY <1>3, <1>5 DEF Memory!StoreAccepts
<1> QED
  BY <1>3, <1>5, <1>6 DEF new

LEMMA MemoryStep == MemoryInv /\ Memory!Next => MemoryInv'
<1> SUFFICES ASSUME MemoryInv, Memory!Next PROVE MemoryInv'
  OBVIOUS
<1>0. /\ DOMAIN facts = 1 .. Len(facts) /\ Len(facts) \in Nat /\ MaxFacts \in Nat
      /\ \A f \in DOMAIN facts : facts[f] \in Memory!FactRow
  BY MemoryFacts
<1>1. ASSUME NEW to \in Memory!ProjectStatuses, Memory!UpdateProject(to) PROVE MemoryInv'
  <2>1. status' \in Memory!ProjectStatuses /\ UNCHANGED <<facts, confirmed, memoryCuts>>
    BY <1>1 DEF Memory!UpdateProject
  <2> QED
    BY <2>1 DEF MemoryInv, MemoryTypes, LinksAgree, Survivors, Memory!TrustedIsHuman, Memory!Unreplaced
<1>2. ASSUME NEW source \in Memory!Sources, NEW initial \in Memory!FactStatuses, Memory!AddFact(source, initial)
      PROVE  MemoryInv'
  <2> DEFINE new == Memory!Built(source, initial, 0)
  <2>1. /\ Memory!Room /\ Memory!StoreAccepts(new) /\ facts' = Append(facts, new)
        /\ UNCHANGED <<status, memoryCuts>>
        /\ confirmed' = IF Memory!AiOrigin(source) \/ initial # "verified" THEN confirmed
                        ELSE confirmed \cup {Len(facts')}
    BY <1>2 DEF Memory!AddFact, Memory!Confirm
  <2>2. initial = "verified" => ~Memory!AiOrigin(source)
    BY <1>2 DEF Memory!AddFact, Memory!MayStart, Memory!Default
  <2>3. /\ new \in Memory!FactRow /\ new.supersedes = 0 /\ new.by = 0 /\ new.status = initial
        /\ new.status # "superseded"
    BY <2>1, <1>0, FactBuilt
  <2> HIDE DEF new
  <2>4. Len(facts') = Len(facts) + 1
    BY <2>1, <2>3 DEF MemoryInv, MemoryTypes
  <2>5. PICK dead \in BOOLEAN : dead = FALSE
    OBVIOUS
  <2>6. PICK former \in 0 .. Len(facts) : former = 0
    BY <1>0
  <2> QED
    BY <2>1, <2>2, <2>3, <2>4, <2>5, <2>6, MemoryGrows
<1>3. ASSUME NEW f \in DOMAIN facts, Memory!EditFact(f) PROVE MemoryInv'
  <2>1. PICK yes \in BOOLEAN : yes = TRUE
    OBVIOUS
  <2> DEFINE row == [facts[f] EXCEPT !.edited = yes]
  <2>2. facts' = [facts EXCEPT ![f] = row] /\ UNCHANGED <<status, confirmed, memoryCuts>>
    BY <1>3, <2>1 DEF Memory!EditFact
  <2>3. /\ row \in Memory!FactRow /\ row.status = facts[f].status
        /\ row.supersedes = facts[f].supersedes /\ row.by = facts[f].by
    BY <1>0 DEF Memory!FactRow
  <2>4. row.status = "verified" => f \in confirmed
    BY <2>3 DEF MemoryInv, Memory!TrustedIsHuman
  <2>5. confirmed' \subseteq DOMAIN facts /\ confirmed \ {f} \subseteq confirmed'
    BY <2>2 DEF MemoryInv, MemoryTypes
  <2> HIDE DEF row
  <2> QED
    BY <2>2, <2>3, <2>4, <2>5, MemoryRewrites
<1>4. ASSUME NEW f \in DOMAIN facts, NEW to \in Memory!FactStatuses, Memory!VerifyFact(f, to) PROVE MemoryInv'
  <2>1. PICK yes \in BOOLEAN : yes = (to = "verified")
    OBVIOUS
  <2> DEFINE row == [facts[f] EXCEPT !.status = to, !.verified = yes, !.dated = yes]
  <2>2. row = Memory!Verified(facts[f], to)
    BY <2>1 DEF Memory!Verified
  <2>3. /\ facts' = [facts EXCEPT ![f] = row] /\ UNCHANGED <<status, memoryCuts>>
        /\ confirmed' = IF to = "verified" THEN confirmed \cup {f} ELSE confirmed
        /\ Memory!MayVerify(facts[f].status, to)
    BY <1>4, <2>2 DEF Memory!VerifyFact, Memory!Confirm
  <2>4. /\ row \in Memory!FactRow /\ row.status = to
        /\ row.supersedes = facts[f].supersedes /\ row.by = facts[f].by
    BY <1>0 DEF Memory!FactRow
  <2>5. to # "superseded" /\ facts[f].status # "superseded"
    BY <2>3 DEF Memory!MayVerify, Memory!CanBecome
  <2>6. confirmed' \subseteq DOMAIN facts /\ confirmed \ {f} \subseteq confirmed'
    BY <2>3 DEF MemoryInv, MemoryTypes
  <2>7. row.status = "verified" => f \in confirmed'
    BY <2>3, <2>4
  <2> HIDE DEF row
  <2> QED
    BY <2>3, <2>4, <2>5, <2>6, <2>7, MemoryRewrites
<1>5. ASSUME NEW source \in Memory!Sources, NEW initial \in Memory!FactStatuses, NEW f \in DOMAIN facts,
             Memory!ReplaceFact(f, source, initial)
      PROVE  MemoryInv'
  <2> DEFINE new == Memory!Built(source, initial, f)
  <2> DEFINE base == [facts EXCEPT ![f] = Memory!Replaced(@, Len(facts) + 1)]
  <2>1. /\ Memory!Room /\ Memory!StoreAccepts(new) /\ facts' = Append(base, new)
        /\ UNCHANGED <<status, memoryCuts>> /\ Memory!MayReplace(f) /\ Memory!Unreplaced(f)
        /\ confirmed' = IF Memory!AiOrigin(source) \/ initial # "verified" THEN confirmed
                        ELSE confirmed \cup {Len(facts')}
    BY <1>5 DEF Memory!ReplaceFact, Memory!Confirm
  <2>2. initial = "verified" => ~Memory!AiOrigin(source)
    BY <1>5 DEF Memory!ReplaceFact, Memory!MayStart, Memory!Default
  <2>3. f \in 0 .. Len(facts) /\ f # 0 /\ f \in 0 .. MaxFacts
    BY <1>0, MemoryRoom, <2>1
  <2>4. /\ new \in Memory!FactRow /\ new.supersedes = f /\ new.by = 0 /\ new.status = initial
        /\ new.status # "superseded"
    BY <2>1, <2>3, FactBuilt
  <2>5. Len(facts') = Len(facts) + 1
    <3>1. Len(facts) + 1 \in 0 .. MaxFacts
      BY <1>0, <2>1, MemoryRoom
    <3>2. Memory!Replaced(facts[f], Len(facts) + 1) \in Memory!FactRow
      BY <1>0, <3>1, ReplacedFact
    <3>3. base \in Seq(Memory!FactRow) /\ Len(base) = Len(facts)
      BY <3>2 DEF MemoryInv, MemoryTypes
    <3> QED
      BY <2>1, <2>4, <3>3
  <2>6. PICK dead \in BOOLEAN : dead = TRUE
    OBVIOUS
  <2> HIDE DEF new
  <2> QED
    BY <2>1, <2>2, <2>3, <2>4, <2>5, <2>6, MemoryGrows
<1>6. ASSUME NEW f \in DOMAIN facts, NEW source \in Memory!Sources, Memory!ReplaceCut(f, source) PROVE MemoryInv'
  <2> DEFINE initial == Memory!Default(source)
  <2> DEFINE new == Memory!Built(source, initial, f)
  <2>1. /\ Memory!Room /\ facts' = Append(facts, new) /\ memoryCuts' = memoryCuts + 1
        /\ UNCHANGED <<status, confirmed>> /\ Memory!MayReplace(f) /\ Memory!Unreplaced(f)
    BY <1>6 DEF Memory!ReplaceCut
  <2>2. initial \in Memory!FactStatuses /\ initial # "superseded" /\ initial # "verified"
    BY DEF Memory!Default, Memory!FactStatuses
  <2>3. f \in 0 .. Len(facts) /\ f # 0 /\ f \in 0 .. MaxFacts
    BY <1>0, MemoryRoom, <2>1
  <2>4. new \in Memory!FactRow /\ new.supersedes = f /\ new.by = 0 /\ new.status = initial
    <3> HIDE DEF initial
    <3> QED
      BY <2>2, <2>3, FactBuilt
  <2>5. PICK dead \in BOOLEAN : dead = FALSE
    OBVIOUS
  <2> HIDE DEF new, initial
  <2> QED
    BY <2>1, <2>2, <2>3, <2>4, <2>5, MemoryGrows
<1> QED
  BY <1>1, <1>2, <1>3, <1>4, <1>5, <1>6 DEF Memory!Next, Memory!ProjectRoutes, Memory!FactRoutes

LEMMA MemoryHolds ==
    ASSUME MemoryInv
    PROVE  Memory!TypeOK /\ Memory!HistoryIsLinear /\ Memory!ReplacedIsDead /\ Memory!TrustedIsHuman
<1>1. Memory!TypeOK
  BY MemoryFacts DEF MemoryInv, MemoryTypes, Memory!TypeOK
<1>2. Memory!HistoryIsLinear
  BY MemoryFacts DEF MemoryInv, LinksAgree, Memory!HistoryIsLinear
<1>3. Memory!ReplacedIsDead
  BY MemoryCounts DEF MemoryInv, Survivors, Memory!ReplacedIsDead
<1> QED
  BY <1>1, <1>2, <1>3 DEF MemoryInv

\* Every step of the memory asks for a project that is not archived.
LEMMA MemoryFrozen == Memory!Next => status # "archived"
BY DEF Memory!Next, Memory!ProjectRoutes, Memory!FactRoutes, Memory!UpdateProject, Memory!AddFact,
       Memory!EditFact, Memory!VerifyFact, Memory!ReplaceFact, Memory!ReplaceCut, Memory!Editable

------------------------------------------------------------------------------
(* The skills and the profiles.  A skill is a function of its name, so that *)
(* what is told twice is told of one row.                                   *)

ProfileTypes ==
    /\ archived \in BOOLEAN
    /\ skills \in [DOMAIN skills -> Profiles!SkillRow] /\ DOMAIN skills \subseteq Skills
    /\ audiences \subseteq [name : {"Devs", "devs", "Leads"}, items : 0 .. MaxItems]
    /\ styles \subseteq [style : {<<"project", "none">>, <<"platform", "linkedin">>}, formality : 1 .. MaxLevel]

ProfilesInv ==
    /\ ProfileTypes /\ Profiles!LearningHasTarget /\ Profiles!OneProfilePerName

LEMMA ProfilesBounds == MaxLevel \in Nat \ {0} /\ MaxItems \in Nat
BY EditingAssumption DEF EditingAssumption, Profiles!ProfilesAssumption

LEMMA ProfilesInit == Profiles!Init => ProfilesInv
BY DEF Profiles!Init, ProfilesInv, ProfileTypes, Profiles!SkillRow, Profiles!LearningHasTarget,
       Profiles!OneProfilePerName

\* Of two levels the higher is one of them, and no lower than either.
LEMMA HigherOfTwo ==
    ASSUME NEW a \in 1 .. MaxLevel, NEW b \in 1 .. MaxLevel
    PROVE  /\ Profiles!Higher(a, b) \in 1 .. MaxLevel
           /\ Profiles!Higher(a, b) >= a /\ Profiles!Higher(a, b) >= b
BY ProfilesBounds DEF Profiles!Higher

\* upsertSkillFact: the row it leaves has its types, a target exactly when it
\* is being learnt, and nothing lower than it had.
LEMMA SkillMerged ==
    ASSUME NEW old \in Profiles!SkillRow, NEW new \in Profiles!SkillRow, new.learning = new.target
    PROVE  LET row == Profiles!Merged(old, new)
           IN /\ row \in Profiles!SkillRow /\ row.learning = row.target
              /\ row.level >= old.level /\ row.confidence >= old.confidence
<1> DEFINE row == Profiles!Merged(old, new)
<1>1. PICK level \in 1 .. MaxLevel : level = Profiles!Higher(old.level, new.level) /\ level >= old.level
  BY HigherOfTwo DEF Profiles!SkillRow
<1>2. PICK confidence \in 1 .. MaxLevel :
        confidence = Profiles!Higher(old.confidence, new.confidence) /\ confidence >= old.confidence
  BY HigherOfTwo DEF Profiles!SkillRow
<1>3. row = [new EXCEPT !.level = level, !.confidence = confidence]
  BY <1>1, <1>2 DEF Profiles!Merged
<1> HIDE DEF row
<1>4. /\ row \in Profiles!SkillRow /\ row.learning = new.learning /\ row.target = new.target
      /\ row.level = level /\ row.confidence = confidence
  BY <1>3 DEF Profiles!SkillRow
<1> QED
  BY <1>1, <1>2, <1>4 DEF row

\* An accepted entry that is fit.
LEMMA SkillEntered ==
    ASSUME NEW level \in 1 .. MaxLevel, NEW confidence \in 0 .. MaxLevel, NEW learning \in BOOLEAN,
           Profiles!SkillIsFit(Profiles!Entry(level, confidence, learning))
    PROVE  LET new == Profiles!Entry(level, confidence, learning)
           IN new \in Profiles!SkillRow /\ new.learning = new.target
<1>1. confidence \in 1 .. MaxLevel
  BY DEF Profiles!SkillIsFit, Profiles!Entry
<1> QED
  BY <1>1 DEF Profiles!Entry, Profiles!SkillRow

LEMMA ProfilesStep ==
    ASSUME ProfilesInv, Profiles!Next
    PROVE  /\ ProfilesInv'
           /\ \A s \in DOMAIN skills :
                skills'[s].level >= skills[s].level /\ skills'[s].confidence >= skills[s].confidence
<1> DEFINE Rises == \A s \in DOMAIN skills :
                      skills'[s].level >= skills[s].level /\ skills'[s].confidence >= skills[s].confidence
<1>0. UNCHANGED skills => Rises
  <2> SUFFICES ASSUME UNCHANGED skills, NEW s \in DOMAIN skills
               PROVE  skills'[s].level >= skills[s].level /\ skills'[s].confidence >= skills[s].confidence
    OBVIOUS
  <2>1. skills[s] \in Profiles!SkillRow
    BY DEF ProfilesInv, ProfileTypes
  <2>2. skills[s].level \in Int /\ skills[s].confidence \in Int
    BY <2>1, ProfilesBounds DEF Profiles!SkillRow
  <2> QED
    BY <2>2
<1>1. ASSUME NEW name \in Skills, NEW level \in 1 .. MaxLevel, NEW confidence \in 0 .. MaxLevel,
             NEW learning \in BOOLEAN, Profiles!UpsertSkill(name, Profiles!Entry(level, confidence, learning))
      PROVE  ProfilesInv' /\ Rises
  <2> DEFINE new == Profiles!Entry(level, confidence, learning)
  <2> DEFINE row == IF name \in DOMAIN skills THEN Profiles!Merged(skills[name], new) ELSE new
  <2>1. /\ skills' = [s \in DOMAIN skills \cup {name} |-> IF s # name THEN skills[s] ELSE row]
        /\ UNCHANGED <<archived, audiences, styles>> /\ Profiles!SkillIsFit(new)
    BY <1>1 DEF Profiles!UpsertSkill
  <2>2. new \in Profiles!SkillRow /\ new.learning = new.target
    BY <2>1, SkillEntered
  <2> HIDE DEF new
  <2>3. name \in DOMAIN skills => skills[name] \in Profiles!SkillRow
    BY DEF ProfilesInv, ProfileTypes
  <2>4. row \in Profiles!SkillRow /\ row.learning = row.target
    BY <2>2, <2>3, SkillMerged
  <2>5. name \in DOMAIN skills =>
          row.level >= skills[name].level /\ row.confidence >= skills[name].confidence
    BY <2>2, <2>3, SkillMerged
  <2> HIDE DEF row
  <2>6. /\ DOMAIN skills' = DOMAIN skills \cup {name} /\ skills'[name] = row
        /\ \A s \in DOMAIN skills : s # name => skills'[s] = skills[s]
    BY <2>1
  <2>7. \A s \in DOMAIN skills' : skills'[s] \in Profiles!SkillRow /\ skills'[s].learning = skills'[s].target
    BY <2>4, <2>6 DEF ProfilesInv, ProfileTypes, Profiles!LearningHasTarget
  <2>8. skills' \in [DOMAIN skills' -> Profiles!SkillRow] /\ DOMAIN skills' \subseteq Skills
    BY <2>1, <2>6, <2>7 DEF ProfilesInv, ProfileTypes
  <2>9. ProfilesInv'
    BY <2>1, <2>7, <2>8
       DEF ProfilesInv, ProfileTypes, Profiles!LearningHasTarget, Profiles!OneProfilePerName
  <2>10. ASSUME NEW s \in DOMAIN skills
         PROVE  skills'[s].level >= skills[s].level /\ skills'[s].confidence >= skills[s].confidence
    <3>1. CASE s = name
      BY <3>1, <2>5, <2>6
    <3>2. CASE s # name
      <4>1. skills[s] \in Profiles!SkillRow
        BY DEF ProfilesInv, ProfileTypes
      <4>2. skills[s].level \in Int /\ skills[s].confidence \in Int
        BY <4>1, ProfilesBounds DEF Profiles!SkillRow
      <4> QED
        BY <3>2, <4>2, <2>6
    <3> QED
      BY <3>1, <3>2
  <2> QED
    BY <2>9, <2>10
<1>2. ASSUME NEW name \in {"Devs", "devs", "Leads"}, NEW items \in 0 .. MaxItems + 1,
             Profiles!AddAudience(name, items)
      PROVE  ProfilesInv' /\ Rises
  <2> DEFINE Fold == [Devs |-> "devs", devs |-> "devs", Leads |-> "leads"]
  <2>1. UNCHANGED <<archived, skills, styles>>
    BY <1>2 DEF Profiles!AddAudience
  <2>2. CASE \E a \in audiences : Profiles!SameName(a.name, name)
    <3>1. UNCHANGED audiences
      BY <1>2, <2>2 DEF Profiles!AddAudience
    <3> QED
      BY <1>0, <2>1, <3>1
         DEF ProfilesInv, ProfileTypes, Profiles!LearningHasTarget, Profiles!OneProfilePerName
  <2>3. CASE ~\E a \in audiences : Profiles!SameName(a.name, name)
    <3>1. items <= MaxItems /\ audiences' = audiences \cup {[name |-> name, items |-> items]}
      BY <1>2, <2>3 DEF Profiles!AddAudience, Profiles!ItemsFit
    <3>2. items \in 0 .. MaxItems
      BY <3>1, ProfilesBounds
    <3>3. audiences' \subseteq [name : {"Devs", "devs", "Leads"}, items : 0 .. MaxItems]
      BY <3>1, <3>2 DEF ProfilesInv, ProfileTypes
    <3>4. \A a \in audiences : Fold[a.name] # Fold[name]
      BY <2>3 DEF Profiles!SameName
    <3>5. \A a, b \in audiences' : Fold[a.name] = Fold[b.name] => a = b
      <4> HIDE DEF Fold
      <4>1. \A a, b \in audiences : Fold[a.name] = Fold[b.name] => a = b
        BY DEF ProfilesInv, Profiles!OneProfilePerName, Fold
      <4> QED
        BY <3>1, <3>4, <4>1
    <3> QED
      BY <1>0, <2>1, <3>3, <3>5
         DEF ProfilesInv, ProfileTypes, Profiles!LearningHasTarget, Profiles!OneProfilePerName
  <2> QED
    BY <2>2, <2>3
<1>3. ASSUME NEW style \in {<<"project", "none">>, <<"platform", "linkedin">>}, NEW formality \in 0 .. MaxLevel,
             Profiles!AddStyle(style, formality)
      PROVE  ProfilesInv' /\ Rises
  <2>1. UNCHANGED <<archived, skills, audiences>>
    BY <1>3 DEF Profiles!AddStyle
  <2>2. CASE \E s \in styles : s.style = style
    <3>1. UNCHANGED styles
      BY <1>3, <2>2 DEF Profiles!AddStyle
    <3> QED
      BY <1>0, <2>1, <3>1
         DEF ProfilesInv, ProfileTypes, Profiles!LearningHasTarget, Profiles!OneProfilePerName
  <2>3. CASE ~\E s \in styles : s.style = style
    <3>1. formality \in 1 .. MaxLevel /\ styles' = styles \cup {[style |-> style, formality |-> formality]}
      BY <1>3, <2>3 DEF Profiles!AddStyle, Profiles!DegreeFits
    <3>2. \A s, t \in styles' : s.style = t.style => s = t
      BY <2>3, <3>1 DEF ProfilesInv, Profiles!OneProfilePerName
    <3>3. styles' \subseteq [style : {<<"project", "none">>, <<"platform", "linkedin">>}, formality : 1 .. MaxLevel]
      BY <3>1 DEF ProfilesInv, ProfileTypes
    <3> QED
      BY <1>0, <2>1, <3>2, <3>3
         DEF ProfilesInv, ProfileTypes, Profiles!LearningHasTarget, Profiles!OneProfilePerName
  <2> QED
    BY <2>2, <2>3
<1>4. ASSUME Profiles!Archive PROVE ProfilesInv' /\ Rises
  BY <1>0, <1>4 DEF Profiles!Archive, ProfilesInv, ProfileTypes, Profiles!LearningHasTarget,
                    Profiles!OneProfilePerName
<1> QED
  BY <1>1, <1>2, <1>3, <1>4 DEF Profiles!Next

LEMMA ProfilesHolds ==
    ASSUME ProfilesInv
    PROVE  Profiles!TypeOK /\ Profiles!LearningHasTarget /\ Profiles!OneProfilePerName
BY DEF ProfilesInv, ProfileTypes, Profiles!TypeOK

------------------------------------------------------------------------------
(* The interview.  A row of conversations is refreshed as a whole, from its *)
(* gaps, except one that was sent to brief_ready and cut there; a plan and  *)
(* the versions of a brief are as far from one writing as requests were cut.*)

RowIsFit(row) ==
    /\ row \in Interview!ConversationRow
    /\ row.stage # "closed" /\ row.missing # {} =>
         row.stage = Interview!StageForSlot[Interview!First(row.missing)]
    /\ row.stage = "absent" => row.missing = {} /\ row.count = 0

RowStands(c) ==
    /\ c \notin halted => RowIsFit(conv[c])
    /\ c \in halted => conv[c].stage \in {"brief_ready", "closed"}

RowsAreFit ==
    /\ conv \in [Conversations -> Interview!ConversationRow]
    /\ halted \subseteq Interview!Created
    /\ \A c \in Conversations : RowStands(c)

CountsAreFit ==
    /\ messages \in [Conversations -> Nat] /\ cuts \in Nat
    /\ \A c \in Conversations : conv[c].count <= messages[c] /\ messages[c] <= conv[c].count + cuts

PlanFits(row, n) ==
    \A e \in {1, 2} : row.wrote[e] <= 1 + n /\ (row.status[e] = "pending" => row.wrote[e] <= n)

PlansAreFit ==
    /\ plans \in Seq(Interview!PlanRow)
    /\ \A p \in DOMAIN plans : plans[p].conv \in Interview!Created /\ PlanFits(plans[p], cuts)

Alive(versions) == {v \in DOMAIN versions : versions[v] # "superseded"}

VersionsFit(versions, n) ==
    /\ versions \in Seq(Interview!BriefStatuses)
    /\ Cardinality(Alive(versions)) <= 1 + n
    /\ versions # <<>> => Len(versions) \in Alive(versions)

BriefsAreFit ==
    DOMAIN briefs = Conversations /\ \A c \in Conversations : VersionsFit(briefs[c], cuts)

TurnsAreFit ==
    /\ DOMAIN turns = Requests
    /\ \A q \in Requests : turns[q] = Interview!Idle \/ turns[q] \in [kind : {"turn", "brief"}, conv : Interview!Created]

InterviewInv ==
    RowsAreFit /\ CountsAreFit /\ PlansAreFit /\ BriefsAreFit /\ TurnsAreFit /\ held \subseteq Interview!SlotSet

LEMMA SixSlots ==
    /\ DOMAIN Interview!Slots = 1 .. 6
    /\ Interview!SlotSet = {"skills", "positioning", "audience", "voice", "facts", "strategy"}
BY DEF Interview!Slots, Interview!SlotSet

\* A memory that lacks something lacks something first.
LEMMA FirstIsMissing ==
    ASSUME NEW missing \in SUBSET Interview!SlotSet, missing # {}
    PROVE  Interview!First(missing) \in missing
<1> DEFINE P(n) == /\ Interview!Slots[n] \in missing
                   /\ \A m \in 1 .. n - 1 : Interview!Slots[m] \notin missing
<1>1. \A slot \in missing : \E n \in 1 .. 6 : slot = Interview!Slots[n]
  BY SixSlots DEF Interview!SlotSet
<1>2. \E n \in DOMAIN Interview!Slots : P(n)
  <2> DEFINE M == {n \in 1 .. 6 : Interview!Slots[n] \in missing}
  <2>1. M # {}
    BY <1>1
  <2>2. \E n \in M : \A m \in M : n <= m
    BY <2>1
  <2>3. PICK n \in M : \A m \in M : n <= m
    BY <2>2
  <2>4. \A m \in 1 .. n - 1 : m \in 1 .. 6 /\ m \notin M
    BY <2>3
  <2> QED
    BY <2>3, <2>4, SixSlots
<1>3. P(CHOOSE n \in DOMAIN Interview!Slots : P(n))
  BY <1>2
<1> QED
  BY <1>3 DEF Interview!First

LEMMA StageOfGap ==
    ASSUME NEW missing \in SUBSET Interview!SlotSet, missing # {}
    PROVE  /\ Interview!StageForSlot[Interview!First(missing)] \in Interview!Stages
           /\ Interview!StageForSlot[Interview!First(missing)] # "absent"
<1>1. Interview!First(missing) \in Interview!SlotSet
  BY FirstIsMissing
<1>2. \A slot \in Interview!SlotSet : Interview!StageForSlot[slot] # "absent"
  BY SixSlots DEF Interview!StageForSlot
<1> QED
  BY <1>1, <1>2 DEF Interview!Stages

LEMMA StageIsStage ==
    ASSUME NEW missing \in SUBSET Interview!SlotSet, NEW hasBrief \in BOOLEAN, NEW closed \in BOOLEAN
    PROVE  LET stage == Interview!NextStage(missing, hasBrief, closed)
           IN /\ stage \in Interview!Stages /\ stage # "absent"
              /\ stage = "closed" <=> closed
              /\ ~closed /\ missing # {} => stage = Interview!StageForSlot[Interview!First(missing)]
<1> DEFINE stage == Interview!NextStage(missing, hasBrief, closed)
<1>1. /\ "closed" \in Interview!Stages /\ "brief_ready" \in Interview!Stages
      /\ "strategy" \in Interview!Stages
  <2>1. "strategy" \in Interview!SlotSet /\ Interview!StageForSlot["strategy"] = "strategy"
    BY SixSlots DEF Interview!StageForSlot
  <2> QED
    BY <2>1 DEF Interview!Stages
<1>2. \A slot \in Interview!SlotSet : Interview!StageForSlot[slot] # "closed"
  BY SixSlots DEF Interview!StageForSlot
<1>3. CASE closed
  BY <1>1, <1>3 DEF Interview!NextStage
<1>4. CASE ~closed /\ missing # {}
  <2>1. Interview!First(missing) \in Interview!SlotSet
    BY <1>4, FirstIsMissing
  <2>2. stage = Interview!StageForSlot[Interview!First(missing)]
    BY <1>4 DEF Interview!NextStage
  <2> QED
    BY <1>4, <1>2, <2>1, <2>2, StageOfGap
<1>5. CASE ~closed /\ missing = {}
  BY <1>1, <1>5 DEF Interview!NextStage
<1> QED
  BY <1>3, <1>4, <1>5

\* refreshProgress writes a row that says its first gap, and leaves closed as
\* it was.
LEMMA RowRefreshed ==
    ASSUME NEW row \in Interview!ConversationRow, NEW filled \in SUBSET Interview!SlotSet, NEW versions
    PROVE  LET new == Interview!Refreshed(row, filled, versions)
           IN /\ RowIsFit(new) /\ new.stage # "absent" /\ new.count = row.count
              /\ new.closedAt = row.closedAt /\ (new.stage = "closed" <=> row.stage = "closed")
<1>1. PICK missing \in SUBSET Interview!SlotSet : missing = Interview!MissingSlots(filled)
  BY DEF Interview!MissingSlots
<1>2. PICK hasBrief \in BOOLEAN : hasBrief = (versions # <<>>)
  OBVIOUS
<1>3. PICK closed \in BOOLEAN : closed = (row.stage = "closed")
  OBVIOUS
<1>4. PICK stage \in Interview!Stages :
        /\ stage = Interview!NextStage(missing, hasBrief, closed) /\ stage # "absent"
        /\ stage = "closed" <=> closed
        /\ ~closed /\ missing # {} => stage = Interview!StageForSlot[Interview!First(missing)]
  BY StageIsStage
<1> DEFINE new == Interview!Refreshed(row, filled, versions)
<1>5. new = [row EXCEPT !.missing = missing, !.stage = stage]
  BY <1>1, <1>2, <1>3, <1>4 DEF Interview!Refreshed
<1> HIDE DEF new
<1>6. /\ new \in Interview!ConversationRow /\ new.missing = missing /\ new.stage = stage
      /\ new.count = row.count /\ new.closedAt = row.closedAt
  BY <1>5 DEF Interview!ConversationRow
<1> QED
  BY <1>3, <1>4, <1>6 DEF new, RowIsFit

LEMMA SumsAgree ==
    \A n, m, x, y, k, d \in Nat :
        n <= m /\ m <= n + x /\ k <= d /\ d + x <= k + y => n + k <= m + d /\ m + d <= (n + k) + y
OBVIOUS

\* What the request of a conversation may do to its row.
HaltedBy(c) ==
    /\ halted' \in {halted, halted \ {c}, halted \cup {c}}
    /\ cuts' \in {cuts, cuts + 1}

\* A row of a conversation is written, and d messages with it; k of them are
\* counted, and only a cut leaves one out.
LEMMA RowWritten ==
    ASSUME InterviewInv, NEW c \in Conversations, NEW row \in Interview!ConversationRow, row.stage # "absent",
           conv' = [conv EXCEPT ![c] = row], HaltedBy(c),
           c \notin halted' => RowIsFit(row), c \in halted' => row.stage \in {"brief_ready", "closed"},
           NEW k \in Nat, row.count = conv[c].count + k,
           NEW d \in Nat, k <= d, d + cuts <= k + cuts',
           messages' = IF d = 0 THEN messages ELSE [messages EXCEPT ![c] = @ + d]
    PROVE  /\ RowsAreFit' /\ CountsAreFit'
           /\ Interview!Created \subseteq Interview!Created' /\ c \in Interview!Created'
           /\ \A e \in Conversations \ {c} : conv'[e] = conv[e]
<1>1. conv'[c] = row /\ \A e \in Conversations \ {c} : conv'[e] = conv[e]
  BY DEF InterviewInv, RowsAreFit
<1>2. conv' \in [Conversations -> Interview!ConversationRow]
  BY DEF InterviewInv, RowsAreFit
<1>3. Interview!Created \subseteq Interview!Created' /\ c \in Interview!Created'
  BY <1>1 DEF Interview!Created
<1>4. /\ conv[c].count \in Nat /\ messages[c] \in Nat /\ cuts \in Nat /\ cuts' \in Nat
      /\ conv[c].count <= messages[c] /\ messages[c] <= conv[c].count + cuts
  <2>1. conv[c] \in Interview!ConversationRow
    BY DEF InterviewInv, RowsAreFit
  <2> QED
    BY <2>1 DEF InterviewInv, CountsAreFit, Interview!ConversationRow, HaltedBy
<1>5. /\ messages' \in [Conversations -> Nat] /\ messages'[c] = messages[c] + d
      /\ \A e \in Conversations \ {c} : messages'[e] = messages[e]
  <2>1. CASE d = 0
    BY <1>4, <2>1 DEF InterviewInv, CountsAreFit
  <2>2. CASE d # 0
    BY <1>4, <2>2 DEF InterviewInv, CountsAreFit
  <2> QED
    BY <2>1, <2>2
<1>6. RowsAreFit'
  <2>1. halted' \subseteq Interview!Created'
    BY <1>3 DEF InterviewInv, RowsAreFit, HaltedBy
  <2>2. RowStands(c)'
    BY <1>1 DEF RowStands
  <2>3. ASSUME NEW e \in Conversations \ {c} PROVE RowStands(e)'
    <3>1. e \in halted' <=> e \in halted
      BY DEF HaltedBy
    <3>2. RowStands(e) /\ conv'[e] = conv[e]
      BY <1>1 DEF InterviewInv, RowsAreFit
    <3> QED
      BY <3>1, <3>2 DEF RowStands
  <2> QED
    BY <1>2, <2>1, <2>2, <2>3 DEF RowsAreFit
<1>7. CountsAreFit'
  <2>1. conv'[c].count <= messages'[c] /\ messages'[c] <= conv'[c].count + cuts'
    <3>1. /\ conv[c].count + k <= messages[c] + d
          /\ messages[c] + d <= (conv[c].count + k) + cuts'
      BY <1>4, SumsAgree
    <3>2. conv'[c].count = conv[c].count + k /\ messages'[c] = messages[c] + d
      BY <1>1, <1>5
    <3> QED
      BY <3>1, <3>2
  <2>2. ASSUME NEW e \in Conversations \ {c}
        PROVE  conv'[e].count <= messages'[e] /\ messages'[e] <= conv'[e].count + cuts'
    <3>1. conv[e] \in Interview!ConversationRow
      BY DEF InterviewInv, RowsAreFit
    <3>2. conv[e].count \in Nat
      BY <3>1 DEF Interview!ConversationRow
    <3>3. messages[e] \in Nat /\ conv[e].count <= messages[e] /\ messages[e] <= conv[e].count + cuts
      BY DEF InterviewInv, CountsAreFit
    <3>4. cuts' >= cuts
      BY <1>4 DEF HaltedBy
    <3> QED
      BY <1>1, <1>4, <1>5, <3>2, <3>3, <3>4
  <2> QED
    BY <1>4, <1>5, <2>1, <2>2 DEF CountsAreFit
<1> QED
  BY <1>1, <1>3, <1>6, <1>7

\* No row is written, and no message.
LEMMA RowsRest ==
    ASSUME InterviewInv, UNCHANGED <<conv, messages, halted>>, cuts' \in {cuts, cuts + 1}
    PROVE  RowsAreFit' /\ CountsAreFit' /\ Interview!Created' = Interview!Created
<1>1. Interview!Created' = Interview!Created
  BY DEF Interview!Created
<1>2. RowsAreFit'
  BY <1>1 DEF InterviewInv, RowsAreFit, RowStands
<1>3. CountsAreFit'
  <2>1. cuts \in Nat /\ messages \in [Conversations -> Nat]
    BY DEF InterviewInv, CountsAreFit
  <2>2. ASSUME NEW e \in Conversations
        PROVE  conv[e].count <= messages[e] /\ messages[e] <= conv[e].count + cuts'
    <3>1. conv[e] \in Interview!ConversationRow
      BY DEF InterviewInv, RowsAreFit
    <3>2. conv[e].count \in Nat
      BY <3>1 DEF Interview!ConversationRow
    <3>3. messages[e] \in Nat /\ conv[e].count <= messages[e] /\ messages[e] <= conv[e].count + cuts
      BY DEF InterviewInv, CountsAreFit
    <3> QED
      BY <2>1, <3>2, <3>3
  <2> QED
    BY <2>1, <2>2 DEF CountsAreFit
<1> QED
  BY <1>1, <1>2, <1>3

\* What the others leave alone stays fit.
LEMMA PlansStay ==
    ASSUME InterviewInv, UNCHANGED plans, Interview!Created \subseteq Interview!Created',
           cuts' \in {cuts, cuts + 1}
    PROVE  PlansAreFit'
<1>1. cuts \in Nat
  BY DEF InterviewInv, CountsAreFit
<1>2. ASSUME NEW p \in DOMAIN plans PROVE plans[p].conv \in Interview!Created' /\ PlanFits(plans[p], cuts')
  <2>1. plans[p] \in Interview!PlanRow /\ plans[p].conv \in Interview!Created /\ PlanFits(plans[p], cuts)
    BY DEF InterviewInv, PlansAreFit
  <2>2. DOMAIN <<"facts", "voice">> = {1, 2}
    OBVIOUS
  <2>3. \A e \in {1, 2} : plans[p].wrote[e] \in Nat
    BY <2>1, <2>2 DEF Interview!PlanRow
  <2> QED
    BY <1>1, <2>1, <2>3 DEF PlanFits
<1> QED
  BY <1>2 DEF InterviewInv, PlansAreFit

LEMMA AliveIsFinite ==
    ASSUME NEW versions \in Seq(Interview!BriefStatuses)
    PROVE  IsFiniteSet(Alive(versions)) /\ Cardinality(Alive(versions)) \in Nat
<1>1. IsFiniteSet(1 .. Len(versions))
  BY FS_Interval
<1>2. Alive(versions) \in SUBSET (1 .. Len(versions))
  BY DEF Alive
<1>3. IsFiniteSet(Alive(versions))
  BY <1>1, <1>2, FS_Subset
<1> QED
  BY <1>3, FS_CardinalityType

LEMMA BriefsStay ==
    ASSUME InterviewInv, UNCHANGED briefs, cuts' \in {cuts, cuts + 1}
    PROVE  BriefsAreFit'
<1>1. cuts \in Nat
  BY DEF InterviewInv, CountsAreFit
<1>2. ASSUME NEW c \in Conversations PROVE VersionsFit(briefs[c], cuts')
  <2>1. VersionsFit(briefs[c], cuts)
    BY DEF InterviewInv, BriefsAreFit
  <2>2. Cardinality(Alive(briefs[c])) \in Nat
    BY <2>1, AliveIsFinite DEF VersionsFit
  <2> QED
    BY <1>1, <2>1, <2>2 DEF VersionsFit
<1> QED
  BY <1>2 DEF InterviewInv, BriefsAreFit

LEMMA TurnsStay ==
    ASSUME InterviewInv, Interview!Created \subseteq Interview!Created', DOMAIN turns' = Requests,
           \A q \in Requests :
             \/ turns'[q] \in {turns[q], Interview!Idle}
             \/ turns'[q] \in [kind : {"turn", "brief"}, conv : Interview!Created']
    PROVE  TurnsAreFit'
BY DEF InterviewInv, TurnsAreFit, Interview!Idle

\* The requests of a turn, once one of them has begun to wait or is over.
LEMMA TurnBegins ==
    ASSUME InterviewInv, Interview!Created \subseteq Interview!Created', NEW q \in Requests, NEW c \in Interview!Created',
           NEW kind \in {"turn", "brief"}, Interview!Await(q, kind, c)
    PROVE  TurnsAreFit'
BY TurnsStay DEF InterviewInv, TurnsAreFit, Interview!Await

LEMMA TurnEnds ==
    ASSUME InterviewInv, Interview!Created \subseteq Interview!Created', NEW q \in Requests,
           Interview!Leave(q) \/ UNCHANGED turns \/ turns' = [p \in Requests |-> Interview!Idle]
    PROVE  TurnsAreFit'
<1>1. DOMAIN turns = Requests
  BY DEF InterviewInv, TurnsAreFit
<1>2. DOMAIN turns' = Requests /\ \A p \in Requests : turns'[p] \in {turns[p], Interview!Idle}
  BY <1>1 DEF Interview!Leave
<1> QED
  BY <1>2, TurnsStay

LEMMA VersionsFitMore ==
    ASSUME NEW versions, NEW n \in Nat, VersionsFit(versions, n)
    PROVE  VersionsFit(versions, n + 1)
<1>1. Cardinality(Alive(versions)) \in Nat
  BY AliveIsFinite DEF VersionsFit
<1> QED
  BY <1>1 DEF VersionsFit

\* A version after the last one is alive; it kills the former one, or one more
\* is alive.
LEMMA VersionAdded ==
    ASSUME NEW versions, NEW n \in Nat, VersionsFit(versions, n)
    PROVE  /\ VersionsFit(Interview!Supersede(versions), n)
           /\ Len(Interview!Supersede(versions)) = Len(versions) + 1
           /\ VersionsFit(Append(versions, "draft"), n + 1)
<1>0. PICK k \in Nat : k = Len(versions)
  BY DEF VersionsFit
<1> DEFINE former == [v \in DOMAIN versions |-> IF v = k THEN "superseded" ELSE versions[v]]
<1>1. versions \in Seq(Interview!BriefStatuses) /\ Len(versions) = k /\ DOMAIN versions = 1 .. k
  BY <1>0 DEF VersionsFit
<1>2. "draft" \in Interview!BriefStatuses /\ "superseded" \in Interview!BriefStatuses /\ "draft" # "superseded"
  BY DEF Interview!BriefStatuses
<1>3. /\ IsFiniteSet(Alive(versions)) /\ Cardinality(Alive(versions)) \in Nat
      /\ Cardinality(Alive(versions)) <= 1 + n
  BY <1>1, AliveIsFinite DEF VersionsFit
<1>4. former \in Seq(Interview!BriefStatuses) /\ Len(former) = k
  <2>1. former \in [1 .. k -> Interview!BriefStatuses]
    BY <1>1, <1>2
  <2> QED
    BY <1>1, <2>1
<1>5. /\ Interview!Supersede(versions) = Append(former, "draft")
      /\ \A v \in 1 .. k : former[v] = IF v = k THEN "superseded" ELSE versions[v]
  BY <1>1 DEF Interview!Supersede
<1> HIDE DEF former
<1>6. Alive(Append(former, "draft")) = (Alive(versions) \ {k}) \cup {k + 1}
  <2> DEFINE new == Append(former, "draft")
  <2>1. /\ DOMAIN new = 1 .. k + 1 /\ new[k + 1] = "draft"
        /\ \A v \in 1 .. k : new[v] = IF v = k THEN "superseded" ELSE versions[v]
    BY <1>1, <1>2, <1>4, <1>5
  <2> HIDE DEF new
  <2>2. ASSUME NEW v \in Alive(new) PROVE v \in (Alive(versions) \ {k}) \cup {k + 1}
    BY <1>1, <2>1, <2>2 DEF Alive
  <2>3. ASSUME NEW v \in (Alive(versions) \ {k}) \cup {k + 1} PROVE v \in Alive(new)
    BY <1>1, <1>2, <2>1, <2>3 DEF Alive
  <2> QED
    BY <2>2, <2>3 DEF new
<1>7. Alive(Append(versions, "draft")) = Alive(versions) \cup {k + 1}
  BY <1>1, <1>2 DEF Alive
<1>8. k + 1 \notin Alive(versions)
  BY <1>1 DEF Alive
<1>9. Cardinality(Alive(versions) \cup {k + 1}) = Cardinality(Alive(versions)) + 1
  BY <1>3, <1>8, FS_AddElement
<1>10. Cardinality((Alive(versions) \ {k}) \cup {k + 1}) <= 1 + n
  <2>1. CASE k = 0
    <3>1. Alive(versions) = {}
      BY <1>1, <2>1 DEF Alive
    <3>2. (Alive(versions) \ {k}) \cup {k + 1} = {k + 1}
      BY <3>1
    <3>3. Cardinality({k + 1}) = 1
      BY FS_Singleton
    <3> QED
      BY <3>2, <3>3
  <2>2. CASE k # 0
    <3>1. k \in Alive(versions)
      BY <1>1, <2>2 DEF VersionsFit
    <3>2. /\ IsFiniteSet(Alive(versions) \ {k})
          /\ Cardinality(Alive(versions) \ {k}) = Cardinality(Alive(versions)) - 1
      BY <1>3, <3>1, FS_RemoveElement
    <3>3. k + 1 \notin Alive(versions) \ {k}
      BY <1>8
    <3>4. Cardinality((Alive(versions) \ {k}) \cup {k + 1}) = Cardinality(Alive(versions) \ {k}) + 1
      BY <3>2, <3>3, FS_AddElement
    <3> QED
      BY <1>3, <3>2, <3>4
  <2> QED
    BY <2>1, <2>2
<1>11. /\ Append(former, "draft") \in Seq(Interview!BriefStatuses) /\ Len(Append(former, "draft")) = k + 1
       /\ Append(versions, "draft") \in Seq(Interview!BriefStatuses) /\ Len(Append(versions, "draft")) = k + 1
  BY <1>1, <1>2, <1>4
<1>12. VersionsFit(Append(former, "draft"), n)
  BY <1>6, <1>10, <1>11 DEF VersionsFit
<1>13. VersionsFit(Append(versions, "draft"), n + 1)
  <2> DEFINE new == Append(versions, "draft")
  <2>1. Len(new) = k + 1 /\ new \in Seq(Interview!BriefStatuses)
    BY <1>11
  <2>2. Cardinality(Alive(new)) = Cardinality(Alive(versions)) + 1
    BY <1>7, <1>9, Zenon
  <2>4. Cardinality(Alive(new)) <= 1 + (n + 1)
    BY <1>3, <2>2
  <2>3. Len(new) \in Alive(new)
    BY <1>7, <2>1
  <2> HIDE DEF new
  <2> QED
    BY <2>1, <2>3, <2>4 DEF VersionsFit, new
<1> QED
  BY <1>1, <1>5, <1>11, <1>12, <1>13

LEMMA VersionValidated ==
    ASSUME NEW versions, NEW n \in Nat, VersionsFit(versions, n), NEW v \in DOMAIN versions,
           versions[v] = "draft"
    PROVE  LET new == [versions EXCEPT ![v] = "validated"]
           IN VersionsFit(new, n) /\ Len(new) = Len(versions)
<1> DEFINE new == [versions EXCEPT ![v] = "validated"]
<1>1. "validated" \in Interview!BriefStatuses
  BY DEF Interview!BriefStatuses
<1>2. versions \in Seq(Interview!BriefStatuses)
  BY DEF VersionsFit
<1>3. new \in Seq(Interview!BriefStatuses) /\ Len(new) = Len(versions) /\ DOMAIN new = DOMAIN versions
  BY <1>1, <1>2
<1>4. Alive(new) = Alive(versions)
  BY <1>2, <1>3 DEF Alive
<1>5. new # <<>> => versions # <<>>
  BY <1>2, <1>3
<1> QED
  BY <1>3, <1>4, <1>5 DEF VersionsFit

\* The versions of one conversation change.
LEMMA BriefsWritten ==
    ASSUME InterviewInv, NEW c \in Conversations, NEW versions, VersionsFit(versions, cuts'),
           cuts' \in {cuts, cuts + 1}, briefs' = [briefs EXCEPT ![c] = versions]
    PROVE  BriefsAreFit'
<1>1. cuts \in Nat /\ DOMAIN briefs = Conversations
  BY DEF InterviewInv, CountsAreFit, BriefsAreFit
<1>2. ASSUME NEW e \in Conversations PROVE VersionsFit(briefs'[e], cuts')
  <2>1. VersionsFit(briefs[e], cuts) /\ Cardinality(Alive(briefs[e])) \in Nat
    BY AliveIsFinite DEF InterviewInv, BriefsAreFit, VersionsFit
  <2>2. VersionsFit(briefs[e], cuts')
    BY <1>1, <2>1 DEF VersionsFit
  <2> QED
    BY <1>1, <2>2
<1> QED
  BY <1>1, <1>2 DEF BriefsAreFit

LEMMA TwoEntries == DOMAIN <<"facts", "voice">> = {1, 2}
OBVIOUS

\* A plan, once some of its entries were written and some of these are known
\* to be.
LEMMA PlanWritten ==
    ASSUME NEW row \in Interview!PlanRow, NEW n \in Nat, PlanFits(row, n), NEW chosen \in SUBSET {1, 2}
    PROVE  LET written == Interview!ToWrite(row, chosen)
               new == Interview!Wrote(row, written)
               after == Interview!Told(new, chosen)
           IN /\ after \in Interview!PlanRow /\ after.conv = row.conv /\ PlanFits(after, n)
              /\ \A some \in SUBSET written :
                   LET cut == Interview!Wrote(row, some)
                   IN cut \in Interview!PlanRow /\ cut.conv = row.conv /\ PlanFits(cut, n + 1)
<1>1. /\ row.conv \in Conversations /\ row.status \in [{1, 2} -> {"pending", "accepted"}]
      /\ row.wrote \in [{1, 2} -> Nat]
      /\ row = [conv |-> row.conv, status |-> row.status, wrote |-> row.wrote]
  BY TwoEntries DEF Interview!PlanRow
<1>2. Interview!PlanRow = [conv : Conversations, status : [{1, 2} -> {"pending", "accepted"}], wrote : [{1, 2} -> Nat]]
  BY TwoEntries DEF Interview!PlanRow
<1> DEFINE Sums(some) == [e \in {1, 2} |-> row.wrote[e] + (IF e \in some THEN 1 ELSE 0)]
<1>3. \A some : Interview!Wrote(row, some) = [row EXCEPT !.wrote = Sums(some)]
  BY TwoEntries DEF Interview!Wrote
<1>4. \A some : Sums(some) \in [{1, 2} -> Nat]
  BY <1>1
<1> DEFINE States == [e \in {1, 2} |-> IF e \in chosen THEN "accepted" ELSE row.status[e]]
<1>5. States \in [{1, 2} -> {"pending", "accepted"}]
  BY <1>1
<1>6. \A some : Interview!Wrote(row, some) = [conv |-> row.conv, status |-> row.status, wrote |-> Sums(some)]
  <2> SUFFICES ASSUME NEW some
               PROVE  [row EXCEPT !.wrote = Sums(some)] = [conv |-> row.conv, status |-> row.status, wrote |-> Sums(some)]
    BY <1>3
  <2> HIDE DEF Sums
  <2> QED
    BY <1>1
<1>7. Interview!ToWrite(row, chosen) = {e \in chosen : row.status[e] = "pending"}
  BY DEF Interview!ToWrite
<1> DEFINE written == Interview!ToWrite(row, chosen)
<1> DEFINE new == Interview!Wrote(row, written)
<1> DEFINE after == Interview!Told(new, chosen)
<1>8. after = [conv |-> row.conv, status |-> States, wrote |-> Sums(written)]
  <2>1. new = [conv |-> row.conv, status |-> row.status, wrote |-> Sums(written)]
    BY <1>6
  <2> HIDE DEF Sums, written, new
  <2> QED
    BY <2>1, TwoEntries DEF Interview!Told
<1>9. after \in Interview!PlanRow /\ after.conv = row.conv
  <2>1. Sums(written) \in [{1, 2} -> Nat]
    BY <1>4
  <2> HIDE DEF Sums, written, new, after, States
  <2> QED
    BY <1>1, <1>2, <1>5, <1>8, <2>1
<1>10. PlanFits(after, n)
  <2>1. after.status = States /\ after.wrote = Sums(written)
    <3> HIDE DEF Sums, written, new, after, States
    <3> QED
      BY <1>8
  <2>2. ASSUME NEW e \in {1, 2}
        PROVE  Sums(written)[e] <= 1 + n /\ (States[e] = "pending" => Sums(written)[e] <= n)
    <3>1. /\ row.wrote[e] \in Nat /\ row.wrote[e] <= 1 + n /\ row.status[e] \in {"pending", "accepted"}
          /\ row.status[e] = "pending" => row.wrote[e] <= n
      BY <1>1 DEF PlanFits
    <3>2. Sums(written)[e] = row.wrote[e] + (IF e \in written THEN 1 ELSE 0)
      OBVIOUS
    <3>3. e \in written <=> e \in chosen /\ row.status[e] = "pending"
      BY <1>7
    <3>4. States[e] = IF e \in chosen THEN "accepted" ELSE row.status[e]
      OBVIOUS
    <3> HIDE DEF Sums, written, States
    <3> QED
      BY <3>1, <3>2, <3>3, <3>4
  <2> HIDE DEF Sums, written, new, after, States
  <2> QED
    BY <2>1, <2>2 DEF PlanFits
<1>11. ASSUME NEW some \in SUBSET written
       PROVE  LET cut == Interview!Wrote(row, some)
              IN cut \in Interview!PlanRow /\ cut.conv = row.conv /\ PlanFits(cut, n + 1)
  <2> DEFINE cut == Interview!Wrote(row, some)
  <2>1. cut = [conv |-> row.conv, status |-> row.status, wrote |-> Sums(some)]
    BY <1>6
  <2>2. Sums(some) \in [{1, 2} -> Nat]
    BY <1>4
  <2>3. ASSUME NEW e \in {1, 2}
        PROVE  Sums(some)[e] <= 1 + (n + 1) /\ (row.status[e] = "pending" => Sums(some)[e] <= n + 1)
    <3>1. /\ row.wrote[e] \in Nat /\ row.wrote[e] <= 1 + n /\ row.status[e] \in {"pending", "accepted"}
          /\ row.status[e] = "pending" => row.wrote[e] <= n
      BY <1>1 DEF PlanFits
    <3>2. Sums(some)[e] = row.wrote[e] + (IF e \in some THEN 1 ELSE 0)
      OBVIOUS
    <3> HIDE DEF Sums, written
    <3> QED
      BY <3>1, <3>2
  <2> HIDE DEF Sums, written, cut
  <2>4. cut \in Interview!PlanRow /\ cut.conv = row.conv
    BY <1>1, <1>2, <2>1, <2>2
  <2>5. PlanFits(cut, n + 1)
    BY <2>1, <2>3 DEF PlanFits
  <2> QED
    BY <2>4, <2>5 DEF cut
<1> HIDE DEF Sums, States
<1> QED
  BY <1>9, <1>10, <1>11

LEMMA PlanFitsMore ==
    ASSUME NEW row \in Interview!PlanRow, NEW n \in Nat, PlanFits(row, n)
    PROVE  PlanFits(row, n + 1)
<1>1. \A e \in {1, 2} : row.wrote[e] \in Nat
  BY TwoEntries DEF Interview!PlanRow
<1> QED
  BY <1>1 DEF PlanFits

LEMMA PlanReplaced ==
    ASSUME InterviewInv, NEW p \in DOMAIN plans, NEW row \in Interview!PlanRow, row.conv = plans[p].conv,
           PlanFits(row, cuts'), cuts' \in {cuts, cuts + 1}, plans' = [plans EXCEPT ![p] = row],
           Interview!Created \subseteq Interview!Created'
    PROVE  PlansAreFit'
<1>1. cuts \in Nat /\ plans \in Seq(Interview!PlanRow)
  BY DEF InterviewInv, CountsAreFit, PlansAreFit
<1>2. plans' \in Seq(Interview!PlanRow) /\ DOMAIN plans' = DOMAIN plans
  BY <1>1
<1>3. ASSUME NEW o \in DOMAIN plans PROVE plans'[o].conv \in Interview!Created' /\ PlanFits(plans'[o], cuts')
  <2>1. plans[o] \in Interview!PlanRow /\ plans[o].conv \in Interview!Created /\ PlanFits(plans[o], cuts)
    BY DEF InterviewInv, PlansAreFit
  <2>2. CASE o = p
    BY <1>1, <2>1, <2>2
  <2>3. CASE o # p
    <3>1. \A e \in {1, 2} : plans[o].wrote[e] \in Nat
      BY <2>1, TwoEntries DEF Interview!PlanRow
    <3>2. PlanFits(plans[o], cuts')
      BY <1>1, <2>1, <3>1 DEF PlanFits
    <3>3. plans'[o] = plans[o]
      BY <1>1, <2>3
    <3> QED
      BY <2>1, <3>2, <3>3
  <2> QED
    BY <2>2, <2>3
<1> QED
  BY <1>2, <1>3 DEF PlansAreFit

LEMMA PlanProposed ==
    ASSUME InterviewInv, NEW c \in Interview!Created, plans' = Append(plans, Interview!Proposed(c)),
           Interview!Created \subseteq Interview!Created', cuts' \in {cuts, cuts + 1}
    PROVE  PlansAreFit'
<1> DEFINE row == Interview!Proposed(c)
<1>1. /\ cuts \in Nat /\ cuts' \in Nat /\ plans \in Seq(Interview!PlanRow) /\ c \in Conversations
  BY DEF InterviewInv, CountsAreFit, PlansAreFit, Interview!Created
<1>2. row = [conv |-> c, status |-> [e \in {1, 2} |-> "pending"], wrote |-> [e \in {1, 2} |-> 0]]
  BY TwoEntries DEF Interview!Proposed
<1>3. row \in Interview!PlanRow /\ row.conv = c /\ PlanFits(row, cuts')
  <2> HIDE DEF row
  <2>1. row \in [conv : Conversations, status : [{1, 2} -> {"pending", "accepted"}], wrote : [{1, 2} -> Nat]]
    BY <1>1, <1>2
  <2>2. row \in Interview!PlanRow
    BY <2>1, TwoEntries DEF Interview!PlanRow
  <2>3. row.conv = c /\ \A e \in {1, 2} : row.wrote[e] = 0
    BY <1>2
  <2> QED
    BY <1>1, <2>2, <2>3 DEF PlanFits
<1> HIDE DEF row
<1>4. /\ plans' \in Seq(Interview!PlanRow) /\ DOMAIN plans' = 1 .. Len(plans) + 1
      /\ plans'[Len(plans) + 1] = row /\ \A o \in 1 .. Len(plans) : plans'[o] = plans[o]
  BY <1>1, <1>3 DEF row
<1>5. ASSUME NEW o \in 1 .. Len(plans) PROVE plans[o].conv \in Interview!Created' /\ PlanFits(plans[o], cuts')
  <2>1. plans[o] \in Interview!PlanRow /\ plans[o].conv \in Interview!Created /\ PlanFits(plans[o], cuts)
    BY <1>1 DEF InterviewInv, PlansAreFit
  <2>2. PlanFits(plans[o], cuts')
    BY <1>1, <2>1, PlanFitsMore
  <2> QED
    BY <2>1, <2>2
<1> QED
  BY <1>1, <1>3, <1>4, <1>5 DEF PlansAreFit

\* What an accepted proposal may fill.
LEMMA MemoryGains ==
    ASSUME InterviewInv, NEW some \in SUBSET {1, 2}, Interview!Gained(some)
    PROVE  held' \subseteq Interview!SlotSet
<1> DEFINE kinds == {<<"facts", "voice">>[e] : e \in some}
<1>1. PICK filled \in {kinds, kinds \ {"facts"}} : held' = held \cup filled
  BY DEF Interview!Gained
<1>2. kinds \subseteq {"facts", "voice"}
  OBVIOUS
<1> QED
  BY <1>1, <1>2, SixSlots DEF InterviewInv

\* A conversation leaves closed by its reopening or with a new brief.
LeftOpenly ==
    \A c \in Conversations :
        conv[c].stage = "closed" /\ conv'[c].stage # "closed" =>
            ~conv'[c].closedAt \/ Len(briefs'[c]) > Len(briefs[c])

LEMMA CreatedRow ==
    ASSUME InterviewInv, NEW c \in Conversations
    PROVE  /\ conv[c] \in Interview!ConversationRow /\ conv[c].count \in Nat
           /\ c \in Interview!Created => conv[c].stage # "absent"
           /\ c \notin Interview!Created => c \notin halted /\ conv[c].count = 0 /\ conv[c].stage = "absent"
BY DEF InterviewInv, RowsAreFit, RowStands, RowIsFit, Interview!Created, Interview!ConversationRow

\* A row is written, and no message.
LEMMA RowSettled ==
    ASSUME InterviewInv, NEW c \in Conversations, NEW row \in Interview!ConversationRow, row.stage # "absent",
           conv' = [conv EXCEPT ![c] = row], row.count = conv[c].count, UNCHANGED messages, HaltedBy(c),
           c \notin halted' => RowIsFit(row), c \in halted' => row.stage \in {"brief_ready", "closed"}
    PROVE  /\ RowsAreFit' /\ CountsAreFit'
           /\ Interview!Created \subseteq Interview!Created' /\ c \in Interview!Created'
           /\ \A e \in Conversations \ {c} : conv'[e] = conv[e]
<1>1. PICK d \in Nat : d = 0
  OBVIOUS
<1>2. row.count = conv[c].count + d
  BY <1>1, CreatedRow
<1>3. messages' = IF d = 0 THEN messages ELSE [messages EXCEPT ![c] = @ + d]
  BY <1>1
<1>4. d <= d /\ d + cuts <= d + cuts'
  <2>1. cuts \in Nat /\ cuts' \in {cuts, cuts + 1}
    BY DEF HaltedBy, InterviewInv, CountsAreFit
  <2>2. cuts <= cuts' /\ cuts' \in Nat
    BY <2>1
  <2>3. \A i, x, y \in Nat : x <= y => i <= i /\ i + x <= i + y
    OBVIOUS
  <2>4. d \in Nat
    BY <1>1
  <2> QED
    BY <2>1, <2>2, <2>3, <2>4
<1> QED
  BY <1>2, <1>3, <1>4, RowWritten

\* The routes that call no model.
LEMMA RoutesStep ==
    ASSUME InterviewInv, NEW c \in Conversations, Interview!Routes(c)
    PROVE  InterviewInv' /\ LeftOpenly
<1>0. cuts \in Nat
  BY DEF InterviewInv, CountsAreFit
<1>1. ASSUME NEW row \in Interview!ConversationRow, row.stage # "absent", row.count = conv[c].count,
             c \notin halted' => RowIsFit(row), c \in halted' => row.stage \in {"brief_ready", "closed"},
             halted' \in {halted, halted \ {c}},
             conv' = [conv EXCEPT ![c] = row], UNCHANGED <<messages, plans, briefs, held, turns, cuts>>,
             conv[c].stage = "closed" /\ row.stage # "closed" => ~row.closedAt
      PROVE  InterviewInv' /\ LeftOpenly
  <2>1. HaltedBy(c)
    BY <1>1 DEF HaltedBy
  <2>2. /\ RowsAreFit' /\ CountsAreFit' /\ Interview!Created \subseteq Interview!Created'
        /\ \A e \in Conversations \ {c} : conv'[e] = conv[e]
    BY <1>1, <2>1, RowSettled
  <2>3. PlansAreFit' /\ BriefsAreFit' /\ TurnsAreFit'
    BY <1>1, <2>2, PlansStay, BriefsStay, TurnsStay DEF InterviewInv, TurnsAreFit
  <2>4. conv'[c] = row
    BY <1>1 DEF InterviewInv, RowsAreFit
  <2>5. LeftOpenly
    BY <1>1, <2>2, <2>4 DEF LeftOpenly
  <2> QED
    BY <1>1, <2>2, <2>3, <2>5 DEF InterviewInv
<1>2. ASSUME Interview!Create(c) PROVE InterviewInv' /\ LeftOpenly
  <2> DEFINE missing == Interview!MissingSlots(held)
  <2>1. missing \in SUBSET Interview!SlotSet
    BY DEF Interview!MissingSlots
  <2>2. PICK hasBrief \in BOOLEAN : hasBrief = Interview!ProjectHasBrief
    BY DEF Interview!ProjectHasBrief
  <2>3. PICK no \in BOOLEAN : no = FALSE
    OBVIOUS
  <2> HIDE DEF missing
  <2>4. PICK stage \in Interview!Stages :
          /\ stage = Interview!NextStage(missing, hasBrief, no) /\ stage # "absent"
          /\ stage = "closed" <=> no
          /\ ~no /\ missing # {} => stage = Interview!StageForSlot[Interview!First(missing)]
    BY <2>1, StageIsStage
  <2> DEFINE row == [Interview!Absent EXCEPT !.missing = missing, !.stage = stage]
  <2>5. /\ c \notin Interview!Created /\ conv' = [conv EXCEPT ![c] = row]
        /\ UNCHANGED <<messages, plans, briefs, held, turns, halted, cuts>>
    BY <1>2, <2>2, <2>3, <2>4 DEF Interview!Create, missing
  <2>6. Interview!Absent \in Interview!ConversationRow /\ Interview!Absent.count = 0
    BY DEF Interview!Absent, Interview!ConversationRow
  <2>7. /\ row \in Interview!ConversationRow /\ row.stage = stage /\ row.missing = missing /\ row.count = 0
    BY <2>1, <2>6 DEF Interview!ConversationRow
  <2> HIDE DEF row
  <2>8. RowIsFit(row)
    BY <2>3, <2>4, <2>7 DEF RowIsFit
  <2>9. conv[c].count = 0 /\ conv[c].stage = "absent" /\ c \notin halted'
    BY <2>5, CreatedRow
  <2> QED
    BY <1>1, <2>3, <2>4, <2>5, <2>7, <2>8, <2>9
<1>3. ASSUME Interview!Close(c) PROVE InterviewInv' /\ LeftOpenly
  <2>1. PICK yes \in BOOLEAN : yes = TRUE
    OBVIOUS
  <2> DEFINE row == [conv[c] EXCEPT !.stage = "closed", !.closedAt = yes]
  <2>2. conv' = [conv EXCEPT ![c] = row] /\ UNCHANGED <<messages, plans, briefs, held, turns, halted, cuts>>
    BY <1>3, <2>1 DEF Interview!Close
  <2>3. conv[c] \in Interview!ConversationRow
    BY CreatedRow
  <2>4. "closed" \in Interview!Stages
    BY DEF Interview!Stages
  <2>5. /\ row \in Interview!ConversationRow /\ row.stage = "closed" /\ row.count = conv[c].count
    BY <2>3, <2>4 DEF Interview!ConversationRow
  <2> HIDE DEF row
  <2>6. RowIsFit(row)
    BY <2>5 DEF RowIsFit
  <2> QED
    BY <1>1, <2>2, <2>5, <2>6
<1>4. ASSUME Interview!Reopen(c) PROVE InterviewInv' /\ LeftOpenly
  <2>1. PICK no \in BOOLEAN : no = FALSE
    OBVIOUS
  <2> DEFINE open == [conv[c] EXCEPT !.stage = "brief_ready", !.closedAt = no]
  <2>2. /\ conv' = [conv EXCEPT ![c] = Interview!Refreshed(open, held, briefs[c])]
        /\ halted' = halted \ {c} /\ UNCHANGED <<messages, plans, briefs, held, turns, cuts>>
    BY <1>4, <2>1 DEF Interview!Reopen, Interview!Reopened
  <2>3. conv[c] \in Interview!ConversationRow
    BY CreatedRow
  <2>4. "brief_ready" \in Interview!Stages
    BY DEF Interview!Stages
  <2>5. open \in Interview!ConversationRow /\ open.count = conv[c].count /\ open.closedAt = no
    BY <2>3, <2>4 DEF Interview!ConversationRow
  <2> HIDE DEF open
  <2> DEFINE row == Interview!Refreshed(open, held, briefs[c])
  <2>6. /\ RowIsFit(row) /\ row.stage # "absent" /\ row.count = conv[c].count /\ row.closedAt = no
    BY <2>5, RowRefreshed DEF InterviewInv
  <2> HIDE DEF row
  <2>7. conv' = [conv EXCEPT ![c] = row]
    BY <2>2 DEF row
  <2>8. row \in Interview!ConversationRow
    BY <2>6 DEF RowIsFit
  <2>9. c \notin halted'
    BY <2>2
  <2> QED
    BY <1>1, <2>1, <2>2, <2>6, <2>7, <2>8, <2>9
<1>5. ASSUME NEW p \in DOMAIN plans, NEW chosen \in (SUBSET DOMAIN <<"facts", "voice">>) \ {{}},
             plans[p].conv = c, Interview!Accept(p, chosen)
      PROVE  InterviewInv' /\ LeftOpenly
  <2> DEFINE written == Interview!ToWrite(plans[p], chosen)
  <2> DEFINE new == Interview!Wrote(plans[p], written)
  <2> DEFINE after == Interview!Told(new, chosen)
  <2>1. chosen \in SUBSET {1, 2} /\ written \in SUBSET {1, 2}
    BY TwoEntries DEF Interview!ToWrite
  <2>2. /\ plans' = [plans EXCEPT ![p] = after] /\ Interview!Gained(written)
        /\ conv' = [conv EXCEPT ![c] = Interview!Refreshed(conv[c], held', briefs[c])]
        /\ halted' = halted \ {c} /\ UNCHANGED <<messages, briefs, turns, cuts>>
    BY <1>5 DEF Interview!Accept
  <2>3. plans[p] \in Interview!PlanRow /\ PlanFits(plans[p], cuts)
    BY DEF InterviewInv, PlansAreFit
  <2>4. after \in Interview!PlanRow /\ after.conv = plans[p].conv /\ PlanFits(after, cuts)
    BY <1>0, <2>1, <2>3, PlanWritten
  <2> HIDE DEF written, new, after
  <2>5. held' \subseteq Interview!SlotSet
    BY <2>1, <2>2, MemoryGains
  <2> DEFINE row == Interview!Refreshed(conv[c], held', briefs[c])
  <2>6. conv[c] \in Interview!ConversationRow /\ conv[c].count \in Nat
    BY CreatedRow
  <2>7. /\ RowIsFit(row) /\ row.stage # "absent" /\ row.count = conv[c].count
        /\ row.stage = "closed" <=> conv[c].stage = "closed"
    BY <2>5, <2>6, RowRefreshed
  <2> HIDE DEF row
  <2>8. conv' = [conv EXCEPT ![c] = row]
    BY <2>2 DEF row
  <2>9. /\ RowsAreFit' /\ CountsAreFit' /\ Interview!Created \subseteq Interview!Created'
        /\ \A e \in Conversations \ {c} : conv'[e] = conv[e]
    <3>1. row \in Interview!ConversationRow
      BY <2>7 DEF RowIsFit
    <3>2. HaltedBy(c) /\ c \notin halted'
      BY <2>2 DEF HaltedBy
    <3> QED
      BY <2>2, <2>7, <2>8, <3>1, <3>2, RowSettled
  <2>10. PlansAreFit'
    BY <2>2, <2>4, <2>9, PlanReplaced
  <2>11. BriefsAreFit' /\ TurnsAreFit'
    BY <2>2, <2>9, BriefsStay, TurnsStay DEF InterviewInv, TurnsAreFit
  <2>12. LeftOpenly
    BY <2>7, <2>8, <2>9 DEF LeftOpenly, InterviewInv, RowsAreFit
  <2> QED
    BY <2>5, <2>9, <2>10, <2>11, <2>12 DEF InterviewInv
<1> QED
  BY <1>2, <1>3, <1>4, <1>5 DEF Interview!Routes

\* The requests that await a model, in their steps.
LEMMA AwaitingStep ==
    ASSUME InterviewInv, NEW q \in Requests, Interview!Turn(q) \/ Interview!Generation(q)
    PROVE  InterviewInv' /\ LeftOpenly
<1>0. cuts \in Nat /\ cuts' \in {cuts, cuts + 1}
  BY DEF InterviewInv, CountsAreFit, Interview!Turn, Interview!Generation, Interview!Say, Interview!Answer,
         Interview!Fails, Interview!AskBrief, Interview!Brief
<1>1. ASSUME NEW c \in Conversations, Interview!Say(q, c) PROVE InterviewInv' /\ LeftOpenly
  <2> DEFINE said == [conv[c] EXCEPT !.count = @ + 1]
  <2>1. /\ conv' = [conv EXCEPT ![c] = Interview!Refreshed(said, held, briefs[c])]
        /\ messages' = [messages EXCEPT ![c] = @ + 1] /\ Interview!Await(q, "turn", c)
        /\ UNCHANGED <<plans, briefs, held, cuts>> /\ conv[c].stage # "closed"
        /\ halted' = halted \ {c}
    BY <1>1 DEF Interview!Say, Interview!Written, Interview!Counted
  <2>2. conv[c] \in Interview!ConversationRow /\ conv[c].count \in Nat
    BY CreatedRow
  <2>3. said \in Interview!ConversationRow /\ said.count = conv[c].count + 1
    BY <2>2 DEF Interview!ConversationRow
  <2> HIDE DEF said
  <2> DEFINE row == Interview!Refreshed(said, held, briefs[c])
  <2>4. RowIsFit(row) /\ row.stage # "absent" /\ row.count = conv[c].count + 1
    BY <2>3, RowRefreshed DEF InterviewInv
  <2> HIDE DEF row
  <2>5. conv' = [conv EXCEPT ![c] = row]
    BY <2>1 DEF row
  <2>6. /\ RowsAreFit' /\ CountsAreFit' /\ Interview!Created \subseteq Interview!Created'
        /\ c \in Interview!Created' /\ \A e \in Conversations \ {c} : conv'[e] = conv[e]
    <3>1. PICK d \in Nat : d = 1
      OBVIOUS
    <3>2. row.count = conv[c].count + d /\ HaltedBy(c) /\ c \notin halted'
      BY <2>1, <2>4, <3>1 DEF HaltedBy
    <3>3. messages' = IF d = 0 THEN messages ELSE [messages EXCEPT ![c] = @ + d]
      BY <2>1, <3>1
    <3>4. row \in Interview!ConversationRow /\ d <= d /\ d + cuts <= d + cuts'
      BY <1>0, <2>1, <2>4 DEF RowIsFit
    <3> QED
      BY <2>4, <2>5, <3>2, <3>3, <3>4, RowWritten
  <2>7. PlansAreFit' /\ BriefsAreFit' /\ TurnsAreFit'
    BY <2>1, <2>6, PlansStay, BriefsStay, TurnBegins
  <2>8. LeftOpenly
    BY <2>1, <2>6 DEF LeftOpenly
  <2> QED
    BY <2>1, <2>6, <2>7, <2>8 DEF InterviewInv
<1>2. ASSUME Interview!Answer(q) PROVE InterviewInv' /\ LeftOpenly
  <2> DEFINE c == turns[q].conv
  <2>1. c \in Interview!Created /\ c \in Conversations
    BY <1>2 DEF Interview!Answer, InterviewInv, TurnsAreFit, Interview!Idle, Interview!Created
  <2> DEFINE counted == [conv[c] EXCEPT !.count = @ + 1]
  <2>2. /\ conv' = [conv EXCEPT ![c] = Interview!Refreshed(counted, held, briefs[c])]
        /\ messages' = [messages EXCEPT ![c] = @ + 1] /\ Interview!Leave(q)
        /\ plans' = Append(plans, Interview!Proposed(c)) /\ UNCHANGED <<briefs, held, cuts>>
        /\ halted' = halted \ {c}
    BY <1>2 DEF Interview!Answer, Interview!Written, Interview!Counted
  <2> HIDE DEF c
  <2>3. conv[c] \in Interview!ConversationRow /\ conv[c].count \in Nat
    BY <2>1, CreatedRow
  <2>4. /\ counted \in Interview!ConversationRow /\ counted.count = conv[c].count + 1
        /\ counted.stage = conv[c].stage
    BY <2>3 DEF Interview!ConversationRow
  <2> HIDE DEF counted
  <2> DEFINE row == Interview!Refreshed(counted, held, briefs[c])
  <2>5. /\ RowIsFit(row) /\ row.stage # "absent" /\ row.count = conv[c].count + 1
        /\ row.stage = "closed" <=> conv[c].stage = "closed"
    BY <2>4, RowRefreshed DEF InterviewInv
  <2> HIDE DEF row
  <2>6. conv' = [conv EXCEPT ![c] = row]
    BY <2>2 DEF row
  <2>7. /\ RowsAreFit' /\ CountsAreFit' /\ Interview!Created \subseteq Interview!Created'
        /\ \A e \in Conversations \ {c} : conv'[e] = conv[e]
    <3>1. PICK d \in Nat : d = 1
      OBVIOUS
    <3>2. row.count = conv[c].count + d /\ HaltedBy(c) /\ c \notin halted'
      BY <2>2, <2>5, <3>1 DEF HaltedBy
    <3>3. messages' = IF d = 0 THEN messages ELSE [messages EXCEPT ![c] = @ + d]
      BY <2>2, <3>1
    <3>4. row \in Interview!ConversationRow /\ d <= d /\ d + cuts <= d + cuts'
      BY <1>0, <2>2, <2>5 DEF RowIsFit
    <3> QED
      BY <2>1, <2>5, <2>6, <3>2, <3>3, <3>4, RowWritten
  <2>8. PlansAreFit' /\ BriefsAreFit' /\ TurnsAreFit'
    BY <2>1, <2>2, <2>7, PlanProposed, BriefsStay, TurnEnds
  <2>9. LeftOpenly
    BY <2>1, <2>5, <2>6, <2>7 DEF LeftOpenly, InterviewInv, RowsAreFit
  <2> QED
    BY <2>2, <2>7, <2>8, <2>9 DEF InterviewInv
<1>3. ASSUME Interview!Fails(q) PROVE InterviewInv' /\ LeftOpenly
  <2>1. UNCHANGED <<conv, messages, plans, briefs, held, halted, cuts>> /\ Interview!Leave(q)
    BY <1>3 DEF Interview!Fails
  <2>2. RowsAreFit' /\ CountsAreFit' /\ Interview!Created' = Interview!Created
    BY <2>1, RowsRest
  <2>3. TurnsAreFit'
    BY <2>1, <2>2, TurnEnds
  <2>4. PlansAreFit' /\ BriefsAreFit' /\ held' \subseteq Interview!SlotSet
    BY <2>1, <2>2, PlansStay, BriefsStay DEF InterviewInv
  <2>5. LeftOpenly
    BY <2>1 DEF LeftOpenly
  <2> QED
    BY <2>2, <2>3, <2>4, <2>5 DEF InterviewInv
<1>4. ASSUME NEW c \in Conversations, Interview!AskBrief(q, c) PROVE InterviewInv' /\ LeftOpenly
  <2> DEFINE row == Interview!Refreshed(conv[c], held, briefs[c])
  <2>1. /\ conv' = [conv EXCEPT ![c] = row] /\ Interview!Await(q, "brief", c)
        /\ UNCHANGED <<messages, plans, briefs, held, cuts>> /\ halted' = halted \ {c}
    BY <1>4 DEF Interview!AskBrief, Interview!Refresh
  <2>2. conv[c] \in Interview!ConversationRow
    BY CreatedRow
  <2>3. /\ RowIsFit(row) /\ row.stage # "absent" /\ row.count = conv[c].count
        /\ row.stage = "closed" <=> conv[c].stage = "closed"
    BY <2>2, RowRefreshed DEF InterviewInv
  <2> HIDE DEF row
  <2>4. /\ RowsAreFit' /\ CountsAreFit' /\ Interview!Created \subseteq Interview!Created'
        /\ c \in Interview!Created' /\ \A e \in Conversations \ {c} : conv'[e] = conv[e]
    <3>1. HaltedBy(c) /\ c \notin halted' /\ row \in Interview!ConversationRow
      BY <2>1, <2>3 DEF HaltedBy, RowIsFit
    <3> QED
      BY <2>1, <2>3, <3>1, RowSettled
  <2>5. PlansAreFit' /\ BriefsAreFit' /\ TurnsAreFit'
    BY <2>1, <2>4, PlansStay, BriefsStay, TurnBegins
  <2>6. LeftOpenly
    BY <2>1, <2>3, <2>4 DEF LeftOpenly, InterviewInv, RowsAreFit
  <2> QED
    BY <2>1, <2>4, <2>5, <2>6 DEF InterviewInv
<1>5. ASSUME Interview!Brief(q) PROVE InterviewInv' /\ LeftOpenly
  <2> DEFINE c == turns[q].conv
  <2>1. c \in Interview!Created /\ c \in Conversations
    BY <1>5 DEF Interview!Brief, InterviewInv, TurnsAreFit, Interview!Idle, Interview!Created
  <2> DEFINE done == [conv[c] EXCEPT !.stage = "brief_ready"]
  <2>2. /\ conv' = [conv EXCEPT ![c] = Interview!Refreshed(done, held, briefs'[c])]
        /\ briefs' = [briefs EXCEPT ![c] = Interview!Supersede(@)] /\ Interview!Leave(q)
        /\ UNCHANGED <<messages, plans, held, cuts>> /\ halted' = halted \ {c}
    BY <1>5 DEF Interview!Brief, Interview!BriefReady
  <2> HIDE DEF c
  <2>3. conv[c] \in Interview!ConversationRow /\ "brief_ready" \in Interview!Stages
    BY <2>1, CreatedRow DEF Interview!Stages
  <2>4. done \in Interview!ConversationRow /\ done.count = conv[c].count
    BY <2>3 DEF Interview!ConversationRow
  <2> HIDE DEF done
  <2> DEFINE row == Interview!Refreshed(done, held, briefs'[c])
  <2>5. RowIsFit(row) /\ row.stage # "absent" /\ row.count = conv[c].count
    BY <2>4, RowRefreshed DEF InterviewInv
  <2> HIDE DEF row
  <2>6. conv' = [conv EXCEPT ![c] = row]
    BY <2>2 DEF row
  <2>7. /\ RowsAreFit' /\ CountsAreFit' /\ Interview!Created \subseteq Interview!Created'
        /\ \A e \in Conversations \ {c} : conv'[e] = conv[e]
    <3>1. HaltedBy(c) /\ c \notin halted' /\ row \in Interview!ConversationRow
      BY <2>2, <2>5 DEF HaltedBy, RowIsFit
    <3> QED
      BY <2>1, <2>2, <2>5, <2>6, <3>1, RowSettled
  <2>8. /\ VersionsFit(Interview!Supersede(briefs[c]), cuts)
        /\ Len(Interview!Supersede(briefs[c])) = Len(briefs[c]) + 1 /\ Len(briefs[c]) \in Nat
    BY <1>0, <2>1, VersionAdded DEF InterviewInv, BriefsAreFit, VersionsFit
  <2>9. BriefsAreFit'
    BY <2>1, <2>2, <2>8, BriefsWritten
  <2>10. PlansAreFit' /\ TurnsAreFit'
    BY <2>2, <2>7, PlansStay, TurnEnds
  <2>11. LeftOpenly
    BY <2>1, <2>2, <2>7, <2>8 DEF LeftOpenly, InterviewInv, BriefsAreFit
  <2> QED
    BY <2>2, <2>7, <2>9, <2>10, <2>11 DEF InterviewInv
<1> QED
  BY <1>1, <1>2, <1>3, <1>4, <1>5 DEF Interview!Turn, Interview!Generation

\* The routes of the briefs, and the memory that changes elsewhere.
LEMMA BriefRoutesStep ==
    ASSUME InterviewInv,
           \/ \E c \in Conversations : Interview!BriefRoutes(c)
           \/ \E slot \in {"positioning", "facts"} : Interview!Remember(slot)
    PROVE  InterviewInv' /\ LeftOpenly
<1>0. cuts \in Nat
  BY DEF InterviewInv, CountsAreFit
<1>1. ASSUME UNCHANGED <<conv, messages, plans, turns, halted, cuts>>, BriefsAreFit',
             held' \subseteq Interview!SlotSet
      PROVE  InterviewInv' /\ LeftOpenly
  <2>1. RowsAreFit' /\ CountsAreFit' /\ Interview!Created' = Interview!Created
    BY <1>1, RowsRest
  <2>2. PlansAreFit' /\ TurnsAreFit'
    BY <1>1, <2>1, PlansStay, TurnsStay DEF InterviewInv, TurnsAreFit
  <2>3. LeftOpenly
    BY <1>1 DEF LeftOpenly
  <2> QED
    BY <1>1, <2>1, <2>2, <2>3 DEF InterviewInv
<1>2. ASSUME NEW c \in Conversations, NEW v \in DOMAIN briefs[c], Interview!Correct(c, v)
      PROVE  InterviewInv' /\ LeftOpenly
  <2>1. /\ briefs' = [briefs EXCEPT ![c] = Interview!Supersede(@)]
        /\ UNCHANGED <<conv, messages, plans, held, turns, halted, cuts>>
    BY <1>2 DEF Interview!Correct
  <2>2. VersionsFit(Interview!Supersede(briefs[c]), cuts)
    BY <1>0, VersionAdded DEF InterviewInv, BriefsAreFit
  <2>3. BriefsAreFit'
    BY <2>1, <2>2, BriefsWritten
  <2> QED
    BY <1>1, <2>1, <2>3 DEF InterviewInv
<1>3. ASSUME NEW c \in Conversations, NEW v \in DOMAIN briefs[c], Interview!Validate(c, v)
      PROVE  InterviewInv' /\ LeftOpenly
  <2> DEFINE new == [briefs[c] EXCEPT ![v] = "validated"]
  <2>1. /\ briefs[c][v] = "draft" /\ briefs' = [briefs EXCEPT ![c] = new]
        /\ held' \in {held, held \cup {"positioning"}} /\ UNCHANGED <<conv, messages, plans, turns, halted, cuts>>
    BY <1>3 DEF Interview!Validate
  <2>2. VersionsFit(new, cuts)
    BY <1>0, <2>1, VersionValidated DEF InterviewInv, BriefsAreFit
  <2> HIDE DEF new
  <2>3. BriefsAreFit'
    BY <2>1, <2>2, BriefsWritten
  <2>4. held' \subseteq Interview!SlotSet
    BY <2>1, SixSlots DEF InterviewInv
  <2> QED
    BY <1>1, <2>1, <2>3, <2>4
<1>4. ASSUME NEW slot \in {"positioning", "facts"}, Interview!Remember(slot) PROVE InterviewInv' /\ LeftOpenly
  <2>1. UNCHANGED <<conv, messages, plans, briefs, turns, halted, cuts>> /\ held' \subseteq Interview!SlotSet
    BY <1>4, SixSlots DEF Interview!Remember, InterviewInv
  <2>2. BriefsAreFit'
    BY <2>1, BriefsStay
  <2> QED
    BY <1>1, <2>1, <2>2
<1> QED
  BY <1>2, <1>3, <1>4 DEF Interview!BriefRoutes

\* A refusal or a death ends the requests it ends.
LEMMA TurnsAreCut ==
    ASSUME InterviewInv, Interview!Created \subseteq Interview!Created',
           turns' \in {turns, [q \in Requests |-> Interview!Idle]}
    PROVE  TurnsAreFit'
<1>1. DOMAIN turns = Requests
  BY DEF InterviewInv, TurnsAreFit
<1>2. DOMAIN turns' = Requests /\ \A p \in Requests : turns'[p] \in {turns[p], Interview!Idle}
  BY <1>1
<1> QED
  BY <1>2, TurnsStay

\* A message that was written and may be counted, the row being left behind.
LEMMA MessageUncounted ==
    ASSUME InterviewInv, NEW c \in Interview!Created, Interview!Uncounted(c), cuts' = cuts + 1, UNCHANGED halted
    PROVE  /\ RowsAreFit' /\ CountsAreFit' /\ Interview!Created \subseteq Interview!Created'
           /\ \A e \in Conversations : conv'[e].stage = conv[e].stage
<1>1. PICK d \in Nat : d = 1
  OBVIOUS
<1>2. /\ c \in Conversations /\ conv[c] \in Interview!ConversationRow /\ conv[c].count \in Nat
      /\ conv[c].stage # "absent"
  BY CreatedRow DEF Interview!Created
<1>3. RowStands(c)
  BY <1>2 DEF InterviewInv, RowsAreFit
<1>4. messages' = [messages EXCEPT ![c] = @ + 1] /\ conv' \in {conv, [conv EXCEPT ![c] = Interview!Counted(@)]}
  BY DEF Interview!Uncounted, Interview!Written
<1>5. messages' = IF d = 0 THEN messages ELSE [messages EXCEPT ![c] = @ + d]
  BY <1>1, <1>4
<1>6. HaltedBy(c) /\ cuts \in Nat
  BY DEF HaltedBy, InterviewInv, CountsAreFit
<1>7. CASE conv' = conv
  <2>1. PICK k \in Nat : k = 0
    OBVIOUS
  <2>2. conv' = [conv EXCEPT ![c] = conv[c]]
    BY <1>7 DEF InterviewInv, RowsAreFit
  <2>3. conv[c].count = conv[c].count + k /\ k <= d /\ d + cuts <= k + cuts'
    BY <1>1, <1>2, <1>6, <2>1
  <2>4. /\ c \notin halted' => RowIsFit(conv[c])
        /\ c \in halted' => conv[c].stage \in {"brief_ready", "closed"}
    BY <1>3 DEF RowStands
  <2>5. RowsAreFit' /\ CountsAreFit' /\ Interview!Created \subseteq Interview!Created'
    BY <1>2, <1>5, <1>6, <2>2, <2>3, <2>4, RowWritten
  <2> QED
    BY <1>7, <2>5
<1>8. CASE conv' = [conv EXCEPT ![c] = Interview!Counted(@)]
  <2> DEFINE row == Interview!Counted(conv[c])
  <2>1. /\ row \in Interview!ConversationRow /\ row.count = conv[c].count + 1 /\ row.stage = conv[c].stage
        /\ row.missing = conv[c].missing
    BY <1>2 DEF Interview!Counted, Interview!ConversationRow
  <2>2. conv' = [conv EXCEPT ![c] = row]
    BY <1>8
  <2> HIDE DEF row
  <2>3. row.count = conv[c].count + d /\ d <= d /\ d + cuts <= d + cuts'
    BY <1>1, <1>6, <2>1
  <2>4. /\ c \notin halted' => RowIsFit(row)
        /\ c \in halted' => row.stage \in {"brief_ready", "closed"}
    BY <1>2, <1>3, <2>1 DEF RowStands, RowIsFit
  <2>5. row.stage # "absent"
    BY <1>2, <2>1
  <2>6. /\ RowsAreFit' /\ CountsAreFit' /\ Interview!Created \subseteq Interview!Created'
        /\ \A e \in Conversations \ {c} : conv'[e] = conv[e]
    BY <1>2, <1>5, <1>6, <2>1, <2>2, <2>3, <2>4, <2>5, RowWritten
  <2>7. conv'[c] = row
    BY <1>2, <2>2 DEF InterviewInv, RowsAreFit
  <2> QED
    BY <2>1, <2>6, <2>7
<1> QED
  BY <1>4, <1>7, <1>8

\* A row sent to brief_ready, and not refreshed.
LEMMA RowHalted ==
    ASSUME InterviewInv, NEW c \in Interview!Created, NEW row \in Interview!ConversationRow,
           row.stage = "brief_ready", row.count = conv[c].count, conv' = [conv EXCEPT ![c] = row],
           UNCHANGED messages, halted' = halted \cup {c}, cuts' = cuts + 1
    PROVE  /\ RowsAreFit' /\ CountsAreFit' /\ Interview!Created \subseteq Interview!Created'
           /\ \A e \in Conversations \ {c} : conv'[e] = conv[e]
<1>1. c \in Conversations /\ HaltedBy(c) /\ c \in halted'
  BY DEF HaltedBy, Interview!Created
<1> QED
  BY <1>1, RowSettled

\* Nothing but briefs and plans is written by a request that is cut there.
LEMMA CutBeforeTheRow ==
    ASSUME InterviewInv, UNCHANGED <<conv, messages, halted>>, cuts' = cuts + 1,
           PlansAreFit', BriefsAreFit', held' \subseteq Interview!SlotSet,
           turns' \in {turns, [q \in Requests |-> Interview!Idle]}
    PROVE  InterviewInv' /\ LeftOpenly
<1>1. RowsAreFit' /\ CountsAreFit' /\ Interview!Created' = Interview!Created
  BY RowsRest
<1>2. TurnsAreFit'
  BY <1>1, TurnsAreCut
<1>3. LeftOpenly
  BY DEF LeftOpenly
<1> QED
  BY <1>1, <1>2, <1>3 DEF InterviewInv

\* The requests that stop between two of their writes.
LEMMA CutsStep ==
    ASSUME InterviewInv, NEW c \in Conversations, Interview!Cuts(c)
    PROVE  InterviewInv' /\ LeftOpenly
<1>0. cuts \in Nat
  BY DEF InterviewInv, CountsAreFit
<1>1. ASSUME Interview!SayCut(c) PROVE InterviewInv' /\ LeftOpenly
  <2>1. /\ cuts' = cuts + 1 /\ turns' \in {turns, [q \in Requests |-> Interview!Idle]}
        /\ c \in Interview!Created /\ Interview!Uncounted(c) /\ UNCHANGED <<plans, briefs, held, halted>>
    BY <1>1 DEF Interview!SayCut, Interview!Cut
  <2>2. /\ RowsAreFit' /\ CountsAreFit' /\ Interview!Created \subseteq Interview!Created'
        /\ \A e \in Conversations : conv'[e].stage = conv[e].stage
    BY <2>1, MessageUncounted
  <2>3. PlansAreFit' /\ BriefsAreFit' /\ TurnsAreFit'
    BY <2>1, <2>2, PlansStay, BriefsStay, TurnsAreCut
  <2> QED
    BY <2>1, <2>2, <2>3 DEF InterviewInv, LeftOpenly
<1>2. ASSUME Interview!ReopenCut(c) PROVE InterviewInv' /\ LeftOpenly
  <2>1. PICK no \in BOOLEAN : no = FALSE
    OBVIOUS
  <2> DEFINE row == [conv[c] EXCEPT !.stage = "brief_ready", !.closedAt = no]
  <2>2. /\ cuts' = cuts + 1 /\ turns' \in {turns, [q \in Requests |-> Interview!Idle]}
        /\ c \in Interview!Created /\ conv' = [conv EXCEPT ![c] = row] /\ halted' = halted \cup {c}
        /\ UNCHANGED <<messages, plans, briefs, held>>
    BY <1>2, <2>1 DEF Interview!ReopenCut, Interview!Cut, Interview!Reopened
  <2>3. conv[c] \in Interview!ConversationRow /\ "brief_ready" \in Interview!Stages
    BY CreatedRow DEF Interview!Stages
  <2>4. /\ row \in Interview!ConversationRow /\ row.stage = "brief_ready" /\ row.count = conv[c].count
        /\ row.closedAt = no
    BY <2>3 DEF Interview!ConversationRow
  <2> HIDE DEF row
  <2>5. /\ RowsAreFit' /\ CountsAreFit' /\ Interview!Created \subseteq Interview!Created'
        /\ \A e \in Conversations \ {c} : conv'[e] = conv[e]
    BY <2>2, <2>4, RowHalted
  <2>6. PlansAreFit' /\ BriefsAreFit' /\ TurnsAreFit'
    BY <2>2, <2>5, PlansStay, BriefsStay, TurnsAreCut
  <2>7. conv'[c] = row
    BY <2>2 DEF InterviewInv, RowsAreFit
  <2>8. LeftOpenly
    BY <2>1, <2>4, <2>5, <2>7 DEF LeftOpenly
  <2> QED
    BY <2>2, <2>5, <2>6, <2>8 DEF InterviewInv
<1>3. ASSUME NEW v \in DOMAIN briefs[c], Interview!CorrectCut(c, v) PROVE InterviewInv' /\ LeftOpenly
  <2>1. /\ cuts' = cuts + 1 /\ turns' \in {turns, [q \in Requests |-> Interview!Idle]}
        /\ briefs' = [briefs EXCEPT ![c] = Append(@, "draft")]
        /\ UNCHANGED <<conv, messages, plans, held, halted>>
    BY <1>3 DEF Interview!CorrectCut, Interview!Cut
  <2>2. VersionsFit(Append(briefs[c], "draft"), cuts')
    BY <1>0, <2>1, VersionAdded DEF InterviewInv, BriefsAreFit
  <2>3. BriefsAreFit'
    BY <2>1, <2>2, BriefsWritten
  <2>4. PlansAreFit'
    BY <2>1, PlansStay DEF Interview!Created
  <2>5. held' \subseteq Interview!SlotSet
    BY <2>1 DEF InterviewInv
  <2> QED
    BY <2>1, <2>3, <2>4, <2>5, CutBeforeTheRow
<1>4. ASSUME NEW p \in DOMAIN plans, NEW chosen \in (SUBSET DOMAIN <<"facts", "voice">>) \ {{}},
             NEW last \in chosen, Interview!AcceptCut(p, chosen, last)
      PROVE  InterviewInv' /\ LeftOpenly
  <2> DEFINE written == Interview!ToWrite(plans[p], chosen)
  <2> DEFINE some == {e \in written : e <= last}
  <2> DEFINE cut == Interview!Wrote(plans[p], some)
  <2> DEFINE whole == Interview!Told(Interview!Wrote(plans[p], written), chosen)
  <2>1. chosen \in SUBSET {1, 2} /\ some \in SUBSET written /\ some \in SUBSET {1, 2}
    BY TwoEntries DEF Interview!ToWrite
  <2>2. /\ cuts' = cuts + 1 /\ turns' \in {turns, [q \in Requests |-> Interview!Idle]}
        /\ Interview!Gained(some) /\ UNCHANGED <<conv, messages, briefs, halted>>
        /\ \/ plans' = [plans EXCEPT ![p] = cut]
           \/ /\ \A e \in chosen : e <= last
              /\ plans' = [plans EXCEPT ![p] = Interview!Told(cut, chosen)]
    BY <1>4 DEF Interview!AcceptCut, Interview!Cut
  <2>3. plans[p] \in Interview!PlanRow /\ PlanFits(plans[p], cuts)
    BY DEF InterviewInv, PlansAreFit
  <2>4. cut \in Interview!PlanRow /\ cut.conv = plans[p].conv /\ PlanFits(cut, cuts + 1)
    BY <1>0, <2>1, <2>3, PlanWritten
  <2>5. whole \in Interview!PlanRow /\ whole.conv = plans[p].conv /\ PlanFits(whole, cuts)
    BY <1>0, <2>1, <2>3, PlanWritten
  <2>6. (\A e \in chosen : e <= last) => Interview!Told(cut, chosen) = whole
    <3>1. (\A e \in chosen : e <= last) => some = written
      BY DEF Interview!ToWrite
    <3> QED
      BY <3>1
  <2> HIDE DEF written, some, cut, whole
  <2>7. PlanFits(whole, cuts + 1)
    BY <1>0, <2>5, PlanFitsMore
  <2>8. PlansAreFit'
    <3>1. Interview!Created \subseteq Interview!Created'
      BY <2>2 DEF Interview!Created
    <3>2. CASE plans' = [plans EXCEPT ![p] = cut]
      BY <2>2, <2>4, <3>1, <3>2, PlanReplaced
    <3>3. CASE plans' = [plans EXCEPT ![p] = whole]
      BY <2>2, <2>5, <2>7, <3>1, <3>3, PlanReplaced
    <3> QED
      BY <2>2, <2>6, <3>2, <3>3
  <2>9. BriefsAreFit' /\ held' \subseteq Interview!SlotSet
    BY <2>1, <2>2, BriefsStay, MemoryGains
  <2> QED
    BY <2>2, <2>8, <2>9, CutBeforeTheRow
<1> QED
  BY <1>1, <1>2, <1>3, <1>4 DEF Interview!Cuts

\* The ends of the requests that await a model, cut in their turn.
LEMMA AnswerCutStep ==
    ASSUME InterviewInv, NEW q \in Requests, Interview!AnswerCut(q)
    PROVE  InterviewInv' /\ LeftOpenly
<1> DEFINE c == turns[q].conv
<1>1. c \in Interview!Created
  BY DEF Interview!AnswerCut, InterviewInv, TurnsAreFit, Interview!Idle
<1>2. /\ cuts' = cuts + 1 /\ turns' = [r \in Requests |-> Interview!Idle] /\ Interview!Uncounted(c)
      /\ plans' = Append(plans, Interview!Proposed(c)) /\ UNCHANGED <<briefs, held, halted>>
  BY DEF Interview!AnswerCut
<1>3. PICK d \in Interview!Created : d = c
  BY <1>1
<1> HIDE DEF c
<1>4. /\ RowsAreFit' /\ CountsAreFit' /\ Interview!Created \subseteq Interview!Created'
      /\ \A e \in Conversations : conv'[e].stage = conv[e].stage
  BY <1>2, <1>3, MessageUncounted
<1>5. PlansAreFit'
  BY <1>2, <1>3, <1>4, PlanProposed
<1>6. BriefsAreFit' /\ TurnsAreFit'
  BY <1>2, <1>4, BriefsStay, TurnsAreCut
<1> QED
  BY <1>2, <1>4, <1>5, <1>6 DEF InterviewInv, LeftOpenly

LEMMA BriefCutStep ==
    ASSUME InterviewInv, NEW q \in Requests, Interview!BriefCut(q)
    PROVE  InterviewInv' /\ LeftOpenly
<1>0. cuts \in Nat
  BY DEF InterviewInv, CountsAreFit
<1>1. PICK c \in Interview!Created : c = turns[q].conv
  BY DEF Interview!BriefCut, InterviewInv, TurnsAreFit, Interview!Idle
<1>2. c \in Conversations
  BY DEF Interview!Created
<1>3. /\ cuts' = cuts + 1 /\ turns' = [r \in Requests |-> Interview!Idle] /\ UNCHANGED <<messages, plans, held>>
      /\ \/ briefs' = [briefs EXCEPT ![c] = Append(@, "draft")] /\ UNCHANGED <<conv, halted>>
         \/ briefs' = [briefs EXCEPT ![c] = Interview!Supersede(@)] /\ UNCHANGED <<conv, halted>>
         \/ /\ briefs' = [briefs EXCEPT ![c] = Interview!Supersede(@)]
            /\ conv' = [conv EXCEPT ![c] = Interview!BriefReady(@)] /\ halted' = halted \cup {c}
  BY <1>1 DEF Interview!BriefCut
<1>4. VersionsFit(briefs[c], cuts)
  BY <1>2 DEF InterviewInv, BriefsAreFit
<1>5. VersionsFit(Append(briefs[c], "draft"), cuts')
  BY <1>0, <1>3, <1>4, VersionAdded
<1>6. /\ VersionsFit(Interview!Supersede(briefs[c]), cuts)
      /\ Len(Interview!Supersede(briefs[c])) = Len(briefs[c]) + 1
  BY <1>0, <1>4, VersionAdded
<1>7. VersionsFit(Interview!Supersede(briefs[c]), cuts')
  BY <1>0, <1>3, <1>6, VersionsFitMore
<1>8. BriefsAreFit'
  BY <1>2, <1>3, <1>5, <1>7, BriefsWritten
<1>9. held' \subseteq Interview!SlotSet
  BY <1>3 DEF InterviewInv
<1>10. CASE UNCHANGED <<conv, halted>>
  <2>1. PlansAreFit'
    BY <1>3, <1>10, PlansStay DEF Interview!Created
  <2> QED
    BY <1>3, <1>8, <1>9, <1>10, <2>1, CutBeforeTheRow
<1>11. CASE /\ briefs' = [briefs EXCEPT ![c] = Interview!Supersede(@)]
            /\ conv' = [conv EXCEPT ![c] = Interview!BriefReady(@)] /\ halted' = halted \cup {c}
  <2> DEFINE row == Interview!BriefReady(conv[c])
  <2>1. conv[c] \in Interview!ConversationRow /\ "brief_ready" \in Interview!Stages
    BY <1>2, CreatedRow DEF Interview!Stages
  <2>2. row \in Interview!ConversationRow /\ row.stage = "brief_ready" /\ row.count = conv[c].count
    BY <2>1 DEF Interview!ConversationRow, Interview!BriefReady
  <2>3. conv' = [conv EXCEPT ![c] = row]
    BY <1>11
  <2> HIDE DEF row
  <2>4. /\ RowsAreFit' /\ CountsAreFit' /\ Interview!Created \subseteq Interview!Created'
        /\ \A e \in Conversations \ {c} : conv'[e] = conv[e]
    BY <1>3, <1>11, <2>2, <2>3, RowHalted
  <2>5. PlansAreFit' /\ TurnsAreFit'
    BY <1>3, <2>4, PlansStay, TurnsAreCut
  <2>6. Len(briefs'[c]) > Len(briefs[c])
    <3>1. briefs'[c] = Interview!Supersede(briefs[c])
      BY <1>2, <1>11 DEF InterviewInv, BriefsAreFit
    <3>2. Len(briefs[c]) \in Nat
      BY <1>4 DEF VersionsFit
    <3> QED
      BY <1>6, <3>1, <3>2
  <2>7. LeftOpenly
    BY <2>4, <2>6 DEF LeftOpenly
  <2> QED
    BY <1>8, <1>9, <2>4, <2>5, <2>7 DEF InterviewInv
<1> QED
  BY <1>3, <1>10, <1>11

LEMMA InterviewStep == InterviewInv /\ Interview!Next => InterviewInv' /\ LeftOpenly
<1> SUFFICES ASSUME InterviewInv, Interview!Next PROVE InterviewInv' /\ LeftOpenly
  OBVIOUS
<1>1. CASE \E c \in Conversations : Interview!Routes(c)
  BY <1>1, RoutesStep
<1>2. CASE \/ \E c \in Conversations : Interview!BriefRoutes(c)
           \/ \E slot \in {"positioning", "facts"} : Interview!Remember(slot)
  BY <1>2, BriefRoutesStep
<1>3. CASE \E c \in Conversations : Interview!Cuts(c)
  BY <1>3, CutsStep
<1>4. CASE \E q \in Requests : Interview!Turn(q) \/ Interview!Generation(q)
  BY <1>4, AwaitingStep
<1>5. CASE \E q \in Requests : Interview!AnswerCut(q) \/ Interview!BriefCut(q)
  BY <1>5, AnswerCutStep, BriefCutStep
<1> QED
  BY <1>1, <1>2, <1>3, <1>4, <1>5 DEF Interview!Next

LEMMA InterviewInit == Interview!Init => InterviewInv
<1> SUFFICES ASSUME Interview!Init PROVE InterviewInv
  OBVIOUS
<1>1. /\ conv = [c \in Conversations |-> Interview!Absent] /\ messages = [c \in Conversations |-> 0]
      /\ plans = <<>> /\ briefs = [c \in Conversations |-> <<>>] /\ cuts = 0
      /\ turns = [q \in Requests |-> Interview!Idle] /\ held \subseteq Interview!SlotSet
      /\ halted = {}
  BY DEF Interview!Init
<1>2. /\ Interview!Absent \in Interview!ConversationRow /\ Interview!Absent.count = 0
      /\ Interview!Absent.missing = {}
  BY DEF Interview!Absent, Interview!ConversationRow
<1>3. RowsAreFit
  BY <1>1, <1>2 DEF RowsAreFit, RowStands, RowIsFit
<1>4. CountsAreFit
  BY <1>1, <1>2 DEF CountsAreFit
<1>5. PlansAreFit /\ TurnsAreFit
  BY <1>1 DEF PlansAreFit, TurnsAreFit
<1>6. BriefsAreFit
  <2>1. Alive(<<>>) = {} /\ <<>> \in Seq(Interview!BriefStatuses)
    BY DEF Alive
  <2>2. Cardinality(Alive(<<>>)) = 0
    BY <2>1, FS_EmptySet, Zenon
  <2>3. VersionsFit(<<>>, 0)
    BY <2>1, <2>2 DEF VersionsFit
  <2> QED
    BY <1>1, <2>3 DEF BriefsAreFit
<1> QED
  BY <1>1, <1>3, <1>4, <1>5, <1>6 DEF InterviewInv

LEMMA InterviewKeeps ==
    ASSUME InterviewInv
    PROVE  /\ Interview!TypeOK /\ Interview!OneBrief /\ Interview!StageNamesGap
           /\ Interview!CountedMessages /\ Interview!WrittenOnce
<1>0. \A S : Interview!Cardinality(S) = Cardinality(S)
  BY DEF Interview!Cardinality, Cardinality
<1>1. Interview!TypeOK
  <2>1. ASSUME NEW c \in Conversations, NEW v \in DOMAIN briefs[c] PROVE briefs[c][v] \in Interview!BriefStatuses
    BY DEF InterviewInv, BriefsAreFit, VersionsFit
  <2>2. \A p \in DOMAIN plans : plans[p] \in Interview!PlanRow /\ plans[p].conv \in Interview!Created
    BY DEF InterviewInv, PlansAreFit
  <2> QED
    BY <2>1, <2>2 DEF InterviewInv, RowsAreFit, Interview!TypeOK
<1>2. Interview!OneBrief
  BY <1>0 DEF InterviewInv, BriefsAreFit, VersionsFit, Alive, Interview!OneBrief, Interview!Latest
<1>3. Interview!StageNamesGap
  BY DEF InterviewInv, RowsAreFit, RowStands, RowIsFit, Interview!StageNamesGap, Interview!Created
<1>4. Interview!CountedMessages
  BY DEF InterviewInv, CountsAreFit, Interview!CountedMessages
<1>5. Interview!WrittenOnce
  BY TwoEntries DEF InterviewInv, PlansAreFit, PlanFits, Interview!WrittenOnce
<1> QED
  BY <1>1, <1>2, <1>3, <1>4, <1>5

------------------------------------------------------------------------------
(* The health of the system.  Everything in hand is running, and the job at *)
(* work has the heartbeat of its timer as soon as this has ticked.          *)

\* A set of numbers has a first one.
LEMMA LeastExists ==
    ASSUME NEW S \in SUBSET Nat, S # {}
    PROVE  \E m \in S : \A k \in S : m <= k
<1> DEFINE R == {p \in Nat \X Nat : p[1] < p[2]}
<1>1. IsWellFoundedOn(OpToRel(<, Nat), Nat)
  BY NatLessThanWellFounded
<1>2. R \cap (Nat \X Nat) \subseteq OpToRel(<, Nat)
  BY DEF OpToRel
<1>3. IsWellFoundedOn(R, Nat)
  <2> HIDE DEF R
  <2> QED
    BY <1>1, <1>2, IsWellFoundedOnSubrelation
<1>4. PICK m \in S : \A k \in S : <<k, m>> \notin R
  <2> HIDE DEF R
  <2> QED
    BY <1>3, WFMin
<1>5. \A k \in S : ~(k < m)
  BY <1>4
<1> QED
  BY <1>5

\* And a last one when it is bounded.
LEMMA GreatestExists ==
    ASSUME NEW n \in Nat, NEW S \in SUBSET (0 .. n), S # {}
    PROVE  \E m \in S : \A k \in S : k <= m
<1> DEFINE T == {n - k : k \in S}
<1>1. \A k \in S : k \in 0 .. n /\ n - k \in Nat
  OBVIOUS
<1>2. PICK k \in S : n - k \in T
  OBVIOUS
<1>3. T \in SUBSET Nat /\ T # {}
  BY <1>1, <1>2
<1>4. PICK d \in T : \A e \in T : d <= e
  <2> HIDE DEF T
  <2> QED
    BY <1>3, LeastExists
<1>5. PICK m \in S : d = n - m
  BY <1>4
<1>6. \A l \in S : n - m <= n - l
  BY <1>4, <1>5
<1> QED
  BY <1>1, <1>6

\* Every rank of a set of rows is the rank of one of them.
LEMMA RanksAreFilled ==
    ASSUME NEW S \in SUBSET Health!Rows
    PROVE  /\ Cardinality(S) \in Nat
           /\ \A n \in 1 .. Cardinality(S) : \E j \in S : Cardinality({k \in S : k <= j}) = n
<1> DEFINE Below(j) == {k \in S : k <= j}
           n == Cardinality(S)
           f == [j \in S |-> Cardinality(Below(j))]
<1>1. S \in SUBSET Nat /\ IsFiniteSet(S) /\ n \in Nat
  <2>1. Standing \in Nat
    BY EditingAssumption DEF EditingAssumption, Health!HealthAssumption
  <2>2. IsFiniteSet(1 .. Standing) /\ S \in SUBSET (1 .. Standing)
    BY <2>1, FS_Interval DEF Health!Rows
  <2>3. IsFiniteSet(S)
    BY <2>2, FS_Subset
  <2>4. n \in Nat
    BY <2>3, FS_CardinalityType
  <2> QED
    BY <2>2, <2>3, <2>4
<1>2. \A j \in S : IsFiniteSet(Below(j)) /\ Cardinality(Below(j)) \in 1 .. n
  <2> SUFFICES ASSUME NEW j \in S
               PROVE  IsFiniteSet(Below(j)) /\ Cardinality(Below(j)) \in 1 .. n
    OBVIOUS
  <2>1. Below(j) \in SUBSET S /\ j \in Below(j)
    BY <1>1
  <2>2. IsFiniteSet(Below(j)) /\ Cardinality(Below(j)) <= n /\ Cardinality(Below(j)) \in Nat
    BY <1>1, <2>1, FS_Subset, FS_CardinalityType
  <2>3. Cardinality(Below(j)) # 0
    BY <2>1, <2>2, FS_EmptySet
  <2> QED
    BY <1>1, <2>2, <2>3
<1>3. \A j, l \in S : j # l => Cardinality(Below(j)) # Cardinality(Below(l))
  <2>1. ASSUME NEW j \in S, NEW l \in S, j < l PROVE Cardinality(Below(j)) # Cardinality(Below(l))
    <3>1. (\A k \in S : k <= j => k <= l) /\ l <= l /\ ~(l <= j)
      BY <1>1, <2>1
    <3>2. Below(j) \in SUBSET Below(l) /\ l \in Below(l) /\ l \notin Below(j)
      BY <3>1
    <3>3. IsFiniteSet(Below(l))
      BY <1>2
    <3> HIDE DEF Below
    <3> QED
      BY <3>2, <3>3, FS_Subset
  <2>2. \A j, l \in S : j # l => j < l \/ l < j
    BY <1>1
  <2> HIDE DEF Below
  <2> QED
    BY <2>1, <2>2
<1>4. f \in Injection(S, 1 .. n)
  <2> HIDE DEF Below, n
  <2> QED
    BY <1>2, <1>3 DEF Injection, IsInjective
<1>5. IsFiniteSet(1 .. n) /\ Cardinality(1 .. n) = n
  BY <1>1, FS_Interval
<1>6. f \in Surjection(S, 1 .. n)
  <2> HIDE DEF f
  <2> QED
    BY <1>4, <1>5, FS_Injection
<1>7. \A k \in 1 .. n : \E j \in S : f[j] = k
  <2> HIDE DEF f, n
  <2> QED
    BY <1>6 DEF Surjection
<1> QED
  BY <1>1, <1>7

HealthTypes ==
    /\ now \in Nat /\ now <= LastTime /\ since \in Nat
    /\ table \in [Health!Rows -> [status : {"queued", "running", "done"}, beat : Nat]]
    /\ worker \in [alive : BOOLEAN, batch : Seq(Health!Rows), timer : Nat]
    /\ deaths \in Seq(Nat)
    /\ \A j \in Health!Rows : table[j].beat <= now

\* What is in hand is running, and is in hand once.
BatchRuns ==
    /\ \A m, n \in DOMAIN worker.batch : m # n => worker.batch[m] # worker.batch[n]
    /\ \A n \in DOMAIN worker.batch : table[worker.batch[n]].status = "running"

\* The timer of the job at work is on time.
TimerIsOnTime ==
    Health!Working =>
        /\ since <= worker.timer /\ now <= worker.timer + Interval
        /\ worker.timer = since \/ table[Head(worker.batch)].beat = worker.timer

\* Nothing beats once the worker is dead.
DeadIsStill ==
    ~worker.alive =>
        /\ worker.batch = <<>> /\ deaths # <<>>
        /\ \A j \in Health!Rows : table[j].beat <= deaths[Len(deaths)]

HealthInv == HealthTypes /\ BatchRuns /\ TimerIsOnTime /\ DeadIsStill

LEMMA HealthBounds ==
    /\ Standing \in Nat /\ LastTime \in Nat /\ Interval \in Nat \ {0} /\ Silence \in Nat /\ Silence >= Interval
    /\ Lease \in Nat /\ Lease > Silence
BY EditingAssumption DEF EditingAssumption, Health!HealthAssumption

LEMMA HealthInit == Health!Init => HealthInv
<1> SUFFICES ASSUME Health!Init PROVE HealthInv
  OBVIOUS
<1>1. PICK yes \in BOOLEAN : yes = TRUE
  OBVIOUS
<1>2. /\ now = 0 /\ table = [j \in Health!Rows |-> [status |-> "queued", beat |-> 0]]
      /\ worker = [alive |-> yes, batch |-> <<>>, timer |-> 0] /\ since = 0 /\ deaths = <<>>
  BY <1>1 DEF Health!Init
<1>3. HealthTypes
  BY <1>2, HealthBounds DEF HealthTypes
<1>4. BatchRuns /\ TimerIsOnTime /\ DeadIsStill
  BY <1>1, <1>2 DEF BatchRuns, TimerIsOnTime, DeadIsStill, Health!Working
<1> QED
  BY <1>3, <1>4 DEF HealthInv

LEMMA HealthRecords ==
    ASSUME HealthInv
    PROVE  /\ now \in Nat /\ now <= LastTime /\ since \in Nat /\ DOMAIN table = Health!Rows /\ deaths \in Seq(Nat)
           /\ worker.alive \in BOOLEAN /\ worker.batch \in Seq(Health!Rows) /\ worker.timer \in Nat
           /\ \A j \in Health!Rows : /\ table[j].status \in {"queued", "running", "done"}
                                     /\ table[j].beat \in Nat /\ table[j].beat <= now
BY DEF HealthInv, HealthTypes

\* claim: the batch is the claimed rows, in their order.
LEMMA BatchIsClaimed ==
    ASSUME HealthInv
    PROVE  LET claimed == Health!Claimed
               batch == [n \in 1 .. Health!Cardinality(claimed) |->
                            CHOOSE j \in claimed : Health!Cardinality({k \in claimed : k <= j}) = n]
           IN /\ claimed \in SUBSET Health!Rows
              /\ batch \in Seq(Health!Rows) /\ \A n \in DOMAIN batch : batch[n] \in claimed
              /\ \A m, n \in DOMAIN batch : m # n => batch[m] # batch[n]
<1> DEFINE claimed == Health!Claimed
           RankOf(j) == Health!Cardinality({k \in claimed : k <= j})
           total == Health!Cardinality(claimed)
           batch == [n \in 1 .. total |-> CHOOSE j \in claimed : RankOf(j) = n]
<1>0. \A S : Health!Cardinality(S) = Cardinality(S)
  BY DEF Health!Cardinality, Cardinality
<1>1. claimed \in SUBSET Health!Rows
  BY DEF Health!Claimed, Health!Claimable, Health!With, Health!Expired
<1> HIDE DEF claimed
<1>2. total \in Nat /\ \A n \in 1 .. total : \E j \in claimed : RankOf(j) = n
  <2>1. total = Cardinality(claimed) /\ \A j : RankOf(j) = Cardinality({k \in claimed : k <= j})
    BY <1>0, Zenon
  <2>2. /\ Cardinality(claimed) \in Nat
        /\ \A n \in 1 .. Cardinality(claimed) : \E j \in claimed : Cardinality({k \in claimed : k <= j}) = n
    BY <1>1, RanksAreFilled
  <2> HIDE DEF RankOf, total
  <2> QED
    BY <2>1, <2>2
<1> HIDE DEF RankOf, total
<1>3. \A n \in 1 .. total : batch[n] \in claimed /\ RankOf(batch[n]) = n
  BY <1>2
<1>4. DOMAIN batch = 1 .. total
  OBVIOUS
<1>5. batch \in Seq(Health!Rows)
  <2>1. batch \in [1 .. total -> Health!Rows]
    BY <1>1, <1>3
  <2> HIDE DEF batch
  <2> QED
    BY <1>2, <2>1
<1>6. \A m, n \in DOMAIN batch : m # n => batch[m] # batch[n]
  <2> HIDE DEF batch
  <2> QED
    BY <1>3, <1>4
<1> QED
  BY <1>1, <1>3, <1>4, <1>5, <1>6 DEF claimed, RankOf, total

LEMMA HealthStep == HealthInv /\ Health!Next => HealthInv'
<1> SUFFICES ASSUME HealthInv, Health!Next PROVE HealthInv'
  OBVIOUS
<1>0. /\ now \in Nat /\ now <= LastTime /\ since \in Nat /\ DOMAIN table = Health!Rows /\ deaths \in Seq(Nat)
      /\ worker.alive \in BOOLEAN /\ worker.batch \in Seq(Health!Rows) /\ worker.timer \in Nat
      /\ \A j \in Health!Rows : /\ table[j].status \in {"queued", "running", "done"}
                                /\ table[j].beat \in Nat /\ table[j].beat <= now
      /\ worker \in [alive : BOOLEAN, batch : Seq(Health!Rows), timer : Nat]
      /\ table \in [Health!Rows -> [status : {"queued", "running", "done"}, beat : Nat]]
  BY HealthRecords DEF HealthInv, HealthTypes
<1>1. ASSUME Health!Claim PROVE HealthInv'
  <2> DEFINE claimed == Health!Claimed
             batch == [n \in 1 .. Health!Cardinality(claimed) |->
                          CHOOSE j \in claimed : Health!Cardinality({k \in claimed : k <= j}) = n]
  <2>1. /\ claimed \in SUBSET Health!Rows
        /\ batch \in Seq(Health!Rows) /\ \A n \in DOMAIN batch : batch[n] \in claimed
        /\ \A m, n \in DOMAIN batch : m # n => batch[m] # batch[n]
    BY BatchIsClaimed
  <2>2. /\ worker.alive /\ UNCHANGED <<now, deaths>> /\ since' = now
        /\ worker' = [worker EXCEPT !.timer = now, !.batch = batch]
        /\ table' = [j \in Health!Rows |->
             IF j \in claimed THEN [status |-> "running", beat |-> now]
             ELSE IF j \in Health!Expired THEN [table[j] EXCEPT !.status = "queued"] ELSE table[j]]
    BY <1>1 DEF Health!Claim
  <2> HIDE DEF claimed, batch
  <2>3. worker' \in [alive : BOOLEAN, batch : Seq(Health!Rows), timer : Nat]
        /\ worker'.alive /\ worker'.batch = batch /\ worker'.timer = now
    BY <1>0, <2>1, <2>2
  <2>4. ASSUME NEW j \in Health!Rows
        PROVE  /\ table'[j] \in [status : {"queued", "running", "done"}, beat : Nat]
               /\ table'[j].beat <= now
               /\ j \in claimed => table'[j].status = "running" /\ table'[j].beat = now
    <3>1. CASE j \in claimed
      <4>1. table'[j] = [status |-> "running", beat |-> now]
        BY <2>2, <3>1
      <4> QED
        BY <1>0, <4>1
    <3>2. CASE j \notin claimed /\ j \in Health!Expired
      <4>1. table'[j] = [table[j] EXCEPT !.status = "queued"]
        BY <2>2, <3>2
      <4>2. table[j] \in [status : {"queued", "running", "done"}, beat : Nat] /\ table[j].beat <= now
        BY <1>0
      <4> QED
        BY <3>2, <4>1, <4>2
    <3>3. CASE j \notin claimed /\ j \notin Health!Expired
      <4>1. table'[j] = table[j]
        BY <2>2, <3>3
      <4> QED
        BY <1>0, <3>3, <4>1
    <3> QED
      BY <3>1, <3>2, <3>3
  <2>5. HealthTypes'
    BY <1>0, <2>2, <2>3, <2>4 DEF HealthTypes
  <2>6. BatchRuns'
    BY <2>1, <2>3, <2>4 DEF BatchRuns
  <2>7. TimerIsOnTime'
    BY <1>0, <2>2, <2>3, HealthBounds DEF TimerIsOnTime
  <2>8. DeadIsStill'
    BY <2>3 DEF DeadIsStill
  <2> QED
    BY <2>5, <2>6, <2>7, <2>8 DEF HealthInv
<1>2. ASSUME Health!Beat PROVE HealthInv'
  <2> DEFINE h == Head(worker.batch)
  <2>1. /\ worker.alive /\ worker.batch # <<>> /\ UNCHANGED <<now, since, deaths>>
        /\ table' = [table EXCEPT ![h].beat = now] /\ worker' = [worker EXCEPT !.timer = now]
    BY <1>2 DEF Health!Beat, Health!Working
  <2>2. h \in Health!Rows
    BY <1>0, <2>1
  <2> HIDE DEF h
  <2>3. /\ worker' \in [alive : BOOLEAN, batch : Seq(Health!Rows), timer : Nat]
        /\ worker'.alive /\ worker'.batch = worker.batch /\ worker'.timer = now
    BY <1>0, <2>1
  <2>4. /\ table' \in [Health!Rows -> [status : {"queued", "running", "done"}, beat : Nat]]
        /\ table'[h].beat = now
        /\ \A j \in Health!Rows : table'[j].beat <= now /\ table'[j].status = table[j].status
    BY <1>0, <2>1, <2>2
  <2>5. HealthTypes'
    BY <1>0, <2>1, <2>3, <2>4 DEF HealthTypes
  <2>6. BatchRuns'
    BY <1>0, <2>3, <2>4 DEF HealthInv, BatchRuns
  <2>7. TimerIsOnTime'
    <3>1. since <= worker.timer /\ worker.timer <= now
      BY <1>0, <1>2, HealthBounds DEF Health!Beat, HealthInv, TimerIsOnTime
    <3> QED
      BY <1>0, <2>1, <2>3, <2>4, <3>1, HealthBounds DEF TimerIsOnTime, h
  <2>8. DeadIsStill'
    BY <2>3 DEF DeadIsStill
  <2> QED
    BY <2>5, <2>6, <2>7, <2>8 DEF HealthInv
<1>3. ASSUME Health!Finish PROVE HealthInv'
  <2> DEFINE h == Head(worker.batch)
  <2>1. /\ worker.alive /\ worker.batch # <<>> /\ UNCHANGED <<now, deaths>> /\ since' = now
        /\ table' = [table EXCEPT ![h].status = "done"]
        /\ worker' = [worker EXCEPT !.batch = Tail(@), !.timer = now]
    BY <1>3 DEF Health!Finish, Health!Working
  <2>2. /\ h \in Health!Rows /\ h = worker.batch[1] /\ Tail(worker.batch) \in Seq(Health!Rows)
        /\ 1 \in DOMAIN worker.batch
        /\ \A n \in DOMAIN Tail(worker.batch) :
             n + 1 \in DOMAIN worker.batch /\ n + 1 # 1 /\ Tail(worker.batch)[n] = worker.batch[n + 1]
        /\ \A n \in DOMAIN Tail(worker.batch) : n \in Int
    BY <1>0, <2>1
  <2> HIDE DEF h
  <2>3. /\ worker' \in [alive : BOOLEAN, batch : Seq(Health!Rows), timer : Nat]
        /\ worker'.alive /\ worker'.batch = Tail(worker.batch) /\ worker'.timer = now
    BY <1>0, <2>1, <2>2
  <2>4. /\ table' \in [Health!Rows -> [status : {"queued", "running", "done"}, beat : Nat]]
        /\ \A j \in Health!Rows : /\ table'[j].beat <= now
                                  /\ j # h => table'[j].status = table[j].status
    BY <1>0, <2>1, <2>2
  <2>5. HealthTypes'
    BY <1>0, <2>1, <2>3, <2>4 DEF HealthTypes
  <2>6. BatchRuns'
    <3>1. ASSUME NEW n \in DOMAIN Tail(worker.batch)
          PROVE  table'[Tail(worker.batch)[n]].status = "running"
      <4>1. /\ Tail(worker.batch)[n] = worker.batch[n + 1] /\ worker.batch[n + 1] # h
            /\ table[worker.batch[n + 1]].status = "running" /\ worker.batch[n + 1] \in Health!Rows
        BY <1>0, <2>2 DEF HealthInv, BatchRuns
      <4> QED
        BY <2>4, <4>1
    <3>2. \A m, n \in DOMAIN Tail(worker.batch) : m # n => Tail(worker.batch)[m] # Tail(worker.batch)[n]
      <4>1. \A m, n \in DOMAIN Tail(worker.batch) : m # n => m + 1 # n + 1
        BY <2>2
      <4> QED
        BY <2>2, <4>1 DEF HealthInv, BatchRuns
    <3> QED
      BY <2>3, <3>1, <3>2 DEF BatchRuns
  <2>7. TimerIsOnTime'
    BY <1>0, <2>1, <2>3, HealthBounds DEF TimerIsOnTime
  <2>8. DeadIsStill'
    BY <2>3 DEF DeadIsStill
  <2> QED
    BY <2>5, <2>6, <2>7, <2>8 DEF HealthInv
<1>4. ASSUME Health!Die PROVE HealthInv'
  <2>1. PICK no \in BOOLEAN : no = FALSE
    OBVIOUS
  <2>0. PICK none \in Seq(Health!Rows) : none = <<>>
    <3>1. <<>> \in Seq(Health!Rows)
      OBVIOUS
    <3> QED
      BY <3>1
  <2>2. /\ UNCHANGED <<now, table, since>> /\ deaths' = Append(deaths, now)
        /\ worker' = [worker EXCEPT !.alive = no, !.batch = none]
    BY <1>4, <2>0, <2>1 DEF Health!Die
  <2>3. /\ worker' \in [alive : BOOLEAN, batch : Seq(Health!Rows), timer : Nat]
        /\ worker'.alive = no /\ worker'.batch = none
    BY <1>0, <2>2
  <2>4. deaths' \in Seq(Nat) /\ deaths' # <<>> /\ deaths'[Len(deaths')] = now
    <3>1. deaths' \in Seq(Nat) /\ Len(deaths') = Len(deaths) + 1 /\ Len(deaths) \in Nat
      BY <1>0, <2>2
    <3>2. deaths'[Len(deaths) + 1] = now
      BY <1>0, <2>2
    <3> QED
      BY <3>1, <3>2
  <2>5. HealthTypes'
    BY <1>0, <2>2, <2>3, <2>4 DEF HealthTypes
  <2>6. BatchRuns' /\ TimerIsOnTime'
    BY <2>0, <2>3 DEF BatchRuns, TimerIsOnTime, Health!Working
  <2>7. DeadIsStill'
    BY <1>0, <2>0, <2>2, <2>3, <2>4 DEF DeadIsStill
  <2> QED
    BY <2>5, <2>6, <2>7 DEF HealthInv
<1>5. ASSUME Health!Restart PROVE HealthInv'
  <2>1. PICK yes \in BOOLEAN : yes = TRUE
    OBVIOUS
  <2>2. /\ UNCHANGED <<now, table, since, deaths>> /\ ~worker.alive
        /\ worker' = [worker EXCEPT !.alive = yes, !.timer = now]
    BY <1>5, <2>1 DEF Health!Restart
  <2>3. /\ worker' \in [alive : BOOLEAN, batch : Seq(Health!Rows), timer : Nat]
        /\ worker'.alive /\ worker'.batch = worker.batch
    BY <1>0, <2>1, <2>2
  <2>4. worker.batch = <<>>
    BY <2>2 DEF HealthInv, DeadIsStill
  <2>5. HealthTypes'
    BY <1>0, <2>2, <2>3 DEF HealthTypes
  <2>6. BatchRuns' /\ TimerIsOnTime' /\ DeadIsStill'
    BY <2>3, <2>4 DEF BatchRuns, TimerIsOnTime, DeadIsStill, Health!Working
  <2> QED
    BY <2>5, <2>6 DEF HealthInv
<1>6. ASSUME Health!Tick PROVE HealthInv'
  <2>1. /\ UNCHANGED <<table, worker, since, deaths>> /\ now' = now + 1 /\ now < LastTime
        /\ Health!Working => now < worker.timer + Interval
    BY <1>6 DEF Health!Tick
  <2>2. HealthTypes'
    BY <1>0, <2>1, HealthBounds DEF HealthTypes
  <2>3. BatchRuns' /\ DeadIsStill'
    BY <2>1 DEF HealthInv, BatchRuns, DeadIsStill
  <2>4. TimerIsOnTime'
    BY <1>0, <2>1, HealthBounds DEF HealthInv, TimerIsOnTime, Health!Working
  <2> QED
    BY <2>2, <2>3, <2>4 DEF HealthInv
<1> QED
  BY <1>1, <1>2, <1>3, <1>4, <1>5, <1>6 DEF Health!Next

\* The latest heartbeat is one of them, and none is later.
LEMMA LatestIsLatest ==
    ASSUME HealthInv, Health!Beats # {}
    PROVE  Health!Latest \in Health!Beats /\ \A beat \in Health!Beats : beat <= Health!Latest
<1>1. Health!Beats \in SUBSET (0 .. now) /\ now \in Nat
  BY HealthRecords DEF Health!Beats, Health!With
<1>2. \E beat \in Health!Beats : \A other \in Health!Beats : other <= beat
  BY <1>1, GreatestExists
<1> QED
  BY <1>2 DEF Health!Latest

LEMMA HealthKeeps ==
    ASSUME HealthInv
    PROVE  Health!TypeOK /\ Health!BusyIsShown /\ Health!DeathIsShown
<1>0. /\ now \in Nat /\ now <= LastTime /\ since \in Nat /\ DOMAIN table = Health!Rows /\ deaths \in Seq(Nat)
      /\ worker.alive \in BOOLEAN /\ worker.batch \in Seq(Health!Rows) /\ worker.timer \in Nat
      /\ \A j \in Health!Rows : /\ table[j].status \in {"queued", "running", "done"}
                                /\ table[j].beat \in Nat /\ table[j].beat <= now
  BY HealthRecords
<1>1. Health!TypeOK
  <2>1. ASSUME NEW j \in Health!Rows PROVE table[j] \in [status : {"queued", "running", "done"}, beat : 0 .. LastTime]
    <3>1. table[j] \in [status : {"queued", "running", "done"}, beat : Nat] /\ table[j].beat \in 0 .. LastTime
      BY <1>0, HealthBounds DEF HealthInv, HealthTypes
    <3> QED
      BY <3>1
  <2>2. table \in [Health!Rows -> [status : {"queued", "running", "done"}, beat : 0 .. LastTime]]
    BY <2>1 DEF HealthInv, HealthTypes
  <2> QED
    BY <1>0, <2>2, HealthBounds DEF Health!TypeOK
<1>2. Health!BusyIsShown
  <2> SUFFICES ASSUME Health!Working, now - since > Interval PROVE Health!WorkerActive
    BY DEF Health!BusyIsShown
  <2> DEFINE h == Head(worker.batch)
  <2>1. h \in Health!Rows /\ h = worker.batch[1] /\ 1 \in DOMAIN worker.batch
    BY <1>0 DEF Health!Working
  <2>2. table[h].status = "running"
    BY <2>1 DEF HealthInv, BatchRuns
  <2>3. /\ since <= worker.timer /\ now <= worker.timer + Interval
        /\ worker.timer = since \/ table[h].beat = worker.timer
    BY DEF HealthInv, TimerIsOnTime
  <2>4. table[h].beat = worker.timer
    BY <1>0, <2>3, HealthBounds
  <2> HIDE DEF h
  <2>5. table[h].beat \in Health!Beats
    BY <2>1, <2>2 DEF Health!Beats, Health!With
  <2>6. Health!Latest \in Health!Beats /\ table[h].beat <= Health!Latest
    BY <2>5, LatestIsLatest
  <2>7. Health!Latest \in Nat
    BY <1>0, <2>6 DEF Health!Beats, Health!With
  <2>8. now - Health!Latest <= Silence
    BY <1>0, <2>3, <2>4, <2>6, <2>7, HealthBounds
  <2> QED
    BY <2>5, <2>8 DEF Health!WorkerActive
<1>3. Health!DeathIsShown
  <2> SUFFICES ASSUME ~worker.alive, now - deaths[Len(deaths)] > Silence, Health!WorkerActive PROVE FALSE
    BY DEF Health!DeathIsShown
  <2>1. Health!Latest \in Health!Beats /\ now - Health!Latest <= Silence
    BY LatestIsLatest DEF Health!WorkerActive
  <2>2. /\ deaths # <<>> /\ \A j \in Health!Rows : table[j].beat <= deaths[Len(deaths)]
    BY DEF HealthInv, DeadIsStill
  <2>3. deaths[Len(deaths)] \in Nat
    BY <1>0, <2>2
  <2>4. Health!Latest \in Nat /\ Health!Latest <= deaths[Len(deaths)]
    BY <1>0, <2>1, <2>2 DEF Health!Beats, Health!With
  <2> QED
    BY <1>0, <2>1, <2>3, <2>4, HealthBounds
<1> QED
  BY <1>1, <1>2, <1>3

\* A limit that is not reached leaves something, and its ratio says so.
LEMMA RatioOfLimit ==
    ASSUME NEW limit \in Nat \ {0}, NEW spending \in Nat
    PROVE  /\ (100 * spending) \div limit \in Int
           /\ (100 * spending) \div limit < 100 <=> spending < limit
<1> DEFINE q == (100 * spending) \div limit
           r == (100 * spending) % limit
<1>1. q \in Int /\ r \in 0 .. limit - 1 /\ 100 * spending = limit * q + r
  OBVIOUS
<1> HIDE DEF q, r
<1>2. ASSUME q < 100 PROVE spending < limit
  <2>1. limit * q <= limit * 99
    <3>1. limit * (99 - q) >= 0
      BY <1>1, <1>2
    <3> QED
      BY <1>1, <3>1
  <2> QED
    BY <1>1, <2>1
<1>3. ASSUME spending < limit PROVE q < 100
  <2> SUFFICES ASSUME q >= 100 PROVE FALSE
    BY <1>1
  <2>1. limit * (q - 100) >= 0
    BY <1>1
  <2>2. limit * q >= limit * 100
    BY <1>1, <2>1
  <2> QED
    BY <1>1, <1>3, <2>2
<1> QED
  BY <1>1, <1>2, <1>3 DEF q

LEMMA BudgetOfSums ==
    ASSUME NEW spending, spending.day \in Nat, spending.month \in Nat
    PROVE  /\ Health!BudgetState(spending) = "hard_stop" <=> Health!Remaining(spending) = 0
           /\ Health!Remaining(spending) \in Nat
<1>0. DailyMax \in Nat \ {0} /\ MonthlyMax \in Nat \ {0}
  BY EditingAssumption DEF EditingAssumption, Health!HealthAssumption
<1>1. PICK day \in Int : day = (100 * spending.day) \div DailyMax /\ (day < 100 <=> spending.day < DailyMax)
  BY <1>0, RatioOfLimit
<1>2. PICK month \in Int :
        month = (100 * spending.month) \div MonthlyMax /\ (month < 100 <=> spending.month < MonthlyMax)
  BY <1>0, RatioOfLimit
<1>3. PICK worst \in Int : worst = (IF day >= month THEN day ELSE month)
  OBVIOUS
<1>4. Health!BudgetState(spending) = Health!StateFromRatio(worst)
  BY <1>1, <1>2, <1>3 DEF Health!BudgetState
<1>5. Health!StateFromRatio(worst) = "hard_stop" <=> worst >= 100
  BY DEF Health!StateFromRatio
<1>6. worst >= 100 <=> day >= 100 \/ month >= 100
  BY <1>3
<1>7. Health!BudgetState(spending) = "hard_stop" <=> ~(spending.day < DailyMax) \/ ~(spending.month < MonthlyMax)
  BY <1>1, <1>2, <1>4, <1>5, <1>6
<1>8. PICK left \in Nat : left = IF spending.day < DailyMax THEN DailyMax - spending.day ELSE 0
  BY <1>0
<1>9. PICK rest \in Nat : rest = IF spending.month < MonthlyMax THEN MonthlyMax - spending.month ELSE 0
  BY <1>0
<1>10. Health!Remaining(spending)
         = IF Health!BudgetState(spending) = "hard_stop" THEN 0 ELSE IF left < rest THEN left ELSE rest
  BY <1>8, <1>9 DEF Health!Remaining
<1> QED
  BY <1>0, <1>7, <1>8, <1>9, <1>10

\* What is found of a system, at any cost.
LEMMA StatusOfFindings ==
    ASSUME NEW found, found.tables \in BOOLEAN, found.secret \in BOOLEAN, found.active \in BOOLEAN,
           found.sums.day \in Nat, found.sums.month \in Nat
    PROVE  Health!StatusIsTrue(found)
<1> DEFINE budget == Health!BudgetState(found.sums)
           statuses == {check[2] : check \in Health!Checks(found)}
<1>1. (budget = "hard_stop" <=> Health!Remaining(found.sums) = 0) /\ Health!Remaining(found.sums) \in Nat
  BY BudgetOfSums
<1>2. "error" \in statuses <=> ~found.tables \/ ~found.secret \/ budget = "hard_stop"
  <2>1. ASSUME ~found.tables \/ ~found.secret \/ budget = "hard_stop" PROVE "error" \in statuses
    <3>1. CASE ~found.tables
      <4>1. <<"database", "error">> \in Health!Checks(found)
        BY <3>1 DEF Health!Checks
      <4> QED
        BY <4>1
    <3>2. CASE ~found.secret
      <4>1. <<"secrets", "error">> \in Health!Checks(found)
        BY <3>2 DEF Health!Checks
      <4> QED
        BY <4>1
    <3>3. CASE budget = "hard_stop"
      <4>1. <<"budget", "error">> \in Health!Checks(found)
        BY <3>3 DEF Health!Checks
      <4> QED
        BY <4>1
    <3> QED
      BY <2>1, <3>1, <3>2, <3>3
  <2>2. ASSUME found.tables, found.secret, budget # "hard_stop" PROVE "error" \notin statuses
    BY <2>2 DEF Health!Checks
  <2> QED
    BY <2>1, <2>2
<1>3. ~found.active => "warn" \in statuses
  <2> SUFFICES ASSUME ~found.active PROVE "warn" \in statuses
    OBVIOUS
  <2>1. <<"worker", "warn">> \in Health!Checks(found)
    BY DEF Health!Checks
  <2> QED
    BY <2>1
<1>4. Health!Status(found) = IF "error" \in statuses THEN "blocked"
                             ELSE IF "warn" \in statuses THEN "degraded" ELSE "ok"
  BY DEF Health!Status
<1> HIDE DEF budget, statuses
<1>5. Health!Status(found) = "blocked" <=> "error" \in statuses
  BY <1>4
<1>6. Health!Status(found) = "ok" => "warn" \notin statuses /\ "error" \notin statuses
  BY <1>4
<1> QED
  BY <1>1, <1>2, <1>3, <1>5, <1>6 DEF Health!StatusIsTrue

------------------------------------------------------------------------------
(* The input of the rules: one of them, that no step changes.              *)

InputInv ==
    /\ input.kind \in {"none", "edit", "target", "score", "facts", "clip", "brake", "health", "range",
                       "level", "request", "bytes", "film", "progress", "period", "answer"}
    /\ input.kind = "health" => input \in Findings

LEMMA InputInit == Init => InputInv
<1> SUFFICES ASSUME Init PROVE InputInv
  OBVIOUS
<1>1. CASE part # "rules"
  BY <1>1 DEF Init, InputInv
<1>2. CASE part = "rules"
  <2>1. Inputs
    BY <1>2 DEF Init
  <2>2. /\ input \in Accounts => input.kind = "level"
        /\ input \in Posts => input.kind = "request"
        /\ input \in FirstBytes => input.kind = "bytes"
    BY DEF Accounts, Posts, FirstBytes
  <2>3. /\ input \in Probed => input.kind = "film"
        /\ input \in Blocks => input.kind = "progress"
        /\ input \in Edits => input.kind = "edit"
        /\ input \in Targets => input.kind = "target"
    BY DEF Probed, Blocks, Edits, Targets
  <2>4. input \in Scores => input.kind = "score"
    BY DEF Scores
  <2>5. /\ input \in Selections => input.kind = "facts"
        /\ input \in Clips => input.kind = "clip"
    BY DEF Selections, Clips
  <2>6. /\ input \in Ranges => input.kind = "range"
        /\ input \in Brakes => input.kind = "brake"
    BY DEF Ranges, Brakes
  <2>7. /\ input \in Instants => input.kind = "period"
        /\ input \in Answers => input.kind = "answer"
    BY DEF Instants, Answers
  <2>8. input \in Findings => input.kind = "health"
    BY DEF Findings
  <2> QED
    BY <2>1, <2>2, <2>3, <2>4, <2>5, <2>6, <2>7, <2>8 DEF Inputs, InputInv
<1> QED
  BY <1>1, <1>2

LEMMA FindingsHold ==
    ASSUME InputInv
    PROVE  input.kind = "health" => Health!StatusIsTrue(input)
<1> SUFFICES ASSUME input.kind = "health" PROVE Health!StatusIsTrue(input)
  OBVIOUS
<1>1. input \in Findings
  BY DEF InputInv
<1>2. /\ input.tables \in BOOLEAN /\ input.secret \in BOOLEAN /\ input.active \in BOOLEAN
      /\ input.sums \in [day : {0, 16, 19, 20, 21}, month : {0, 32, 38, 40, 41}]
  BY <1>1 DEF Findings
<1>3. input.sums.day \in Nat /\ input.sums.month \in Nat
  BY <1>2
<1> QED
  BY <1>2, <1>3, StatusOfFindings
------------------------------------------------------------------------------
(* Accounts and publication by hand.  While no process died, the content   *)
(* says itself whether a package of it was posted.                         *)

HandRow == [place : {"p1", "p2"}, remote : {"x"} \cup {Unsaid}]

HandTypes ==
    /\ accounts \in Seq(HandRow) /\ Len(accounts) <= MaxAccounts
    /\ preferred \in [{"p1", "p2"} -> 0 .. Len(accounts)]
    /\ state \in Hand!ContentState /\ head \in Hand!Versions /\ approved \in {0} \cup Hand!Versions
    /\ authored \in Hand!Versions /\ drafting \subseteq Hand!CopyRow /\ overtaken \in BOOLEAN
    /\ packages \subseteq Hand!Versions
    /\ building \in [Senders -> {0} \cup Hand!Versions]
    /\ published \subseteq Hand!Versions \X DOMAIN accounts
    /\ falls \in 0 .. MaxFalls

PostedOnItsPlace == \A row \in published : accounts[row[2]].place = "p1"

PostedIsShown ==
    falls = 0 /\ ~overtaken /\ published # {} =>
        /\ state \in {"published", "archived"}
        /\ \E row \in published : published = {row} /\ row[1] = approved

HandInv == HandTypes /\ Hand!DefaultIsTheLast /\ PostedOnItsPlace /\ PostedIsShown

LEMMA HandBounds ==
    MaxAccounts \in Nat /\ MaxVersions \in Nat \ {0} /\ MaxFalls \in Nat /\ Hand!Versions = 1 .. MaxVersions
BY EditingAssumption DEF Hand!AccountsAssumption, Hand!Versions

LEMMA HandInit == Hand!Init => HandInv
<1> SUFFICES ASSUME Hand!Init PROVE HandInv
  OBVIOUS
<1>1. accounts \in Seq(HandRow) /\ DOMAIN accounts = {} /\ Len(accounts) = 0
  BY DEF Hand!Init
<1>2. drafting \subseteq Hand!CopyRow
  <2> DEFINE first == [state |-> "draft", current |-> 0, approved |-> FALSE,
                       generation |-> "initial", version |-> 0]
  <2>1. first \in Hand!CopyRow
    BY DEF Hand!CopyRow, Hand!ContentState
  <2>2. drafting = {} \/ drafting = {first}
    BY DEF Hand!Init
  <2> HIDE DEF first
  <2> QED
    BY <2>1, <2>2
<1>3. /\ preferred \in [{"p1", "p2"} -> {0}]
      /\ building \in [Senders -> {0}]
      /\ published = {} /\ packages = {} /\ falls = 0 /\ overtaken = FALSE
      /\ state = "in_review" /\ head = 1 /\ approved = 0 /\ authored = 1
  BY DEF Hand!Init
<1>4. HandTypes
  <2>1. state \in Hand!ContentState
    BY <1>3 DEF Hand!ContentState
  <2>2. 1 \in Hand!Versions
    BY HandBounds
  <2>3. /\ preferred \in [{"p1", "p2"} -> 0 .. Len(accounts)]
        /\ building \in [Senders -> {0} \cup Hand!Versions]
    BY <1>1, <1>3
  <2>4. falls \in 0 .. MaxFalls /\ Len(accounts) <= MaxAccounts
    BY <1>1, <1>3, HandBounds
  <2> QED
    BY <1>1, <1>2, <1>3, <2>1, <2>2, <2>3, <2>4 DEF HandTypes
<1> QED
  BY <1>1, <1>3, <1>4 DEF HandInv, Hand!DefaultIsTheLast, PostedOnItsPlace, PostedIsShown

\* A row is added at the end of platform_accounts: those that were there keep
\* their number.
LEMMA AccountAdded ==
    ASSUME HandInv, NEW p \in {"p1", "p2"}, NEW i \in {"x"} \cup {Unsaid}, Len(accounts) < MaxAccounts,
           accounts' = Append(accounts, [place |-> p, remote |-> i])
    PROVE  /\ accounts' \in Seq(HandRow) /\ Len(accounts') = Len(accounts) + 1 /\ Len(accounts') <= MaxAccounts
           /\ DOMAIN accounts' = DOMAIN accounts \cup {Len(accounts) + 1} /\ Len(accounts) \in Nat
           /\ DOMAIN accounts = 1 .. Len(accounts)
           /\ accounts'[Len(accounts) + 1].place = p
           /\ \A n \in DOMAIN accounts : accounts'[n] = accounts[n]
BY HandBounds DEF HandInv, HandTypes, HandRow

LEMMA AccountCreated ==
    ASSUME HandInv, NEW p \in {"p1", "p2"}, NEW i \in {"x"} \cup {Unsaid},
           Hand!CreateAccount(p, i) \/ Hand!CreateHalf(p, i)
    PROVE  HandInv'
<1>0. /\ Len(accounts) < MaxAccounts
      /\ accounts' = Append(accounts, [place |-> p, remote |-> i])
      /\ UNCHANGED <<state, head, approved, authored, drafting, overtaken, packages, published>>
      /\ \/ preferred' = [preferred EXCEPT ![p] = Len(accounts) + 1] /\ UNCHANGED <<building, falls>>
         \/ /\ UNCHANGED preferred /\ falls < MaxFalls /\ falls' = falls + 1
            /\ building' = [r \in Senders |-> 0]
  BY DEF Hand!CreateAccount, Hand!CreateHalf, Hand!Preferred, Hand!itemVars, Hand!rowVars, Hand!workVars
<1>1. /\ accounts' \in Seq(HandRow) /\ Len(accounts') = Len(accounts) + 1 /\ Len(accounts') <= MaxAccounts
      /\ DOMAIN accounts' = DOMAIN accounts \cup {Len(accounts) + 1} /\ Len(accounts) \in Nat
      /\ DOMAIN accounts = 1 .. Len(accounts)
      /\ accounts'[Len(accounts) + 1].place = p
      /\ \A n \in DOMAIN accounts : accounts'[n] = accounts[n]
  BY <1>0, AccountAdded
<1>2. /\ preferred \in [{"p1", "p2"} -> 0 .. Len(accounts)] /\ falls \in Nat
      /\ published \subseteq Hand!Versions \X DOMAIN accounts
  BY HandBounds DEF HandInv, HandTypes
<1>3. HandTypes'
  <2>1. preferred' \in [{"p1", "p2"} -> 0 .. Len(accounts')]
    BY <1>0, <1>1, <1>2
  <2>2. published' \subseteq Hand!Versions \X DOMAIN accounts'
    BY <1>0, <1>1, <1>2
  <2> QED
    BY <1>0, <1>1, <1>2, <2>1, <2>2, HandBounds DEF HandInv, HandTypes
<1>4. Hand!DefaultIsTheLast'
  <2> SUFFICES ASSUME NEW q \in {"p1", "p2"}
               PROVE  /\ preferred'[q] # 0 => preferred'[q] \in DOMAIN accounts' /\ accounts'[preferred'[q]].place = q
                      /\ falls' = 0 => \A n \in DOMAIN accounts' : accounts'[n].place = q => n <= preferred'[q]
    BY DEF Hand!DefaultIsTheLast
  <2>1. /\ preferred[q] # 0 => preferred[q] \in DOMAIN accounts /\ accounts[preferred[q]].place = q
        /\ falls = 0 => \A n \in DOMAIN accounts : accounts[n].place = q => n <= preferred[q]
    BY DEF HandInv, Hand!DefaultIsTheLast
  <2>2. CASE UNCHANGED preferred /\ falls' = falls + 1
    BY <1>1, <1>2, <2>1, <2>2
  <2>3. CASE preferred' = [preferred EXCEPT ![p] = Len(accounts) + 1] /\ falls' = falls /\ p = q
    <3>1. preferred'[q] = Len(accounts) + 1
      BY <1>2, <2>3
    <3> QED
      BY <1>1, <1>2, <2>3, <3>1
  <2>4. CASE preferred' = [preferred EXCEPT ![p] = Len(accounts) + 1] /\ falls' = falls /\ p # q
    <3>1. preferred'[q] = preferred[q]
      BY <1>2, <2>4
    <3> QED
      BY <1>1, <1>2, <2>1, <2>4, <3>1
  <2> QED
    BY <1>0, <2>2, <2>3, <2>4
<1>5. PostedOnItsPlace'
  BY <1>0, <1>1, <1>2 DEF HandInv, PostedOnItsPlace
<1>6. PostedIsShown'
  BY <1>0, <1>2 DEF HandInv, PostedIsShown
<1> QED
  BY <1>3, <1>4, <1>5, <1>6 DEF HandInv

\* A rewriting leads back to a reader, and is refused to what is published.
LEMMA RewritingLeads ==
    ASSUME NEW copy \in Hand!CopyRow
    PROVE  /\ Hand!Leads(copy) \in {"generated", "in_review"}
           /\ Hand!MayRecord(copy) => copy.state \notin {"published", "archived"}
<1>1. Hand!Leads(copy) \in {"generated", "in_review"}
  BY DEF Hand!Leads, Hand!AfterRewrite
<1>2. PICK to : to = Hand!Leads(copy)
  OBVIOUS
<1>3. PICK from : from = copy.state
  OBVIOUS
<1>4. from \in {"published", "archived"} => ~Hand!MayAdvance(from, to)
  BY <1>1, <1>2 DEF Hand!MayAdvance, Hand!MayMove, Hand!Transitions
<1> QED
  BY <1>1, <1>2, <1>3, <1>4 DEF Hand!MayRecord

\* What a run reads is a copy of the content.
LEMMA CopyIsTyped ==
    ASSUME HandTypes
    PROVE  /\ Hand!CopyOf("regenerated") \in Hand!CopyRow
           /\ Hand!CopyOf("regenerated").state = state
BY DEF HandTypes, Hand!CopyOf, Hand!CopyRow

\* A row that is written from a copy, whole or in part, keeps its types.
LEMMA RowIsWrittenFrom ==
    ASSUME HandTypes, NEW copy \in Hand!CopyRow, NEW v \in Hand!Versions, Hand!Advanced(copy),
           Hand!Columns(copy, v) \/ UNCHANGED <<head, approved>>
    PROVE  state' \in Hand!ContentState /\ head' \in Hand!Versions /\ approved' \in {0} \cup Hand!Versions
<1>1. state' \in Hand!ContentState
  <2>1. state' = state \/ state' = Hand!Leads(copy)
    BY DEF Hand!Advanced
  <2> QED
    BY <2>1, RewritingLeads DEF HandTypes, Hand!ContentState
<1>2. head' \in Hand!Versions /\ approved' \in {0} \cup Hand!Versions
  BY DEF Hand!Columns, HandTypes
<1> QED
  BY <1>1, <1>2

\* A content that was posted leaves its state for the archive only, unless the
\* API dies.
LEMMA ContentMoves ==
    ASSUME HandInv, Hand!Edit \/ Hand!EditHalf \/ Hand!Approve \/ Hand!Archive
    PROVE  HandInv'
<1>0. /\ UNCHANGED <<accounts, preferred, drafting, overtaken, packages, published>>
      /\ \/ UNCHANGED <<building, falls>>
         \/ Hand!EditHalf /\ falls' = falls + 1 /\ falls < MaxFalls /\ building' = [r \in Senders |-> 0]
  BY DEF Hand!Edit, Hand!EditHalf, Hand!Approve, Hand!Archive, Hand!workVars
<1>1. PICK copy \in Hand!CopyRow : copy = Hand!CopyOf("regenerated") /\ copy.state = state
  BY CopyIsTyped DEF HandInv
<1>2. /\ state' \in Hand!ContentState /\ head' \in Hand!Versions /\ approved' \in {0} \cup Hand!Versions
      /\ authored' \in Hand!Versions
  <2>1. CASE Hand!Edit \/ Hand!EditHalf
    <3>1. authored + 1 \in Hand!Versions /\ authored' = authored + 1
      BY <2>1, HandBounds DEF Hand!Edit, Hand!EditHalf, HandInv, HandTypes
    <3>2. \/ UNCHANGED <<state, head, approved>>
          \/ /\ Hand!Advanced(copy)
             /\ Hand!Columns(copy, authored + 1) \/ UNCHANGED <<head, approved>>
      BY <1>1, <2>1 DEF Hand!Edit, Hand!EditHalf, Hand!rowVars
    <3> QED
      BY <3>1, <3>2, RowIsWrittenFrom DEF HandInv, HandTypes
  <2>2. CASE Hand!Approve \/ Hand!Archive
    BY <2>2 DEF Hand!Approve, Hand!Archive, HandInv, HandTypes, Hand!ContentState
  <2> QED
    BY <2>1, <2>2
<1>3. falls' = falls /\ state \in {"published", "archived"} =>
         state' \in {"published", "archived"} /\ approved' = approved
  <2>1. CASE Hand!Edit
    BY <1>1, <2>1, RewritingLeads DEF Hand!Edit, Hand!rowVars
  <2>2. CASE Hand!EditHalf
    BY <2>2, HandBounds DEF Hand!EditHalf, HandInv, HandTypes
  <2>3. CASE Hand!Approve \/ Hand!Archive
    BY <2>3 DEF Hand!Approve, Hand!Archive, Hand!MayMove, Hand!Transitions
  <2> QED
    BY <2>1, <2>2, <2>3
<1>4. HandTypes' /\ Hand!DefaultIsTheLast' /\ PostedOnItsPlace'
  <2>1. HandTypes'
    BY <1>0, <1>2, HandBounds DEF HandInv, HandTypes
  <2>2. falls' = 0 => falls = 0
    BY <1>0, HandBounds DEF HandInv, HandTypes
  <2> QED
    BY <1>0, <2>1, <2>2 DEF HandInv, Hand!DefaultIsTheLast, PostedOnItsPlace
<1>5. PostedIsShown'
  <2>1. falls' = 0 => falls' = falls
    BY <1>0, HandBounds DEF HandInv, HandTypes
  <2> QED
    BY <1>0, <1>3, <2>1 DEF HandInv, PostedIsShown
<1> QED
  BY <1>4, <1>5 DEF HandInv

\* A draft that is written on the content its run read is not one of a content
\* that was posted; on another one, the content is overtaken.
LEMMA DraftIsWritten ==
    ASSUME HandInv, NEW copy \in drafting, Hand!WriteRow(copy)
    PROVE  HandInv'
<1>0. UNCHANGED <<accounts, preferred, authored, packages, building, published, falls>> /\ drafting' = {}
  BY DEF Hand!WriteRow
<1>1. copy \in Hand!CopyRow /\ copy.version # 0
  BY DEF HandInv, HandTypes, Hand!WriteRow
<1>2. copy.version \in Hand!Versions
  BY <1>1 DEF Hand!CopyRow
<1>3. CASE UNCHANGED <<state, head, approved, overtaken>>
  BY <1>0, <1>3 DEF HandInv, HandTypes, Hand!DefaultIsTheLast, PostedOnItsPlace, PostedIsShown
<1>4. CASE ~ UNCHANGED <<state, head, approved, overtaken>>
  <2>1. /\ Hand!MayRecord(copy) /\ Hand!Advanced(copy)
        /\ Hand!Columns(copy, copy.version) \/ UNCHANGED <<head, approved>>
        /\ overtaken' = (overtaken \/ Hand!Stale(copy))
    BY <1>4 DEF Hand!WriteRow, Hand!rowVars
  <2>2. state' \in Hand!ContentState /\ head' \in Hand!Versions /\ approved' \in {0} \cup Hand!Versions
    BY <1>1, <1>2, <2>1, RowIsWrittenFrom DEF HandInv
  <2>3. overtaken' \in BOOLEAN /\ (~overtaken' => ~overtaken /\ state = copy.state)
    <3>1. Hand!Stale(copy) \in BOOLEAN /\ (~Hand!Stale(copy) => state = copy.state)
      BY DEF Hand!Stale
    <3> QED
      BY <2>1, <3>1, Zenon DEF HandInv, HandTypes
  <2>4. HandTypes' /\ Hand!DefaultIsTheLast' /\ PostedOnItsPlace'
    BY <1>0, <2>2, <2>3 DEF HandInv, HandTypes, Hand!DefaultIsTheLast, PostedOnItsPlace
  <2>5. copy.state \notin {"published", "archived"}
    BY <1>1, <2>1, RewritingLeads
  <2>6. PostedIsShown'
    BY <1>0, <2>3, <2>5 DEF HandInv, PostedIsShown
  <2> QED
    BY <2>4, <2>6 DEF HandInv
<1> QED
  BY <1>3, <1>4

LEMMA WorkerMoves ==
    ASSUME HandInv, Hand!Rewriting
    PROVE  HandInv'
<1>1. CASE Hand!Read \/ Hand!Abandon \/ \E copy \in drafting : Hand!WriteVersion(copy)
  <2>1. UNCHANGED <<accounts, preferred, state, head, approved, overtaken, packages, building, published, falls>>
    BY <1>1 DEF Hand!Read, Hand!Abandon, Hand!WriteVersion, Hand!rowVars
  <2>2. drafting' \subseteq Hand!CopyRow /\ authored' \in Hand!Versions
    <3>1. CASE Hand!Read
      BY <3>1, CopyIsTyped DEF Hand!Read, HandInv, HandTypes
    <3>2. CASE Hand!Abandon
      BY <3>2 DEF Hand!Abandon, HandInv, HandTypes
    <3>3. CASE \E copy \in drafting : Hand!WriteVersion(copy)
      <4>1. PICK copy \in drafting : Hand!WriteVersion(copy)
        BY <3>3
      <4>2. copy \in Hand!CopyRow
        BY DEF HandInv, HandTypes
      <4>3. PICK v : v = authored + 1 /\ v \in Hand!Versions
        BY <4>1, HandBounds DEF Hand!WriteVersion, HandInv, HandTypes
      <4>4. [copy EXCEPT !.version = v] \in Hand!CopyRow
        BY <4>2, <4>3 DEF Hand!CopyRow
      <4> QED
        BY <4>1, <4>3, <4>4 DEF Hand!WriteVersion
    <3> QED
      BY <1>1, <3>1, <3>2, <3>3
  <2> QED
    BY <2>1, <2>2 DEF HandInv, HandTypes, Hand!DefaultIsTheLast, PostedOnItsPlace, PostedIsShown
<1>2. CASE \E copy \in drafting : Hand!WriteRow(copy)
  BY <1>2, DraftIsWritten
<1> QED
  BY <1>1, <1>2 DEF Hand!Rewriting

LEMMA PackageMoves ==
    ASSUME HandInv, NEW r \in Senders, Hand!Ask(r) \/ Hand!Refuse(r) \/ Hand!Build(r)
    PROVE  HandInv'
<1>0. UNCHANGED <<accounts, preferred, state, head, approved, authored, drafting, overtaken, published, falls>>
  BY DEF Hand!Ask, Hand!Refuse, Hand!Build, Hand!itemVars, Hand!rowVars, Hand!workVars
<1>1. packages' \subseteq Hand!Versions /\ building' \in [Senders -> {0} \cup Hand!Versions]
  BY DEF Hand!Ask, Hand!Refuse, Hand!Build, HandInv, HandTypes
<1> QED
  BY <1>0, <1>1 DEF HandInv, HandTypes, Hand!DefaultIsTheLast, PostedOnItsPlace, PostedIsShown

\* What is confirmed was approved, and was not posted unless the API died or
\* the content was overtaken.
LEMMA PackageConfirmed ==
    ASSUME HandInv, NEW v \in packages, NEW a \in DOMAIN accounts,
           Hand!Confirm(v, a) \/ Hand!ConfirmHalf(v, a)
    PROVE  HandInv'
<1>0. /\ accounts[a].place = "p1" /\ state = "approved" /\ approved = v
      /\ published' = published \cup {<<v, a>>}
      /\ UNCHANGED <<accounts, preferred, head, approved, authored, drafting, overtaken, packages>>
  BY DEF Hand!Confirm, Hand!ConfirmHalf, Hand!Confirmable, Hand!workVars
<1>1. \/ state' = "published" /\ UNCHANGED <<building, falls>>
      \/ /\ falls < MaxFalls /\ falls' = falls + 1 /\ state' \in {"approved", "publishing"}
         /\ building' = [r \in Senders |-> 0]
  BY DEF Hand!Confirm, Hand!ConfirmHalf
<1>2. HandTypes'
  BY <1>0, <1>1, HandBounds DEF HandInv, HandTypes, Hand!ContentState
<1>3. Hand!DefaultIsTheLast'
  <2>1. falls' = 0 => falls = 0
    BY <1>1, HandBounds DEF HandInv, HandTypes
  <2> QED
    BY <1>0, <2>1 DEF HandInv, Hand!DefaultIsTheLast
<1>4. PostedOnItsPlace'
  BY <1>0 DEF HandInv, PostedOnItsPlace
<1>5. PostedIsShown'
  <2> SUFFICES ASSUME falls' = 0, ~overtaken
               PROVE  /\ state' = "published"
                      /\ \E row \in published' : published' = {row} /\ row[1] = approved'
    BY <1>0 DEF PostedIsShown
  <2>1. state' = "published" /\ falls = 0
    BY <1>1, HandBounds DEF HandInv, HandTypes
  <2>2. published = {}
    BY <1>0, <2>1 DEF HandInv, PostedIsShown
  <2> QED
    BY <1>0, <2>1, <2>2
<1> QED
  BY <1>2, <1>3, <1>4, <1>5 DEF HandInv

LEMMA HandStep == HandInv /\ [Hand!Next]_hand => HandInv'
<1> SUFFICES ASSUME HandInv, [Hand!Next]_hand PROVE HandInv'
  OBVIOUS
<1>1. CASE UNCHANGED hand
  BY <1>1 DEF hand, HandInv, HandTypes, Hand!DefaultIsTheLast, PostedOnItsPlace, PostedIsShown
<1>2. CASE Hand!Next
  BY <1>2, AccountCreated, ContentMoves, WorkerMoves, PackageMoves, PackageConfirmed DEF Hand!Next
<1> QED
  BY <1>1, <1>2

LEMMA HandHolds == HandInv => Hand!TypeOK /\ Hand!DefaultIsTheLast /\ Hand!PostedIsApproved
<1> SUFFICES ASSUME HandInv PROVE Hand!TypeOK /\ Hand!PostedIsApproved
  BY DEF HandInv
<1>1. Hand!TypeOK
  <2>1. /\ accounts \in [1 .. Len(accounts) -> [place : {"p1", "p2"}, remote : {"x"} \cup {Unsaid}]]
        /\ Len(accounts) \in 0 .. MaxAccounts
    <3>1. accounts \in Seq(HandRow) /\ Len(accounts) <= MaxAccounts
      BY DEF HandInv, HandTypes
    <3>2. Len(accounts) \in Nat /\ accounts \in [1 .. Len(accounts) -> HandRow]
      BY <3>1
    <3> QED
      BY <3>1, <3>2, HandBounds DEF HandRow
  <2> QED
    BY <2>1 DEF HandInv, HandTypes, Hand!TypeOK
<1>2. Hand!PostedIsApproved
  <2>1. ASSUME falls = 0, ~overtaken, published # {}
        PROVE  Hand!Cardinality(published) = 1 /\ \A row \in published : row[1] = approved
    <3>1. PICK row \in published : published = {row} /\ row[1] = approved
      BY <2>1 DEF HandInv, PostedIsShown
    <3>2. Cardinality({row}) = 1
      BY FS_Singleton
    <3>3. Cardinality(published) = 1
      BY <3>1, <3>2, Zenon
    <3>4. Hand!Cardinality(published) = Cardinality(published)
      BY DEF Hand!Cardinality, Cardinality
    <3> QED
      BY <3>1, <3>3, <3>4
  <2> QED
    BY <2>1 DEF HandInv, PostedOnItsPlace, PostedIsShown, Hand!PostedIsApproved
<1> QED
  BY <1>1, <1>2

------------------------------------------------------------------------------
(* The spending.  What the calls in flight have paid and is in no row yet   *)
(* is counted caller by caller: `line' puts them in a line, `paid' is what  *)
(* those up to each have paid.                                             *)

CallTypes ==
    /\ sums \in [day : Nat, month : Nat]
    /\ calls \in [Payers -> [pc : {"idle", "first", "second", "answered", "failed"}, paid : 0 .. 2 * MaxCost]]
    /\ billed \in Nat /\ begun \in Nat /\ lost \in Nat /\ callRows \in Nat /\ days \in Nat
    /\ \A c \in Payers :
         /\ calls[c].pc \in {"idle", "first"} => calls[c].paid = 0
         /\ calls[c].pc = "second" => calls[c].paid <= MaxCost

Counts(line, paid, n) ==
    /\ line \in [1 .. n -> Payers] /\ paid \in [0 .. n -> Nat] /\ paid[0] = 0
    /\ \A c \in Payers : \E i \in 1 .. n : line[i] = c
    /\ \A i, j \in 1 .. n : line[i] = line[j] => i = j
    /\ \A i \in 1 .. n : paid[i] = paid[i - 1] + calls[line[i]].paid
    /\ \A i, j \in 0 .. n : i <= j => paid[i] <= paid[j]

Unrecorded(amount) ==
    \E n \in Nat : \E line, paid : Counts(line, paid, n) /\ amount = paid[n]

CostsInv ==
    /\ CallTypes /\ Costs!OverspendIsInFlight /\ Costs!EveryCallHasRow
    /\ sums.day <= sums.month
    /\ \E amount \in Nat : Unrecorded(amount) /\ sums.month + amount <= billed

LEMMA CostBounds ==
    /\ DayLimit \in Nat /\ MonthLimit \in Nat /\ MaxCost \in Nat
    /\ Estimates \subseteq Nat \ {0} /\ IsFiniteSet(Payers)
BY EditingAssumption DEF Costs!SpendingAssumption, Costs!IsFiniteSet, IsFiniteSet

LEMMA CallersInFlight ==
    /\ \A S : Costs!Cardinality(S) = Cardinality(S)
    /\ Cardinality(Payers) \in Nat
    /\ \A S : S \subseteq Payers => IsFiniteSet(S) /\ Cardinality(S) \in Nat /\ Cardinality(S) <= Cardinality(Payers)
<1>1. \A S : Costs!Cardinality(S) = Cardinality(S)
  BY DEF Costs!Cardinality, Cardinality
<1>2. \A S : S \subseteq Payers => IsFiniteSet(S) /\ Cardinality(S) <= Cardinality(Payers)
  BY CostBounds, FS_Subset
<1>3. \A S : IsFiniteSet(S) => Cardinality(S) \in Nat
  BY FS_CardinalityType
<1> QED
  BY <1>1, <1>2, <1>3, CostBounds

\* One caller has paid another amount: those after it in the line are counted
\* again.
LEMMA OneMorePays ==
    ASSUME CallTypes, NEW c \in Payers, NEW amount \in Nat, Unrecorded(amount), NEW call,
           calls' = [calls EXCEPT ![c] = call], call.paid \in Nat,
           NEW other, other = amount - calls[c].paid + call.paid
    PROVE  other \in Nat /\ Unrecorded(other)'
<1>1. PICK n \in Nat : \E line, paid : Counts(line, paid, n) /\ amount = paid[n]
  BY DEF Unrecorded
<1>2. PICK line, paid : Counts(line, paid, n) /\ amount = paid[n]
  BY <1>1
<1>3. PICK k \in 1 .. n : line[k] = c
  BY <1>2 DEF Counts
<1>14. PICK more : more = call.paid - calls[c].paid
  OBVIOUS
<1>15. PICK recount : recount = [i \in 0 .. n |-> IF k <= i THEN paid[i] + more ELSE paid[i]]
  OBVIOUS
<1>16. \A i \in 0 .. n : recount[i] = IF k <= i THEN paid[i] + more ELSE paid[i]
  BY <1>15
<1>4. calls[c].paid \in Nat /\ more \in Int /\ calls'[c] = call /\ calls[c].paid + more = call.paid
      /\ \A d \in Payers : d # c => calls'[d] = calls[d]
  BY <1>14, CostBounds DEF CallTypes
<1>5. /\ line \in [1 .. n -> Payers] /\ paid \in [0 .. n -> Nat] /\ paid[0] = 0
      /\ \A i, j \in 1 .. n : line[i] = line[j] => i = j
      /\ \A i \in 1 .. n : paid[i] = paid[i - 1] + calls[line[i]].paid
      /\ \A i, j \in 0 .. n : i <= j => paid[i] <= paid[j]
  BY <1>2 DEF Counts
<1>6. paid[k] = paid[k - 1] + calls[c].paid /\ paid[k - 1] \in Nat /\ paid[k] \in Nat
  BY <1>3, <1>5
<1>7. \A i \in 0 .. n : k <= i => paid[k] <= paid[i]
  BY <1>5, k \in 0 .. n
<1>8. recount \in [0 .. n -> Nat] /\ recount[0] = 0
  <2>1. ASSUME NEW i \in 0 .. n, k <= i PROVE paid[i] + more \in Nat
    <3>1. paid[i] \in Nat /\ paid[k] <= paid[i]
      BY <2>1, <1>5, <1>7
    <3> QED
      BY <3>1, <1>4, <1>6
  <2> QED
    BY <2>1, <1>5, <1>15
<1>9. ASSUME NEW i \in 1 .. n PROVE recount[i] = recount[i - 1] + calls'[line[i]].paid
  <2>1. i - 1 \in 0 .. n /\ i \in 0 .. n /\ line[i] \in Payers /\ paid[i] \in Nat /\ paid[i - 1] \in Nat
        /\ calls[line[i]].paid \in Nat /\ paid[i] = paid[i - 1] + calls[line[i]].paid
    BY <1>5, CostBounds DEF CallTypes
  <2>2. CASE i = k
    <3>1. recount[i] = paid[k] + more /\ recount[i - 1] = paid[k - 1] /\ line[i] = c
      BY <2>1, <2>2, <1>3, <1>16
    <3> QED
      BY <3>1, <1>4, <1>6
  <2>3. CASE i # k
    <3>1. line[i] # c
      BY <2>3, <1>3, <1>5
    <3>2. calls'[line[i]] = calls[line[i]] /\ (k <= i <=> k <= i - 1)
      BY <3>1, <2>1, <2>3, <1>4
    <3> QED
      BY <2>1, <3>2, <1>4, <1>16
  <2> QED
    BY <2>2, <2>3
<1>10. ASSUME NEW i \in 0 .. n, NEW j \in 0 .. n, i <= j PROVE recount[i] <= recount[j]
  <2>1. paid[i] \in Nat /\ paid[j] \in Nat /\ paid[i] <= paid[j]
    BY <1>5, <1>10
  <2>2. CASE k <= i \/ j < k
    BY <2>1, <2>2, <1>4, <1>10, <1>16
  <2>3. CASE i < k /\ k <= j
    <3>1. k - 1 \in 0 .. n /\ i <= k - 1
      BY <2>3
    <3>2. paid[i] <= paid[k - 1] /\ paid[k] <= paid[j]
      BY <3>1, <1>5, <1>7, <2>3
    <3>3. paid[j] + more >= paid[k - 1] + call.paid
      BY <3>2, <2>1, <1>4, <1>6
    <3> QED
      BY <3>2, <3>3, <2>1, <2>3, <1>4, <1>6, <1>16
  <2> QED
    BY <2>2, <2>3
<1>11. \A d \in Payers : \E i \in 1 .. n : line[i] = d
  BY <1>2 DEF Counts
<1>13. recount[n] = other /\ recount[n] \in Nat
  BY <1>2, <1>4, <1>5, <1>8, <1>16
<1>12. Counts(line, recount, n)'
  <2>1. (\A i \in 1 .. n : recount[i] = recount[i - 1] + calls[line[i]].paid)'
    BY <1>9
  <2>2. \A i, j \in 0 .. n : i <= j => recount[i] <= recount[j]
    BY <1>10
  <2> QED
    BY <1>5, <1>8, <1>11, <2>1, <2>2, Zenon DEF Counts
<1> QED
  BY <1>12, <1>13 DEF Unrecorded

LEMMA FlightMoves ==
    ASSUME CallTypes, NEW c \in Payers, NEW call, calls' = [calls EXCEPT ![c] = call]
    PROVE  /\ calls[c].pc = "idle" /\ call.pc # "idle" =>
                Cardinality(Costs!InFlight') = Cardinality(Costs!InFlight) + 1
           /\ calls[c].pc # "idle" /\ call.pc = "idle" =>
                Cardinality(Costs!InFlight') = Cardinality(Costs!InFlight) - 1
           /\ calls[c].pc # "idle" /\ call.pc # "idle" => Costs!InFlight' = Costs!InFlight
<1>0. IsFiniteSet(Costs!InFlight) /\ Cardinality(Costs!InFlight) \in Nat
  BY CallersInFlight DEF Costs!InFlight
<1>1. calls'[c] = call /\ \A d \in Payers : d # c => calls'[d] = calls[d]
  BY DEF CallTypes
<1>2. CASE calls[c].pc = "idle" /\ call.pc # "idle"
  <2>1. Costs!InFlight' = Costs!InFlight \cup {c} /\ c \notin Costs!InFlight
    BY <1>1, <1>2 DEF Costs!InFlight
  <2>2. Cardinality(Costs!InFlight \cup {c}) = Cardinality(Costs!InFlight) + 1
    BY <1>0, <2>1, FS_AddElement
  <2>3. Cardinality(Costs!InFlight') = Cardinality(Costs!InFlight \cup {c})
    BY <2>1, Zenon
  <2> QED
    BY <1>2, <2>2, <2>3
<1>3. CASE calls[c].pc # "idle" /\ call.pc = "idle"
  <2>1. Costs!InFlight' = Costs!InFlight \ {c} /\ c \in Costs!InFlight
    BY <1>1, <1>3 DEF Costs!InFlight
  <2>2. Cardinality(Costs!InFlight \ {c}) = Cardinality(Costs!InFlight) - 1
    BY <1>0, <2>1, FS_RemoveElement
  <2>3. Cardinality(Costs!InFlight') = Cardinality(Costs!InFlight \ {c})
    BY <2>1, Zenon
  <2> QED
    BY <1>3, <2>2, <2>3
<1>4. CASE calls[c].pc # "idle" /\ call.pc # "idle"
  <2>1. Costs!InFlight' = Costs!InFlight
    BY <1>1, <1>4 DEF Costs!InFlight
  <2> QED
    BY <1>4, <2>1
<1> QED
  BY <1>2, <1>3, <1>4

\* The room that the calls in flight may take grows by two exchanges a call.
LEMMA RoomOfCalls ==
    \A m, k, n \in Nat :
        /\ m * k \in Nat /\ m * (k + 1) = m * k + m
        /\ k <= n => m * k <= m * n
OBVIOUS

LEMMA RowsOfCalls ==
    \A b, f, l, r, m, s \in Int : b - f - l <= r /\ m + s >= l + r + 1 => b - (f - 1) - m <= s
OBVIOUS

\* A call moves: it passes the veto, goes on, or is over, with a row unless its
\* process died.
CallMoved(c, call) ==
    /\ calls' = [calls EXCEPT ![c] = call]
    /\ call \in [pc : {"idle", "first", "second", "answered", "failed"}, paid : 0 .. 2 * MaxCost]
    /\ call.pc \in {"idle", "first"} => call.paid = 0
    /\ call.pc = "second" => call.paid <= MaxCost
    /\ sums' \in [day : Nat, month : Nat] /\ sums'.day <= sums'.month /\ UNCHANGED days
    /\ billed' \in Nat /\ begun' \in Nat /\ lost' \in Nat /\ callRows' \in Nat
    /\ sums'.month + call.paid + billed <= sums.month + calls[c].paid + billed'
    /\ \/ /\ calls[c].pc = "idle" /\ call.pc # "idle"
          /\ sums' = sums /\ sums.day <= DayLimit /\ sums.month <= MonthLimit
          /\ begun' = begun + 1 /\ UNCHANGED <<lost, callRows>>
       \/ calls[c].pc # "idle" /\ call.pc # "idle" /\ UNCHANGED <<sums, begun, lost, callRows>>
       \/ /\ calls[c].pc # "idle" /\ call.pc = "idle" /\ begun' = begun
          /\ lost' + callRows' >= lost + callRows + 1
          /\ sums'.day <= sums.day + 2 * MaxCost /\ sums'.month <= sums.month + 2 * MaxCost

LEMMA CallMoves ==
    ASSUME CostsInv, NEW c \in Payers, NEW call, CallMoved(c, call)
    PROVE  CostsInv'
<1> USE DEF CallMoved
<1>1. CallTypes'
  BY DEF CostsInv, CallTypes
<1>2. (\E amount \in Nat : Unrecorded(amount) /\ sums.month + amount <= billed)'
  <2>1. PICK amount \in Nat : Unrecorded(amount) /\ sums.month + amount <= billed
    BY DEF CostsInv
  <2>2. PICK other : other = amount - calls[c].paid + call.paid
    OBVIOUS
  <2>3. call.paid \in Nat /\ calls[c].paid \in Nat /\ sums.month \in Nat /\ sums'.month \in Nat /\ billed \in Nat
    BY CostBounds DEF CostsInv, CallTypes
  <2>4. other \in Nat /\ Unrecorded(other)'
    BY <2>1, <2>2, <2>3, OneMorePays DEF CostsInv
  <2>5. sums'.month + other <= billed'
    BY <2>1, <2>2, <2>3
  <2> QED
    BY <2>4, <2>5
<1> DEFINE flying == Cardinality(Costs!InFlight)
           all == Cardinality(Payers)
           room == 2 * MaxCost
<1>3. flying \in Nat /\ flying' \in Nat /\ flying <= all /\ flying' <= all /\ all \in Nat /\ room \in Nat
  BY CallersInFlight, CostBounds DEF Costs!InFlight
<1>4. /\ sums.day + room * flying <= DayLimit + room * all
      /\ sums.month + room * flying <= MonthLimit + room * all
      /\ begun - flying - lost <= callRows
  BY CallersInFlight DEF CostsInv, Costs!OverspendIsInFlight, Costs!EveryCallHasRow
<1>5. /\ sums \in [day : Nat, month : Nat] /\ begun \in Nat /\ lost \in Nat /\ callRows \in Nat
      /\ DayLimit \in Nat /\ MonthLimit \in Nat
  BY CostBounds DEF CostsInv, CallTypes
<1>6. /\ calls[c].pc = "idle" /\ call.pc # "idle" => flying' = flying + 1
      /\ calls[c].pc # "idle" /\ call.pc = "idle" => flying' = flying - 1
      /\ calls[c].pc # "idle" /\ call.pc # "idle" => flying' = flying
  BY FlightMoves DEF CostsInv
<1>7. begun' - flying' - lost' <= callRows'
  <2> HIDE DEF flying, all, room
  <2>0. /\ begun' \in Nat /\ lost' \in Nat /\ callRows' \in Nat
        /\ \/ flying' = flying + 1 /\ begun' = begun + 1 /\ lost' = lost /\ callRows' = callRows
           \/ flying' = flying /\ begun' = begun /\ lost' = lost /\ callRows' = callRows
           \/ flying' = flying - 1 /\ begun' = begun /\ lost' + callRows' >= lost + callRows + 1
    BY <1>6
  <2>1. begun - flying - lost <= callRows /\ flying \in Nat
    BY <1>3, <1>4
  <2>2. /\ begun \in Int /\ lost \in Int /\ callRows \in Int /\ flying \in Int
        /\ begun' \in Int /\ lost' \in Int /\ callRows' \in Int /\ flying' \in Int
    BY <2>0, <1>3, <1>5
  <2>3. CASE flying' = flying + 1 /\ begun' = begun + 1 /\ lost' = lost /\ callRows' = callRows
    BY <2>1, <2>2, <2>3
  <2>4. CASE flying' = flying /\ begun' = begun /\ lost' = lost /\ callRows' = callRows
    BY <2>1, <2>2, <2>4
  <2>5. CASE flying' = flying - 1 /\ begun' = begun /\ lost' + callRows' >= lost + callRows + 1
    <3>1. begun - (flying - 1) - lost' <= callRows'
      BY <2>1, <2>2, <2>5, RowsOfCalls
    <3> QED
      BY <2>5, <3>1
  <2> QED
    BY <2>0, <2>3, <2>4, <2>5
<1>8. /\ room * flying \in Nat /\ room * flying' \in Nat /\ room * all \in Nat
      /\ room * flying' <= room * all
      /\ flying' = flying - 1 => room * flying = room * flying' + room
  BY <1>3, RoomOfCalls
<1>9. /\ sums'.day + room * flying' <= DayLimit + room * all
      /\ sums'.month + room * flying' <= MonthLimit + room * all
  <2>0. sums'.day \in Nat /\ sums'.month \in Nat
    OBVIOUS
  <2> HIDE DEF flying, all, room
  <2>1. CASE calls[c].pc = "idle" /\ call.pc # "idle"
    BY <2>1, <1>5, <1>8
  <2>2. CASE calls[c].pc # "idle" /\ call.pc # "idle"
    BY <2>2, <1>4, <1>5, <1>6
  <2>3. CASE calls[c].pc # "idle" /\ call.pc = "idle"
    <3>1. sums'.day <= sums.day + room /\ sums'.month <= sums.month + room
      BY <2>3 DEF room
    <3> QED
      BY <2>0, <2>3, <3>1, <1>3, <1>4, <1>5, <1>6, <1>8
  <2> QED
    BY <2>1, <2>2, <2>3
<1>10. Costs!OverspendIsInFlight' /\ Costs!EveryCallHasRow'
  BY <1>7, <1>9, CallersInFlight DEF Costs!OverspendIsInFlight, Costs!EveryCallHasRow
<1> QED
  BY <1>1, <1>2, <1>10 DEF CostsInv

LEMMA CostsInit == Costs!Init => CostsInv
<1> SUFFICES ASSUME Costs!Init PROVE CostsInv
  OBVIOUS
<1>1. CallTypes
  BY CostBounds DEF Costs!Init, Costs!Idle, CallTypes
<1>2. Costs!InFlight = {} /\ Cardinality(Costs!InFlight) = 0
  <2>1. Costs!InFlight = {}
    BY DEF Costs!Init, Costs!Idle, Costs!InFlight
  <2> QED
    BY <2>1, FS_EmptySet
<1>3. Costs!OverspendIsInFlight /\ Costs!EveryCallHasRow
  <2>1. 2 * MaxCost * Cardinality(Payers) \in Nat /\ 2 * MaxCost * 0 = 0
    <3>1. 2 * MaxCost \in Nat
      BY CostBounds
    <3> QED
      BY <3>1, CallersInFlight, RoomOfCalls
  <2> QED
    BY <1>2, <2>1, CallersInFlight, CostBounds DEF Costs!Init, Costs!OverspendIsInFlight, Costs!EveryCallHasRow
<1>4. Unrecorded(0)
  <2>1. PICK n \in Nat : \E line : /\ line \in [1 .. n -> Payers]
                                   /\ \A c \in Payers : \E i \in 1 .. n : line[i] = c
                                   /\ \A i, j \in 1 .. n : line[i] = line[j] => i = j
    <3>1. ExistsBijection(1 .. Cardinality(Payers), Payers)
      BY CostBounds, FS_CardinalityType
    <3>2. PICK f : f \in Bijection(1 .. Cardinality(Payers), Payers)
      BY <3>1 DEF ExistsBijection
    <3>3. /\ f \in [1 .. Cardinality(Payers) -> Payers]
          /\ \A c \in Payers : \E i \in 1 .. Cardinality(Payers) : f[i] = c
          /\ \A i, j \in 1 .. Cardinality(Payers) : f[i] = f[j] => i = j
      BY <3>2 DEF Bijection, Injection, Surjection, IsInjective
    <3> QED
      BY <3>3, CallersInFlight
  <2>2. PICK line : /\ line \in [1 .. n -> Payers]
                    /\ \A c \in Payers : \E i \in 1 .. n : line[i] = c
                    /\ \A i, j \in 1 .. n : line[i] = line[j] => i = j
    BY <2>1
  <2>3. \A c \in Payers : calls[c].paid = 0
    BY DEF Costs!Init, Costs!Idle
  <2>4. PICK paid : paid = [i \in 0 .. n |-> 0]
    OBVIOUS
  <2>5. Counts(line, paid, n) /\ paid[n] = 0
    BY <2>2, <2>3, <2>4 DEF Counts
  <2> QED
    BY <2>5 DEF Unrecorded
<1>5. sums.day <= sums.month /\ sums.month + 0 <= billed
  BY DEF Costs!Init
<1> QED
  BY <1>1, <1>3, <1>4, <1>5 DEF CostsInv

LEMMA CallSteps ==
    ASSUME CostsInv, NEW c \in Payers,
           \/ \E estimate \in Estimates : Costs!Pass(c, estimate)
           \/ \E cost \in 1 .. MaxCost : Costs!Reply(c, cost)
           \/ \E cost \in 0 .. MaxCost : Costs!Break(c, cost)
           \/ \E noted \in BOOLEAN : Costs!Record(c, noted)
           \/ Costs!RecordFailure(c) \/ Costs!Crash(c)
    PROVE  CostsInv'
<1>0. /\ calls[c] \in [pc : {"idle", "first", "second", "answered", "failed"}, paid : 0 .. 2 * MaxCost]
      /\ calls[c].pc \in {"idle", "first"} => calls[c].paid = 0
      /\ calls[c].pc = "second" => calls[c].paid <= MaxCost
      /\ sums \in [day : Nat, month : Nat] /\ sums.day <= sums.month
      /\ billed \in Nat /\ begun \in Nat /\ lost \in Nat /\ callRows \in Nat /\ days \in Nat
      /\ MaxCost \in Nat /\ DayLimit \in Nat /\ MonthLimit \in Nat
      /\ \A call : calls' = [calls EXCEPT ![c] = call] => calls'[c] = call
  BY CostBounds DEF CostsInv, CallTypes
<1> DEFINE row == [pc : {"idle", "first", "second", "answered", "failed"}, paid : 0 .. 2 * MaxCost]
<1>1. ASSUME NEW estimate \in Estimates, Costs!Pass(c, estimate) PROVE CostsInv'
  <2>1. PICK call : call = [calls[c] EXCEPT !.pc = "first"]
    OBVIOUS
  <2>2. call \in row /\ call.pc = "first" /\ call.paid = calls[c].paid /\ calls[c].pc = "idle"
    BY <1>0, <1>1, <2>1 DEF Costs!Pass, Costs!Idle
  <2>3. /\ calls' = [calls EXCEPT ![c] = call] /\ begun' = begun + 1
        /\ UNCHANGED <<sums, billed, lost, callRows, days>> /\ estimate <= Costs!Remaining(sums)
    BY <1>1, <2>1 DEF Costs!Pass
  <2>4. sums.day <= DayLimit /\ sums.month <= MonthLimit
    BY <1>0, <2>3, CostBounds DEF Costs!Remaining, Costs!Left
  <2>9. CallMoved(c, call)
    BY <1>0, <2>2, <2>3, <2>4 DEF CallMoved
  <2> QED
    BY <2>9, CallMoves
<1>2. ASSUME NEW cost \in 1 .. MaxCost, Costs!Reply(c, cost) PROVE CostsInv'
  <2>1. PICK pc \in {"answered", IF calls[c].pc = "first" THEN "second" ELSE "failed"} :
          calls' = [calls EXCEPT ![c] = [pc |-> pc, paid |-> calls[c].paid + cost]]
    BY <1>2 DEF Costs!Reply
  <2>2. PICK call : call = [pc |-> pc, paid |-> calls[c].paid + cost]
    OBVIOUS
  <2>3. calls[c].pc \in {"first", "second"} /\ billed' = billed + cost
        /\ UNCHANGED <<sums, begun, lost, callRows, days>>
    BY <1>2 DEF Costs!Reply
  <2>4. /\ call \in row /\ call.pc \notin {"idle", "first"} /\ call.paid = calls[c].paid + cost
        /\ call.pc = "second" => call.paid <= MaxCost
    BY <1>0, <2>1, <2>2, <2>3
  <2>9. CallMoved(c, call)
    BY <1>0, <2>1, <2>2, <2>3, <2>4 DEF CallMoved
  <2> QED
    BY <2>9, CallMoves
<1>3. ASSUME NEW cost \in 0 .. MaxCost, Costs!Break(c, cost) PROVE CostsInv'
  <2>1. PICK call : call = [calls[c] EXCEPT !.pc = "failed"]
    OBVIOUS
  <2>2. /\ calls[c].pc \in {"first", "second"} /\ billed' = billed + cost
        /\ calls' = [calls EXCEPT ![c] = call] /\ UNCHANGED <<sums, begun, lost, callRows, days>>
    BY <1>3, <2>1 DEF Costs!Break
  <2>3. call \in row /\ call.pc = "failed" /\ call.paid = calls[c].paid
    BY <1>0, <2>1
  <2>9. CallMoved(c, call)
    BY <1>0, <2>2, <2>3 DEF CallMoved
  <2> QED
    BY <2>9, CallMoves
<1>4. PICK idle : idle = [pc |-> "idle", paid |-> 0]
  OBVIOUS
<1>5. idle = Costs!Idle /\ idle \in row /\ idle.pc = "idle" /\ idle.paid = 0
  BY <1>0, <1>4 DEF Costs!Idle
<1>6. ASSUME NEW noted \in BOOLEAN, Costs!Record(c, noted) PROVE CostsInv'
  <2>1. /\ calls[c].pc = "answered" /\ calls' = [calls EXCEPT ![c] = idle]
        /\ sums' = [day |-> sums.day + calls[c].paid, month |-> sums.month + calls[c].paid]
        /\ callRows' \in {callRows + 1, callRows + 2}
        /\ UNCHANGED <<billed, begun, lost, days>>
    BY <1>5, <1>6 DEF Costs!Record, Costs!Recorded
  <2>2. /\ sums' \in [day : Nat, month : Nat] /\ sums'.day <= sums'.month
        /\ sums'.day <= sums.day + 2 * MaxCost /\ sums'.month <= sums.month + 2 * MaxCost
        /\ sums'.month = sums.month + calls[c].paid
    BY <1>0, <2>1
  <2>3. sums'.month + idle.paid + billed <= sums.month + calls[c].paid + billed'
    BY <1>0, <1>5, <2>1, <2>2
  <2>4. callRows' \in Nat /\ lost' + callRows' >= lost + callRows + 1
    BY <1>0, <2>1
  <2>9. CallMoved(c, idle)
    BY <1>0, <1>5, <2>1, <2>2, <2>3, <2>4 DEF CallMoved
  <2> QED
    BY <2>9, CallMoves
<1>7. ASSUME Costs!RecordFailure(c) \/ Costs!Crash(c) PROVE CostsInv'
  <2>1. /\ calls[c].pc # "idle" /\ calls' = [calls EXCEPT ![c] = idle]
        /\ \/ callRows' = callRows + 1 /\ lost' = lost
           \/ callRows' = callRows /\ lost' = lost + 1
        /\ UNCHANGED <<sums, billed, begun, days>>
    BY <1>0, <1>5, <1>7 DEF Costs!RecordFailure, Costs!Crash, Costs!RowsOfFailure, Costs!Idle
  <2>2. sums'.day <= sums.day + 2 * MaxCost /\ sums'.month <= sums.month + 2 * MaxCost
    BY <1>0, <2>1
  <2>9. CallMoved(c, idle)
    BY <1>0, <1>5, <2>1, <2>2 DEF CallMoved
  <2> QED
    BY <2>9, CallMoves
<1> QED
  BY <1>1, <1>2, <1>3, <1>6, <1>7

LEMMA CostsStep == CostsInv /\ [Costs!Next]_costs => CostsInv'
<1> SUFFICES ASSUME CostsInv, [Costs!Next]_costs PROVE CostsInv'
  OBVIOUS
<1>1. ASSUME UNCHANGED <<calls, billed, begun, lost, callRows>>, sums' \in [day : Nat, month : Nat],
             sums'.day <= sums.day, sums'.day <= sums'.month, sums'.month = sums.month, days' \in Nat
      PROVE  CostsInv'
  <2>1. CallTypes'
    BY <1>1 DEF CostsInv, CallTypes
  <2>2. Costs!InFlight' = Costs!InFlight
    BY <1>1 DEF Costs!InFlight
  <2>3. Cardinality(Costs!InFlight') = Cardinality(Costs!InFlight)
    BY <2>2, Zenon
  <2>4. Costs!EveryCallHasRow'
    BY <1>1, <2>3, CallersInFlight DEF CostsInv, Costs!EveryCallHasRow
  <2>5. Costs!OverspendIsInFlight'
    <3>1. /\ sums.day + 2 * MaxCost * Cardinality(Costs!InFlight) <= DayLimit + 2 * MaxCost * Cardinality(Payers)
          /\ sums.month + 2 * MaxCost * Cardinality(Costs!InFlight) <= MonthLimit + 2 * MaxCost * Cardinality(Payers)
      BY CallersInFlight DEF CostsInv, Costs!OverspendIsInFlight
    <3>2. PICK taken : taken = 2 * MaxCost * Cardinality(Costs!InFlight)
      OBVIOUS
    <3>3. PICK room : room = 2 * MaxCost * Cardinality(Payers)
      OBVIOUS
    <3>4. taken \in Nat /\ room \in Nat /\ sums.day \in Nat /\ sums'.day \in Nat /\ DayLimit \in Nat
      <4>1. 2 * MaxCost \in Nat /\ Cardinality(Costs!InFlight) \in Nat /\ Cardinality(Payers) \in Nat
        BY CostBounds, CallersInFlight DEF Costs!InFlight
      <4> QED
        BY <1>1, <3>2, <3>3, <4>1, CostBounds, RoomOfCalls DEF CostsInv, CallTypes
    <3>5. sums'.day + taken <= DayLimit + room
      BY <1>1, <3>1, <3>2, <3>3, <3>4
    <3> QED
      BY <1>1, <2>3, <3>1, <3>2, <3>3, <3>5, CallersInFlight DEF Costs!OverspendIsInFlight
  <2>6. (\E amount \in Nat : Unrecorded(amount) /\ sums.month + amount <= billed)'
    <3>1. PICK amount \in Nat : Unrecorded(amount) /\ sums.month + amount <= billed
      BY DEF CostsInv
    <3>2. PICK n \in Nat : \E line, paid : Counts(line, paid, n) /\ amount = paid[n]
      BY <3>1 DEF Unrecorded
    <3>3. PICK line, paid : Counts(line, paid, n) /\ amount = paid[n]
      BY <3>2
    <3>4. calls' = calls
      BY <1>1
    <3>5. Counts(line, paid, n)'
      BY <3>3, <3>4, Zenon DEF Counts
    <3>6. Unrecorded(amount)'
      BY <3>3, <3>5 DEF Unrecorded
    <3> QED
      BY <1>1, <3>1, <3>6
  <2> QED
    BY <1>1, <2>1, <2>4, <2>5, <2>6 DEF CostsInv
<1>2. CASE UNCHANGED costs
  BY <1>1, <1>2 DEF costs, CostsInv, CallTypes
<1>3. CASE Costs!Midnight
  <2>1. /\ UNCHANGED <<calls, billed, begun, lost, callRows>> /\ sums' = [sums EXCEPT !.day = 0] /\ days' = days + 1
        /\ sums \in [day : Nat, month : Nat] /\ days \in Nat
    BY <1>3 DEF Costs!Midnight, CostsInv, CallTypes
  <2>2. sums' = [day |-> 0, month |-> sums.month]
    BY <2>1
  <2> QED
    BY <1>1, <2>1, <2>2
<1> QED
  BY <1>2, <1>3, CallSteps DEF Costs!Next

LEMMA CostsHold ==
    ASSUME CostsInv
    PROVE  /\ Costs!TypeOK /\ Costs!OverspendIsInFlight /\ Costs!EveryCallHasRow
           /\ Costs!CountedWasBilled
<1>1. Costs!TypeOK
  BY DEF CostsInv, CallTypes, Costs!TypeOK
<1>2. Costs!CountedWasBilled
  BY DEF CostsInv, CallTypes, Costs!CountedWasBilled
<1> QED
  BY <1>1, <1>2 DEF CostsInv
------------------------------------------------------------------------------
(* The preparation of a short.  A plan remembers the choice it was asked    *)
(* for, whose video has a transcript and is long enough for it; a choice    *)
(* that is not known to have moved is the one the plan, or the proposal     *)
(* that is awaited, was asked for.                                         *)

Choices == [content : {"t1", "t2"} \cup {"none"}, source : DOMAIN Shot \cup {"none"}]

\* An agent's plan is one it proposed for that choice.
NamedAfterAgent(shown) ==
    shown.label = "agent" =>
        \E proposal \in proposals :
            /\ proposal[1] = shown.for
            /\ proposal[2] = [start |-> shown.start, end |-> shown.end, label |-> "agent"]

FitsItsVideo(shown) ==
    shown # Montage!NoPlan =>
        /\ shown.for.source \in transcribed
        /\ Shot[shown.for.source].length >= MinClip =>
              Montage!ValidPlan(shown, Shot[shown.for.source].length, MaxClip)

MontageInv ==
    /\ screen \in Choices /\ asking \in Choices
    /\ montage \in [start : Nat, end : Nat, label : {"none", "agent", "fallback"}, for : Choices]
    /\ bounds \in [start : Nat, end : Nat]
    /\ transcribed \subseteq DOMAIN Shot /\ approvals \subseteq {"t1", "t2"}
    /\ asks \in 0 .. MaxAsks /\ moved \in BOOLEAN
    /\ asking # Montage!NoChoice => asking.source \in transcribed
    /\ asking # Montage!NoChoice /\ ~moved => asking = screen
    /\ montage # Montage!NoPlan /\ ~moved => montage.for = screen
    /\ FitsItsVideo(montage) /\ NamedAfterAgent(montage)
    /\ posted.label = "agent" => NamedAfterAgent(posted)
    /\ Montage!FormAgrees

LEMMA MontageConstants ==
    /\ MaxClip \in Nat /\ MinClip \in Nat \ {0} /\ AimClip \in Nat /\ MinClip <= MaxClip
    /\ Tenth \in Nat \ {0} /\ MaxAsks \in Nat
BY EditingAssumption DEF EditingAssumption, Montage!ScreenAssumption, Clip!ClipAssumption

LEMMA MontageValues ==
    /\ \A v \in DOMAIN Shot :
          /\ Shot[v].length \in Nat
          /\ Shot[v].segments = <<>> \/ Shot[v].segments[1].start \in Nat
    /\ \A times \in Answerable : times.start \in Int /\ times.end \in Int
    /\ Entered \subseteq [start : Nat, end : Nat]
    /\ "none" \notin DOMAIN Shot
<1>1. Said(1, 3).start = 1 /\ Said(2, 4).start = 2
  BY DEF Said
<1>2. DOMAIN Shot = {"v1", "v2"}
  BY DEF Shot
<1>3. /\ Shot["v1"].length = 8 /\ Shot["v1"].segments = <<Said(1, 3), Said(4, 6)>>
      /\ Shot["v2"].length = 5 /\ Shot["v2"].segments = <<Said(2, 4)>>
  BY DEF Shot
<1>4. <<Said(1, 3), Said(4, 6)>>[1] = Said(1, 3) /\ <<Said(2, 4)>>[1] = Said(2, 4)
  OBVIOUS
<1>5. \A v \in DOMAIN Shot :
        /\ Shot[v].length \in Nat
        /\ Shot[v].segments = <<>> \/ Shot[v].segments[1].start \in Nat
  <2>1. Shot["v1"].length \in Nat /\ Shot["v1"].segments[1].start \in Nat
    BY <1>1, <1>3, <1>4
  <2>2. Shot["v2"].length \in Nat /\ Shot["v2"].segments[1].start \in Nat
    BY <1>1, <1>3, <1>4
  <2> QED
    BY <2>1, <2>2, <1>2
<1>6. \A times \in Answerable : times.start \in Int /\ times.end \in Int
  BY DEF Answerable, Times
<1>7. Entered \subseteq [start : Nat, end : Nat]
  BY DEF Entered, Times
<1> QED
  BY <1>2, <1>5, <1>6, <1>7

\* The two fields show naturals when the bounds are.
LEMMA FieldsAreNat ==
    ASSUME NEW times, times.start \in Nat, times.end \in Nat
    PROVE  Montage!Fields(times) \in [start : Nat, end : Nat]
<1>1. \A a, b \in Nat : b > 0 => a \div b \in Nat
  OBVIOUS
<1>2. \A a \in Nat : 2 * a + Tenth \in Nat /\ 2 * Tenth \in Nat /\ 2 * Tenth > 0
  BY MontageConstants
<1>3. \A a \in Nat : (2 * a + Tenth) \div (2 * Tenth) \in Nat
  BY <1>1, <1>2
<1>4. \A a, b \in Nat : a * b \in Nat
  OBVIOUS
<1>5. \A a \in Nat : Tenth * ((2 * a + Tenth) \div (2 * Tenth)) \in Nat
  BY <1>3, <1>4, MontageConstants
<1> QED
  BY <1>5 DEF Montage!Fields, Montage!Field, Montage!Rounded

\* defaultRenderPlan: a video that is long enough gets a valid plan, and the
\* bounds are naturals whatever its length.
LEMMA DefaultFits ==
    ASSUME NEW v \in DOMAIN Shot, NEW heard, heard = <<>> \/ heard[1].start \in Nat
    PROVE  LET plan0 == Montage!DefaultPlan(Shot[v].length, MaxClip, heard)
           IN /\ plan0.start \in Nat /\ plan0.end \in Nat
              /\ Shot[v].length >= MinClip => Montage!ValidPlan(plan0, Shot[v].length, MaxClip)
<1> DEFINE first == IF heard = <<>> THEN 0 ELSE heard[1].start
           length == Shot[v].length
           target == Montage!Most(MinClip, Montage!Least(AimClip, MaxClip))
           start == Montage!Most(0, Montage!Least(first, length - MinClip))
           end == Montage!Most(start + MinClip, Montage!Least(length, start + target))
<1>1. first \in Nat /\ length \in Nat
  BY MontageValues
<1>2. target \in Nat /\ MinClip <= target /\ target <= MaxClip
  BY MontageConstants DEF Montage!Most, Montage!Least
<1>3. Montage!DefaultPlan(Shot[v].length, MaxClip, heard) = [start |-> start, end |-> end]
  BY DEF Montage!DefaultPlan
<1> HIDE DEF first, length, target
<1>4. start \in Nat /\ (length >= MinClip => start <= length - MinClip)
  BY <1>1, MontageConstants DEF Montage!Most, Montage!Least
<1> HIDE DEF start
<1>5. /\ end \in Nat /\ start + MinClip <= end
      /\ length >= MinClip => end <= length /\ end <= start + target
  BY <1>1, <1>2, <1>4, MontageConstants DEF Montage!Most, Montage!Least
<1> HIDE DEF end
<1> QED
  BY <1>1, <1>2, <1>3, <1>4, <1>5, MontageConstants DEF Montage!ValidPlan, length

\* proposeVideoPlan: whatever the agent answers.
LEMMA ProposalFitsItsVideo ==
    ASSUME NEW v \in DOMAIN Shot, NEW answer
    PROVE  LET proposal == Montage!Proposal(v, answer)
           IN /\ proposal \in [start : Nat, end : Nat, label : {"agent", "fallback"}]
              /\ Shot[v].length >= MinClip => Montage!ValidPlan(proposal, Shot[v].length, MaxClip)
<1> DEFINE heard == Montage!Segments(v)
           plan0 == Montage!DefaultPlan(Shot[v].length, MaxClip, heard)
<1>1. heard = <<>> \/ heard[1].start \in Nat
  BY MontageValues DEF Montage!Segments
<1>2. /\ plan0.start \in Nat /\ plan0.end \in Nat
      /\ Shot[v].length >= MinClip => Montage!ValidPlan(plan0, Shot[v].length, MaxClip)
  BY <1>1, DefaultFits
<1>3. CASE answer \in Answerable /\ heard # <<>> /\ Montage!ValidPlan(answer, Shot[v].length, MaxClip)
  <2>1. Montage!Proposal(v, answer) = [start |-> answer.start, end |-> answer.end, label |-> "agent"]
    BY <1>3 DEF Montage!Proposal
  <2>2. answer.start \in Int /\ answer.end \in Int /\ Shot[v].length \in Nat
    BY <1>3, MontageValues
  <2>3. 0 <= answer.start /\ answer.start < answer.end
    BY <1>3 DEF Montage!ValidPlan
  <2> QED
    BY <1>3, <2>1, <2>2, <2>3 DEF Montage!ValidPlan
<1>4. CASE ~(answer \in Answerable /\ heard # <<>> /\ Montage!ValidPlan(answer, Shot[v].length, MaxClip))
  <2>1. Montage!Proposal(v, answer) = [start |-> plan0.start, end |-> plan0.end, label |-> "fallback"]
    BY <1>4 DEF Montage!Proposal
  <2> HIDE DEF plan0
  <2> QED
    BY <1>2, <2>1 DEF Montage!ValidPlan
<1> QED
  BY <1>3, <1>4

LEMMA MontageInit == Montage!Init => MontageInv
<1> SUFFICES ASSUME Montage!Init PROVE MontageInv
  OBVIOUS
<1>1. Montage!NoChoice \in Choices
  BY DEF Montage!NoChoice, Montage!Nothing, Choices
<1>2. montage \in [start : Nat, end : Nat, label : {"none", "agent", "fallback"}, for : Choices]
  BY <1>1 DEF Montage!Init, Montage!NoPlan, Montage!Nothing
<1>3. Montage!FormAgrees
  BY DEF Montage!Init, Montage!NoLaunch, Montage!FormAgrees
<1>4. posted.label # "agent" /\ montage.label # "agent"
  BY DEF Montage!Init, Montage!NoLaunch, Montage!NoPlan, Montage!Nothing
<1>5. FitsItsVideo(montage) /\ NamedAfterAgent(montage)
  BY <1>4 DEF Montage!Init, FitsItsVideo, NamedAfterAgent
<1>6. /\ screen \in Choices /\ asking \in Choices /\ asking = Montage!NoChoice
      /\ montage = Montage!NoPlan /\ bounds \in [start : Nat, end : Nat]
      /\ transcribed \subseteq DOMAIN Shot /\ approvals \subseteq {"t1", "t2"} /\ moved \in BOOLEAN
  BY <1>1 DEF Montage!Init
<1>7. asks \in 0 .. MaxAsks
  BY MontageConstants DEF Montage!Init
<1> QED
  BY <1>2, <1>3, <1>4, <1>5, <1>6, <1>7 DEF MontageInv

\* A choice changes: what is shown or awaited is said to be of another one.
LEMMA ChoosingKeepsMontage ==
    ASSUME MontageInv,
           \/ \E c \in {"t1", "t2"} : Montage!ChooseContent(c)
           \/ \E v \in DOMAIN Shot : Montage!ChooseSource(v)
    PROVE  MontageInv'
<1>1. /\ screen' \in Choices /\ bounds' \in [start : Nat, end : Nat]
      /\ montage' = Montage!NoPlan /\ moved' = (moved \/ asking # Montage!NoChoice)
      /\ UNCHANGED <<asking, approvals, transcribed, posted, proposals, asks>>
  <2>1. CASE \E c \in {"t1", "t2"} : Montage!ChooseContent(c)
    BY <2>1 DEF Montage!ChooseContent, Montage!Awaited, MontageInv, Choices
  <2>2. CASE \E v \in DOMAIN Shot : Montage!ChooseSource(v)
    <3>1. PICK v \in DOMAIN Shot : Montage!ChooseSource(v)
      BY <2>2
    <3> DEFINE times == [start |-> 0, end |-> Montage!Least(Shot[v].length, MaxClip)]
    <3>2. times.start \in Nat /\ times.end \in Nat
      BY MontageValues, MontageConstants DEF Montage!Least
    <3>3. bounds' = Montage!Fields(times) /\ montage' = Montage!NoPlan
      BY <3>1 DEF Montage!ChooseSource, Montage!Reset
    <3> HIDE DEF times
    <3> QED
      BY <3>1, <3>2, <3>3, FieldsAreNat DEF Montage!ChooseSource, Montage!Awaited, MontageInv, Choices
  <2> QED
    BY <2>1, <2>2
<1>2. Montage!NoPlan \in [start : Nat, end : Nat, label : {"none", "agent", "fallback"}, for : Choices]
  BY DEF Montage!NoPlan, Montage!NoChoice, Montage!Nothing, Choices
<1>3. Montage!NoPlan.label # "agent"
  BY DEF Montage!NoPlan, Montage!Nothing
<1>4. Montage!FormAgrees'
  BY <1>1 DEF MontageInv, Montage!FormAgrees
<1>5. (posted.label = "agent" => NamedAfterAgent(posted))'
  BY <1>1 DEF MontageInv, NamedAfterAgent
<1>6. FitsItsVideo(montage)' /\ NamedAfterAgent(montage)'
  BY <1>1, <1>3 DEF FitsItsVideo, NamedAfterAgent
<1> QED
  BY <1>1, <1>2, <1>4, <1>5, <1>6 DEF MontageInv

\* A transcript arrives: the bounds of its video are those of its length again.
LEMMA TranscribingKeepsMontage ==
    ASSUME MontageInv, NEW v \in DOMAIN Shot, Montage!Transcribed(v)
    PROVE  MontageInv'
<1> DEFINE times == [start |-> 0, end |-> Montage!Least(Shot[v].length, MaxClip)]
<1>1. times.start \in Nat /\ times.end \in Nat
  BY MontageValues, MontageConstants DEF Montage!Least
<1>2. /\ transcribed' = transcribed \cup {v}
      /\ UNCHANGED <<screen, asking, approvals, posted, proposals, asks, moved>>
  BY DEF Montage!Transcribed
<1>3. (bounds' = Montage!Fields(times) /\ montage' = Montage!NoPlan) \/ UNCHANGED <<bounds, montage>>
  BY DEF Montage!Transcribed, Montage!Reset
<1> HIDE DEF times
<1>4. bounds' \in [start : Nat, end : Nat]
  BY <1>1, <1>3, FieldsAreNat DEF MontageInv
<1>5. montage' = Montage!NoPlan \/ montage' = montage
  BY <1>3
<1>6. Montage!NoPlan \in [start : Nat, end : Nat, label : {"none", "agent", "fallback"}, for : Choices]
  BY DEF Montage!NoPlan, Montage!NoChoice, Montage!Nothing, Choices
<1>7. Montage!NoPlan.label # "agent"
  BY DEF Montage!NoPlan, Montage!Nothing
<1>8. Montage!FormAgrees' /\ (posted.label = "agent" => NamedAfterAgent(posted))'
  BY <1>2 DEF MontageInv, Montage!FormAgrees, NamedAfterAgent
<1>9. FitsItsVideo(montage)' /\ NamedAfterAgent(montage)'
  BY <1>2, <1>5, <1>7 DEF MontageInv, FitsItsVideo, NamedAfterAgent
<1> QED
  BY <1>2, <1>4, <1>5, <1>6, <1>8, <1>9 DEF MontageInv

\* A proposal is asked for, and its video has a transcript.
LEMMA AskingKeepsMontage == MontageInv /\ Montage!Propose => MontageInv'
<1> SUFFICES ASSUME MontageInv, Montage!Propose PROVE MontageInv'
  OBVIOUS
<1>1. /\ asking' = screen \/ asking' = Montage!NoChoice
      /\ screen.source \in transcribed /\ moved' = (montage # Montage!NoPlan /\ moved)
      /\ UNCHANGED <<screen, bounds, montage, approvals, transcribed, posted, proposals>>
      /\ asks < MaxAsks /\ asks' = asks + 1
  BY DEF Montage!Propose, Montage!Once, Montage!Blocked, Montage!Segments
<1>2. Montage!NoChoice \in Choices
  BY DEF Montage!NoChoice, Montage!Nothing, Choices
<1>3. Montage!FormAgrees' /\ (posted.label = "agent" => NamedAfterAgent(posted))'
  BY <1>1 DEF MontageInv, Montage!FormAgrees, NamedAfterAgent
<1>4. FitsItsVideo(montage)' /\ NamedAfterAgent(montage)'
  BY <1>1 DEF MontageInv, FitsItsVideo, NamedAfterAgent
<1>5. asks' \in 0 .. MaxAsks
  BY <1>1, MontageConstants DEF MontageInv
<1> QED
  BY <1>1, <1>2, <1>3, <1>4, <1>5 DEF MontageInv

\* The answer is shown for the choice it was asked for.
LEMMA AnsweringKeepsMontage ==
    ASSUME MontageInv, NEW answer, Montage!Proposed(answer)
    PROVE  MontageInv'
<1> DEFINE proposal == Montage!Proposal(asking.source, answer)
<1>1. asking # Montage!NoChoice /\ asking \in Choices /\ asking.source \in transcribed
      /\ asking.source \in DOMAIN Shot
  BY DEF Montage!Proposed, Montage!Awaited, MontageInv
<1>2. /\ proposal \in [start : Nat, end : Nat, label : {"agent", "fallback"}]
      /\ Shot[asking.source].length >= MinClip =>
           Montage!ValidPlan(proposal, Shot[asking.source].length, MaxClip)
  BY <1>1, ProposalFitsItsVideo
<1>3. /\ montage' = [start |-> proposal.start, end |-> proposal.end, label |-> proposal.label,
                    for |-> asking]
      /\ bounds' = Montage!Fields(proposal)
      /\ proposals' = proposals \cup {<<asking, proposal>>}
      /\ asking' = Montage!NoChoice
      /\ UNCHANGED <<screen, approvals, transcribed, posted, asks, moved>>
  BY DEF Montage!Proposed
<1> HIDE DEF proposal
<1>4. bounds' \in [start : Nat, end : Nat]
  BY <1>2, <1>3, FieldsAreNat
<1>5. montage' \in [start : Nat, end : Nat, label : {"none", "agent", "fallback"}, for : Choices]
  BY <1>1, <1>2, <1>3
<1>6. Montage!NoChoice \in Choices
  BY DEF Montage!NoChoice, Montage!Nothing, Choices
<1>7. Montage!FormAgrees'
  BY <1>3 DEF MontageInv, Montage!FormAgrees
<1>8. (posted.label = "agent" => NamedAfterAgent(posted))'
  BY <1>3 DEF MontageInv, NamedAfterAgent
<1>9. FitsItsVideo(montage)'
  BY <1>1, <1>2, <1>3 DEF FitsItsVideo, Montage!ValidPlan
<1>10. NamedAfterAgent(montage)'
  <2>1. ASSUME montage'.label = "agent"
        PROVE  proposal = [start |-> montage'.start, end |-> montage'.end, label |-> "agent"]
    BY <2>1, <1>2, <1>3
  <2>2. <<asking, proposal>> \in proposals' /\ montage'.for = asking
    BY <1>3
  <2> DEFINE pair == <<asking, proposal>>
  <2>3. pair[1] = asking /\ pair[2] = proposal /\ pair \in proposals'
    BY <2>2
  <2> HIDE DEF pair
  <2> QED
    BY <2>1, <2>2, <2>3 DEF NamedAfterAgent
<1> QED
  BY <1>1, <1>3, <1>4, <1>5, <1>6, <1>7, <1>8, <1>9, <1>10 DEF MontageInv

\* What the form lets out is within the bounds of the API.
LEMMA LaunchingKeepsMontage == MontageInv /\ Montage!Launch => MontageInv'
<1> SUFFICES ASSUME MontageInv, Montage!Launch PROVE MontageInv'
  OBVIOUS
<1>1. /\ posted' = [content |-> screen.content, source |-> screen.source,
                   start |-> bounds.start, end |-> bounds.end, label |-> Montage!Label(bounds),
                   for |-> montage.for, moved |-> moved,
                   refusal |-> Montage!Refusal(screen.content, screen.source, bounds)]
      /\ UNCHANGED <<screen, bounds, montage, asking, approvals, transcribed, proposals, moved>>
      /\ asks < MaxAsks /\ asks' = asks + 1
      /\ montage # Montage!NoPlan /\ Montage!FormAccepts(bounds, screen.source)
      /\ screen.source \in DOMAIN Shot
  BY DEF Montage!Launch, Montage!Once, Montage!Nothing, MontageInv, Choices
<1>2. LET refusal == Montage!Refusal(screen.content, screen.source, bounds)
      IN \/ refusal \in {"none", "too short", "silent", "not approved"}
         \/ refusal = "not transcribed" /\ screen.source \notin transcribed
  <2>1. bounds.start \in Nat /\ bounds.end \in Nat /\ Shot[screen.source].length \in Nat
    BY <1>1, MontageValues DEF MontageInv
  <2>2. /\ ~(bounds.end <= bounds.start) /\ ~(bounds.end > Shot[screen.source].length)
        /\ ~(bounds.end - bounds.start > MaxClip)
    BY <1>1, <2>1, MontageConstants DEF Montage!FormAccepts
  <2> QED
    BY <2>2 DEF Montage!Refusal
<1>3. montage.for.source \in transcribed
  BY <1>1 DEF MontageInv, FitsItsVideo
<1>4. Montage!FormAgrees'
  <2>1. /\ posted'.refusal = Montage!Refusal(screen.content, screen.source, bounds)
        /\ posted'.for = montage.for /\ posted'.source = screen.source
        /\ posted'.content = screen.content /\ posted'.moved = moved
    BY <1>1
  <2>2. screen = [content |-> screen.content, source |-> screen.source]
    BY DEF MontageInv, Choices
  <2>3. ~moved => montage.for = screen
    BY <1>1 DEF MontageInv
  <2>4. ~posted'.moved => posted'.for = [content |-> posted'.content, source |-> posted'.source]
    BY <2>1, <2>2, <2>3
  <2>5. \/ posted'.refusal \in {"none", "too short", "silent", "not approved"}
        \/ posted'.refusal = "not transcribed" /\ posted'.for.source # posted'.source
    BY <1>2, <1>3, <2>1
  <2> QED
    BY <2>4, <2>5 DEF Montage!FormAgrees
<1>5. (posted.label = "agent" => NamedAfterAgent(posted))'
  <2>1. Montage!Label(bounds) = "agent" =>
          montage.label = "agent" /\ bounds.start = montage.start /\ bounds.end = montage.end
    BY DEF Montage!Label
  <2> QED
    BY <1>1, <2>1 DEF MontageInv, NamedAfterAgent
<1>6. FitsItsVideo(montage)' /\ NamedAfterAgent(montage)'
  BY <1>1 DEF MontageInv, FitsItsVideo, NamedAfterAgent
<1>7. asks' \in 0 .. MaxAsks
  BY <1>1, MontageConstants DEF MontageInv
<1> QED
  BY <1>1, <1>4, <1>5, <1>6, <1>7 DEF MontageInv

LEMMA MontageRests == MontageInv /\ UNCHANGED cutting => MontageInv'
<1> SUFFICES ASSUME MontageInv, UNCHANGED cutting PROVE MontageInv'
  OBVIOUS
<1>1. /\ screen' = screen /\ bounds' = bounds /\ montage' = montage /\ asking' = asking
      /\ approvals' = approvals /\ transcribed' = transcribed /\ posted' = posted
      /\ proposals' = proposals /\ asks' = asks /\ moved' = moved
  BY DEF cutting
<1>2. Montage!FormAgrees' /\ (posted.label = "agent" => NamedAfterAgent(posted))'
  BY <1>1 DEF MontageInv, Montage!FormAgrees, NamedAfterAgent
<1>3. FitsItsVideo(montage)' /\ NamedAfterAgent(montage)'
  BY <1>1 DEF MontageInv, FitsItsVideo, NamedAfterAgent
<1> QED
  BY <1>1, <1>2, <1>3 DEF MontageInv

LEMMA MontageStep == MontageInv /\ [Montage!Next]_cutting => MontageInv'
<1> SUFFICES ASSUME MontageInv, [Montage!Next]_cutting PROVE MontageInv'
  OBVIOUS
<1>1. CASE \E c \in {"t1", "t2"} : Montage!ChooseContent(c)
  BY <1>1, ChoosingKeepsMontage
<1>2. CASE \E v \in DOMAIN Shot : Montage!ChooseSource(v)
  BY <1>2, ChoosingKeepsMontage
<1>3. CASE \E v \in DOMAIN Shot : Montage!Transcribed(v)
  BY <1>3, TranscribingKeepsMontage
<1>4. CASE Montage!Propose
  BY <1>4, AskingKeepsMontage
<1>5. CASE Montage!Launch
  BY <1>5, LaunchingKeepsMontage
<1>6. CASE \E answer \in Answerable \cup {Montage!NoAnswer} : Montage!Proposed(answer)
  <2>1. PICK answer \in Answerable \cup {Montage!NoAnswer} : Montage!Proposed(answer)
    BY <1>6
  <2> QED
    BY <2>1, AnsweringKeepsMontage
\* What is left moves the bounds, the request awaited or the approvals alone.
<1>7. CASE \/ \E c \in {"t1", "t2"} : Montage!Disapprove(c)
           \/ Montage!ProposalLost
           \/ \E times \in Entered : Montage!Type(times)
  <2>1. /\ UNCHANGED <<screen, montage, transcribed, posted, proposals, moved>>
        /\ asking' = asking \/ asking' = Montage!NoChoice
        /\ bounds' = bounds \/ bounds' \in Entered
        /\ approvals' \subseteq approvals
        /\ asks' = asks \/ (asks < MaxAsks /\ asks' = asks + 1)
    BY <1>7 DEF Montage!Disapprove, Montage!ProposalLost, Montage!Type, Montage!Once
  <2>2. Montage!NoChoice \in Choices
    BY DEF Montage!NoChoice, Montage!Nothing, Choices
  <2>3. bounds' \in [start : Nat, end : Nat] /\ asks' \in 0 .. MaxAsks
    BY <2>1, MontageValues, MontageConstants DEF MontageInv
  <2>4. Montage!FormAgrees' /\ (posted.label = "agent" => NamedAfterAgent(posted))'
    BY <2>1 DEF MontageInv, Montage!FormAgrees, NamedAfterAgent
  <2>5. FitsItsVideo(montage)' /\ NamedAfterAgent(montage)'
    BY <2>1 DEF MontageInv, FitsItsVideo, NamedAfterAgent
  <2> QED
    BY <2>1, <2>2, <2>3, <2>4, <2>5 DEF MontageInv
<1>8. CASE UNCHANGED cutting
  BY <1>8, MontageRests
<1> QED
  BY <1>1, <1>2, <1>3, <1>4, <1>5, <1>6, <1>7, <1>8 DEF Montage!Next

LEMMA MontageHolds ==
    ASSUME MontageInv
    PROVE  /\ Montage!TypeOK /\ Montage!PlanOfSelection /\ Montage!ProposalFits
           /\ Montage!FormAgrees /\ Montage!LabelIsTrue
<1>1. Montage!TypeOK
  BY DEF MontageInv, Montage!TypeOK, Choices, Montage!Nothing
<1>2. Montage!PlanOfSelection /\ Montage!ProposalFits /\ Montage!FormAgrees
  BY DEF MontageInv, FitsItsVideo, Montage!PlanOfSelection, Montage!ProposalFits
<1>3. Montage!LabelIsTrue
  BY DEF MontageInv, NamedAfterAgent, Montage!LabelIsTrue
<1> QED
  BY <1>1, <1>2, <1>3
------------------------------------------------------------------------------
(* All of them.  A step of one component leaves the invariants of the       *)
(* others as they are.                                                     *)

EditingInv ==
    /\ InterviewInv /\ MemoryInv /\ ProfilesInv /\ PlanInv /\ VoiceInv /\ ImportInv /\ PromptInv
    /\ HealthInv /\ HandInv /\ CostsInv /\ MontageInv /\ InputInv

LEMMA EditingInit == Init => EditingInv
BY InterviewInit, MemoryInit, ProfilesInit, PlanInit, VoiceInit, ImportInit, PromptInit, HealthInit,
   HandInit, CostsInit, MontageInit, InputInit
   DEF Init, EditingInv

\* Each component takes a step of its own, or none.
Apart ==
    /\ [Interview!Next]_interview /\ [Memory!Next]_memory /\ [Profiles!Next]_profiles
    /\ [Plan!Next]_plan /\ [Voice!Next]_voice /\ [Import!Next]_import /\ [Prompts!Next]_prompts
    /\ [Health!Next]_health /\ [Hand!Next]_hand /\ [Costs!Next]_costs /\ [Montage!Next]_cutting
    /\ UNCHANGED input

LEMMA EditingApart == [Next]_vars => Apart
<1> SUFFICES ASSUME [Next]_vars PROVE Apart
  OBVIOUS
<1>1. CASE UNCHANGED vars
  BY <1>1 DEF vars, Apart
<1>2. CASE Next
  BY <1>2 DEF Next, Only, Still, Apart
<1> QED
  BY <1>1, <1>2

LEMMA InterviewRests == InterviewInv /\ UNCHANGED interview => InterviewInv'
<1> SUFFICES ASSUME InterviewInv, UNCHANGED interview PROVE InterviewInv'
  OBVIOUS
<1>0. /\ conv' = conv /\ messages' = messages /\ plans' = plans /\ briefs' = briefs
      /\ held' = held /\ turns' = turns /\ halted' = halted /\ cuts' = cuts
  BY DEF interview
<1>1. RowsAreFit' /\ CountsAreFit' /\ TurnsAreFit'
  BY <1>0 DEF InterviewInv, RowsAreFit, RowStands, CountsAreFit, TurnsAreFit, Interview!Created
<1>2. PlansAreFit'
  BY <1>0, Zenon DEF InterviewInv, PlansAreFit, Interview!Created
<1>3. BriefsAreFit'
  BY <1>0, Zenon DEF InterviewInv, BriefsAreFit
<1> QED
  BY <1>0, <1>1, <1>2, <1>3 DEF InterviewInv

LEMMA MemoryRests == MemoryInv /\ UNCHANGED memory => MemoryInv'
BY DEF MemoryInv, memory, MemoryTypes, LinksAgree, Survivors, Memory!Unreplaced, Memory!TrustedIsHuman

LEMMA ProfilesRest == ProfilesInv /\ UNCHANGED profiles => ProfilesInv'
BY DEF ProfilesInv, profiles, ProfileTypes, Profiles!LearningHasTarget, Profiles!OneProfilePerName

LEMMA HealthRests == HealthInv /\ UNCHANGED health => HealthInv'
<1> SUFFICES ASSUME HealthInv, UNCHANGED health PROVE HealthInv'
  OBVIOUS
<1>0. now' = now /\ table' = table /\ worker' = worker /\ since' = since /\ deaths' = deaths
  BY DEF health
<1>1. HealthTypes'
  BY <1>0 DEF HealthInv, HealthTypes
<1>2. BatchRuns'
  BY <1>0 DEF HealthInv, BatchRuns
<1>3. TimerIsOnTime'
  BY <1>0 DEF HealthInv, TimerIsOnTime, Health!Working
<1>4. DeadIsStill'
  BY <1>0 DEF HealthInv, DeadIsStill
<1> QED
  BY <1>1, <1>2, <1>3, <1>4 DEF HealthInv

LEMMA EditingStep == EditingInv /\ [Next]_vars => EditingInv'
<1> SUFFICES ASSUME EditingInv, [Next]_vars PROVE EditingInv'
  OBVIOUS
<1>0. Apart
  BY EditingApart
<1>1. InterviewInv'
  BY <1>0, InterviewStep, InterviewRests DEF EditingInv, Apart
<1>2. MemoryInv'
  BY <1>0, MemoryStep, MemoryRests DEF EditingInv, Apart
<1>3. ProfilesInv'
  BY <1>0, ProfilesStep, ProfilesRest DEF EditingInv, Apart
<1>4. PlanInv' /\ VoiceInv' /\ ImportInv' /\ PromptInv'
  BY <1>0, PlanStep, VoiceStep, ImportStep, PromptStep DEF EditingInv, Apart
<1>5. HealthInv'
  BY <1>0, HealthStep, HealthRests DEF EditingInv, Apart
<1>6. HandInv'
  BY <1>0, HandStep DEF EditingInv, Apart
<1>7. CostsInv'
  BY <1>0, CostsStep DEF EditingInv, Apart
<1>8. MontageInv'
  BY <1>0, MontageStep DEF EditingInv, Apart
<1>9. InputInv'
  BY <1>0 DEF EditingInv, Apart, InputInv, Findings
<1> QED
  BY <1>1, <1>2, <1>3, <1>4, <1>5, <1>6, <1>7, <1>8, <1>9 DEF EditingInv

LEMMA EditingStays == Spec => []EditingInv
BY EditingInit, EditingStep, PTL DEF Spec

\* store.ts (media), routes/media.ts, import-video.ts, prompt sync: whatever
\* requests and processes bring at once, for any number of them, a recording
\* and a film have one row, a row has its file, and the version of a prompt
\* that was inserted last is the one that is served.
THEOREM BroughtOnceStoredOnce == Spec => []StoredOnce
<1>1. EditingInv => StoredOnce
  BY VoiceHolds, ImportHolds, PromptHolds DEF EditingInv, StoredOnce
<1> QED
  BY <1>1, EditingStays, PTL

\* plan.ts, features/editorial.ts: whatever the agent answers and wherever the
\* API dies, nothing enters the plan on an invented quotation; a subject whose
\* creation or last selection was not cut between two rows has an angle, has
\* one selected angle at most, and is selected with it.
THEOREM PlanStaysSound == Spec => []PlanIsSound
<1>1. EditingInv => PlanIsSound
  BY PlanHolds DEF EditingInv, PlanIsSound
<1> QED
  BY <1>1, EditingStays, PTL

\* memory.ts, skills.ts, profiles.ts: through any replacements, cut or not, the
\* two links of a history agree and what was replaced is dead but for what was
\* cut; what may be quoted was confirmed by a human.
THEOREM MemoryStaysSound == Spec => []MemoryIsSound
<1>1. EditingInv => MemoryIsSound
  BY MemoryHolds, ProfilesHolds DEF EditingInv, MemoryIsSound
<1> QED
  BY <1>1, EditingStays, PTL

\* conversation store and routes: however turns, briefs and acceptances cross
\* and between whatever statements they are cut, the latest version of a brief
\* is alive, with one more for each cut at most; the stage is that of the first
\* gap, or brief_ready where a reopening or a generation was cut before the
\* refresh and until the next one; the count of the messages is behind by the
\* cuts at most, and what is accepted twice is written once, but for them.
THEOREM InterviewStaysCoherent == Spec => []InterviewHolds
<1>1. EditingInv => InterviewHolds
  BY InterviewKeeps DEF EditingInv, InterviewHolds
<1> QED
  BY <1>1, EditingStays, PTL

\* health.ts, heartbeat: whatever leases were taken over, a worker at work is
\* shown at work and a dead one silent, and the worst check is what is shown.
THEOREM HealthStaysTrue == Spec => []HealthIsTrue
<1>1. EditingInv => HealthIsTrue
  BY HealthKeeps, FindingsHold DEF EditingInv, HealthIsTrue
<1> QED
  BY <1>1, EditingStays, PTL

\* guard.ts, calls.ts: for any payers, limits, estimates and numbers of calls,
\* a limit is passed by the calls in flight only, a call that is over has a row
\* and no cost is counted twice.
THEOREM SpendingStaysBounded == Spec => []SpendingIsBounded
<1>1. EditingInv => SpendingIsBounded
  BY CostsHold DEF EditingInv, SpendingIsBounded
<1> QED
  BY <1>1, EditingStays, PTL

\* publishing.ts, content.ts: what is said to be posted by hand is the version
\* that was approved, unless the API died in the middle of a request or a draft
\* was written on a content that was no longer the one its run had read; it
\* always is under an account of its place, whose default account is the last
\* one unless the API died.
THEOREM PostedByHandIsApproved == Spec => []PublishedAsApproved
<1>1. EditingInv => PublishedAsApproved
  BY HandHolds DEF EditingInv, PublishedAsApproved, HandInv
<1> QED
  BY <1>1, EditingStays, PTL

\* VideoView.tsx, features/media.ts: whatever the agent answers, for any length
\* of a clip and any rounding of its bounds, the plan shown fits the video it
\* was asked for; it is shown, and launched, for the content and the video it
\* was asked for unless a choice changed while it was awaited, which the screen
\* does not look at.  Of the bounds that the form lets out the API refuses
\* those of a clip that is too short or silent, and no others; and the name of
\* the agent is given to bounds it proposed for the video of its plan.
THEOREM MontageStaysFit == Spec => []MontageFits
<1>1. EditingInv => MontageFits
  BY MontageHolds DEF EditingInv, MontageFits
<1> QED
  BY <1>1, EditingStays, PTL

\* Every component of the chain keeps its types.
THEOREM EditingTypes == Spec => []TypeOK
<1>1. EditingInv => TypeOK
  BY InterviewKeeps, MemoryHolds, ProfilesHolds, PlanHolds, VoiceHolds, ImportHolds, PromptHolds,
     CostsHold, MontageHolds, HealthKeeps, HandHolds
     DEF EditingInv, TypeOK, InputInv
<1> QED
  BY <1>1, EditingStays, PTL

\* No later request undoes a closing, an archiving, a level that was reached or
\* a recording that a message holds.
THEOREM WhatWasDoneStays == Spec => NothingIsUndone
<1>1. Spec => Interview!ClosedStays
  <2>1. EditingInv /\ [Next]_vars =>
          [\A c \in Conversations :
             conv[c].stage = "closed" /\ conv'[c].stage # "closed" =>
               ~conv'[c].closedAt \/ Len(briefs'[c]) > Len(briefs[c])]_(Interview!convVars)
    BY EditingApart, InterviewStep DEF EditingInv, Apart, LeftOpenly, interview, Interview!convVars
  <2> QED
    BY EditingStays, <2>1, PTL DEF Spec, Interview!ClosedStays
<1>2. Spec => Memory!ArchivedIsFrozen
  <2>1. EditingInv /\ [Next]_vars => [status # "archived"]_(Memory!memoryVars)
    BY EditingApart, MemoryFrozen DEF EditingInv, Apart, memory, Memory!memoryVars
  <2> QED
    BY EditingStays, <2>1, PTL DEF Spec, Memory!ArchivedIsFrozen
<1>3. Spec => Profiles!LevelsRise
  <2>1. EditingInv /\ [Next]_vars =>
          [\A s \in DOMAIN skills :
             skills'[s].level >= skills[s].level
               /\ skills'[s].confidence >= skills[s].confidence]_(Profiles!profileVars)
    BY EditingApart, ProfilesStep DEF EditingInv, Apart, profiles, Profiles!profileVars
  <2> QED
    BY EditingStays, <2>1, PTL DEF Spec, Profiles!LevelsRise
<1>4. Spec => Voice!EvidenceIsKept
  <2>1. EditingInv /\ [Next]_vars =>
          [\A m \in notes : m.attached /\ m.asset \in Voice!Known =>
             m.asset \in DOMAIN assets' \/ m.asset \in doomed]_(Voice!vars)
    BY EditingApart, HeldEvidenceStays DEF EditingInv, Apart, voice, Voice!vars, Voice!Known
  <2> QED
    BY EditingStays, <2>1, PTL DEF Spec, Voice!EvidenceIsKept
<1> QED
  BY <1>1, <1>2, <1>3, <1>4 DEF NothingIsUndone

------------------------------------------------------------------------------
(* Rules of the chain for any input, where TLC reads those of MCEditing.   *)

\* capabilities.ts: no account of any platform, whatever was recorded of it, is
\* given a level above what it may do, and none loses a level by a capability.
THEOREM AnyLevelIsEarned ==
    ASSUME NEW recorded \in [level : {"A", "B", "C", "absent"}, direct : Capability, draft : Capability],
           NEW platform, NEW connection
    PROVE  LevelIsEarned(recorded, platform, connection)
<1>1. \A d1, d2 \in Capability :
        LET c == [recorded EXCEPT !.direct = d1, !.draft = d2]
        IN c.level = recorded.level /\ c.direct = d1 /\ c.draft = d2
  OBVIOUS
<1>2. /\ Mode(recorded) \in {"A", "B", "C"}
      /\ Mode(recorded) = "A" => recorded.direct # "no"
      /\ Mode(recorded) = "B" => recorded.draft # "no"
  BY DEF Mode, Capability
<1>3. ASSUME NEW d1 \in Capability, NEW d2 \in Capability,
             Given(d1) >= Given(recorded.direct), Given(d2) >= Given(recorded.draft)
      PROVE  LevelRank(Mode([recorded EXCEPT !.direct = d1, !.draft = d2])) >= LevelRank(Mode(recorded))
  <2> DEFINE c == [recorded EXCEPT !.direct = d1, !.draft = d2]
  <2>1. c.level = recorded.level /\ c.direct = d1 /\ c.draft = d2
    BY <1>1
  <2> HIDE DEF c
  <2>2. LevelRank(Mode(c)) >= LevelRank(Mode(recorded))
    BY <1>3, <2>1 DEF Mode, Capability, Given, LevelRank
  <2> QED
    BY <2>2 DEF c
<1>4. LevelRank("C") >= LevelRank("C")
  BY DEF LevelRank
<1>5. CASE platform \in ApiPlatforms /\ connection = "connected"
  <2>1. \A c : Resolved(c, platform, connection) = Mode(c)
    BY <1>5 DEF Resolved
  <2> QED
    BY <1>2, <1>3, <1>5, <2>1 DEF LevelIsEarned
<1>6. CASE ~(platform \in ApiPlatforms /\ connection = "connected")
  <2>1. \A c : Resolved(c, platform, connection) = "C"
    BY <1>6 DEF Resolved
  <2> QED
    BY <1>4, <2>1 DEF LevelIsEarned
<1> QED
  BY <1>5, <1>6

\* routes/videos.ts (sendMediaFile): whatever bounds a browser asks for and
\* whatever the size of the file, an empty one too, the part that is announced
\* is in the file, and the parts that follow each other reach its end.
THEOREM AnyRangeIsInside ==
    ASSUME NEW first \in Nat \cup {Unsaid}, NEW last \in Nat \cup {Unsaid}, NEW size \in Nat
    PROVE  Media!RangeIsInside(first, last, size)
<1>1. Unsaid \notin Int
  BY EditingAssumption DEF Media!MediaAssumption
<1> DEFINE start == Media!FirstByte(first)
           end == Media!LastByte(last, size)
           served == Media!Served(first, last, size)
<1>2. start \in Nat /\ end \in Int /\ end <= size - 1
  BY <1>1 DEF Media!FirstByte, Media!LastByte
<1>3. served = IF start <= end THEN [status |-> 206, start |-> start, length |-> end - start + 1]
               ELSE [status |-> 200, start |-> 0, length |-> size]
  BY DEF Media!Served
<1>4. \A next \in Nat : next < size =>
        Media!Served(next, Unsaid, size) = [status |-> 206, start |-> next, length |-> size - next]
  <2>1. ASSUME NEW next \in Nat, next < size
        PROVE  Media!Served(next, Unsaid, size) = [status |-> 206, start |-> next, length |-> size - next]
    <3>1. Media!FirstByte(next) = next /\ Media!LastByte(Unsaid, size) = size - 1
      BY <1>1 DEF Media!FirstByte, Media!LastByte
    <3>2. next <= size - 1 /\ size - 1 - next + 1 = size - next
      BY <2>1
    <3> QED
      BY <3>1, <3>2 DEF Media!Served
  <2> QED
    BY <2>1
<1> HIDE DEF start, end, served
<1>5. CASE start <= end
  <2>1. served.status = 206 /\ served.start = start /\ served.length = end - start + 1
    BY <1>3, <1>5
  <2>2. /\ start + (end - start + 1) <= size /\ end - start + 1 > 0 /\ start < size
        /\ start + (end - start + 1) \in Nat
        /\ size - (start + (end - start + 1)) = size - start - (end - start + 1)
    BY <1>2, <1>5
  <2> QED
    BY <1>4, <2>1, <2>2 DEF Media!RangeIsInside, served
<1>6. CASE ~(start <= end)
  <2>1. served.status = 200 /\ served.start = 0 /\ served.length = size
    BY <1>3, <1>6
  <2> QED
    BY <2>1 DEF Media!RangeIsInside, served
<1> QED
  BY <1>5, <1>6

\* video.ts, features/media.ts: whatever ffprobe says of a file, a film that is
\* imported can be cut or is too long, which is said, as its cropping is.
THEOREM AnyImportCanBeCut ==
    ASSUME NEW source, Media!ProbeOf(source).duration \in Int \cup {Unsaid}
    PROVE  Media!ImportedCanBeCut(source)
<1> DEFINE probe == Media!ProbeOf(source)
<1> SUFFICES ASSUME Media!Supported(probe)
             PROVE  /\ Media!SourceRefusal(probe) \in {"none", "VIDEO_TOO_LONG"}
                    /\ Media!SourceRefusal(probe) = "VIDEO_TOO_LONG" /\ MaxVideo >= 30 =>
                         "long" \in Media!ImportWarnings(probe)
                    /\ \A heard \in BOOLEAN : "cropped" \in Media!PlanWarnings(probe, heard) =>
                         "cropped" \in Media!ImportWarnings(probe)
  BY DEF Media!ImportedCanBeCut
<1>1. MaxVideo \in Nat /\ probe.duration \in Int /\ probe.duration # Unsaid /\ probe.duration > 0
  BY EditingAssumption DEF Media!MediaAssumption, Media!Supported
<1> HIDE DEF probe
<1>2. Media!SourceRefusal(probe) = IF probe.duration > MaxVideo THEN "VIDEO_TOO_LONG" ELSE "none"
  BY <1>1 DEF Media!SourceRefusal
<1>3. probe.duration > MaxVideo /\ MaxVideo >= 30 => "long" \in Media!ImportWarnings(probe)
  BY <1>1 DEF Media!ImportWarnings
<1>4. Media!Wide(probe) => "cropped" \in Media!ImportWarnings(probe)
  BY DEF Media!ImportWarnings
<1>5. \A heard \in BOOLEAN : "cropped" \in Media!PlanWarnings(probe, heard) => Media!Wide(probe)
  BY Zenon DEF Media!PlanWarnings
<1> QED
  BY <1>2, <1>3, <1>4, <1>5

\* video.ts (defaultRenderPlan): for any video that is long enough, wherever
\* its speech starts, the plan computed without an agent is a valid one.
THEOREM AnyDefaultPlanIsValid ==
    ASSUME NEW length \in Nat, NEW maxClip \in Nat, NEW heard,
           heard = <<>> \/ heard[1].start \in Int
    PROVE  Clip!DefaultPlanIsValid(length, maxClip, heard)
<1> SUFFICES ASSUME length >= MinClip, maxClip >= MinClip
             PROVE  Clip!ValidPlan(Clip!DefaultPlan(length, maxClip, heard), length, maxClip)
  BY DEF Clip!DefaultPlanIsValid
<1> DEFINE first == IF heard = <<>> THEN 0 ELSE heard[1].start
           target == Clip!Most(MinClip, Clip!Least(AimClip, maxClip))
           start == Clip!Most(0, Clip!Least(first, length - MinClip))
           end == Clip!Most(start + MinClip, Clip!Least(length, start + target))
<1>1. first \in Int
  OBVIOUS
<1>2. target \in Nat /\ MinClip <= target /\ target <= maxClip
  BY MontageConstants DEF Clip!Most, Clip!Least
<1>3. Clip!DefaultPlan(length, maxClip, heard) = [start |-> start, end |-> end]
  BY DEF Clip!DefaultPlan
<1> HIDE DEF first, target
<1>4. start \in Nat /\ start <= length - MinClip
  BY <1>1, MontageConstants DEF Clip!Most, Clip!Least
<1> HIDE DEF start
<1>5. end \in Nat /\ start + MinClip <= end /\ end <= length /\ end <= start + target
  BY <1>1, <1>2, <1>4, MontageConstants DEF Clip!Most, Clip!Least
<1> HIDE DEF end
<1> QED
  BY <1>2, <1>3, <1>4, <1>5, MontageConstants DEF Clip!ValidPlan

\* What an exchange with a provider may be, for any tokens and any status.
AnyUsage == [prompt : Nat, cached : Nat, completion : Nat]

AnyExchange ==
    [net : {"answered", "cut", "late"}, status : Nat, usage : AnyUsage,
     payload : {"unreadable", "filtered", "empty", "json", "fenced", "unfit", "garbled"}]

\* A refusal is retried or not by its status alone.
ErrorIsSorted(reply) ==
    /\ Model!ErrorForStatus(reply).ok = FALSE
    /\ Model!ErrorForStatus(reply).category = "transient" <=> reply = 429 \/ reply >= 500
    /\ Model!ErrorForStatus(reply).category = "internal" <=>
         reply \notin {400, 401, 403, 422, 429} /\ reply < 500

LEMMA CallCases ==
    ASSUME NEW e \in AnyExchange, NEW price
    PROVE  LET call == Model!Call(e, price)
           IN /\ call.ok \in BOOLEAN
              /\ call.ok <=> Model!Succeeded(e) /\ e.payload \notin {"unreadable", "filtered", "empty"}
              /\ call.ok => call.cost = Model!Cost(e.usage, price)
              /\ ~call.ok =>
                   /\ call.category = "transient" <=>
                        \/ e.net # "answered" \/ (~Model!Succeeded(e) /\ (e.status = 429 \/ e.status >= 500))
                        \/ (Model!Succeeded(e) /\ e.payload = "empty")
                   /\ call.category = "internal" <=>
                        \/ /\ e.net = "answered" /\ ~Model!Succeeded(e)
                           /\ e.status \notin {400, 401, 403, 422, 429} /\ e.status < 500
                        \/ Model!Succeeded(e) /\ e.payload = "unreadable"
<1>1. /\ e.net \in {"answered", "cut", "late"} /\ e.status \in Nat
      /\ Model!Succeeded(e) <=> e.net = "answered" /\ e.status \in 200 .. 299
  BY DEF AnyExchange, Model!Succeeded
<1>2. CASE e.net = "late"
  BY <1>1, <1>2 DEF Model!Call, Model!Failure
<1>3. CASE e.net = "cut"
  BY <1>1, <1>3 DEF Model!Call, Model!Failure
<1>4. CASE e.net = "answered" /\ ~Model!Succeeded(e)
  <2>1. Model!Call(e, price) = Model!ErrorForStatus(e.status)
    BY <1>4 DEF Model!Call
  <2>2. ErrorIsSorted(e.status)
    <3>1. CASE e.status \in {401, 403}
      BY <3>1, <1>1 DEF ErrorIsSorted, Model!ErrorForStatus, Model!Failure
    <3>2. CASE e.status = 429
      BY <3>2, <1>1 DEF ErrorIsSorted, Model!ErrorForStatus, Model!Failure
    <3>3. CASE e.status >= 500
      BY <3>3, <1>1 DEF ErrorIsSorted, Model!ErrorForStatus, Model!Failure
    <3>4. CASE e.status \in {400, 422}
      BY <3>4, <1>1 DEF ErrorIsSorted, Model!ErrorForStatus, Model!Failure
    <3>5. CASE e.status \notin {400, 401, 403, 422, 429} /\ ~(e.status >= 500)
      BY <3>5, <1>1 DEF ErrorIsSorted, Model!ErrorForStatus, Model!Failure
    <3>6. \/ e.status \in {401, 403} \/ e.status = 429 \/ e.status >= 500
          \/ e.status \in {400, 422}
          \/ e.status \notin {400, 401, 403, 422, 429} /\ ~(e.status >= 500)
      BY <1>1
    <3> QED
      BY <3>1, <3>2, <3>3, <3>4, <3>5, <3>6, Zenon
  <2>3. /\ Model!Call(e, price).ok = FALSE
        /\ Model!Call(e, price).category = "transient" <=> e.status = 429 \/ e.status >= 500
        /\ Model!Call(e, price).category = "internal" <=>
             e.status \notin {400, 401, 403, 422, 429} /\ e.status < 500
    BY <2>1, <2>2, Zenon DEF ErrorIsSorted
  <2> DEFINE call == Model!Call(e, price)
  <2>4. e.net = "answered" /\ ~Model!Succeeded(e)
    BY <1>4
  <2>5. /\ call.ok = FALSE
        /\ call.category = "transient" <=> e.status = 429 \/ e.status >= 500
        /\ call.category = "internal" <=>
             e.status \notin {400, 401, 403, 422, 429} /\ e.status < 500
    BY <2>3
  <2> HIDE DEF call
  <2>6. /\ call.ok \in BOOLEAN
        /\ call.ok <=> Model!Succeeded(e) /\ e.payload \notin {"unreadable", "filtered", "empty"}
        /\ call.ok => call.cost = Model!Cost(e.usage, price)
    BY <2>4, <2>5
  <2>7. call.category = "transient" <=>
          \/ e.net # "answered" \/ (~Model!Succeeded(e) /\ (e.status = 429 \/ e.status >= 500))
          \/ (Model!Succeeded(e) /\ e.payload = "empty")
    BY <2>4, <2>5
  <2>8. call.category = "internal" <=>
          \/ /\ e.net = "answered" /\ ~Model!Succeeded(e)
             /\ e.status \notin {400, 401, 403, 422, 429} /\ e.status < 500
          \/ Model!Succeeded(e) /\ e.payload = "unreadable"
    BY <2>4, <2>5
  <2> QED
    BY <2>6, <2>7, <2>8 DEF call
<1>5. CASE Model!Succeeded(e)
  <2>1. Model!Call(e, price) =
          CASE e.payload = "unreadable" -> Model!Failure("internal", "LLM_RESPONSE_INVALID")
            [] e.payload = "filtered" -> Model!Failure("forbidden", "LLM_REFUSED")
            [] e.payload = "empty" -> Model!Failure("transient", "LLM_PROVIDER_ERROR")
            [] OTHER -> [ok |-> TRUE, cost |-> Model!Cost(e.usage, price)]
    BY <1>1, <1>5 DEF Model!Call
  <2>2. CASE e.payload = "unreadable"
    <3>1. Model!Call(e, price) = Model!Failure("internal", "LLM_RESPONSE_INVALID")
      BY <2>1, <2>2
    <3>2. Model!Call(e, price).ok = FALSE /\ Model!Call(e, price).category = "internal"
      BY <3>1 DEF Model!Failure
    <3> QED
      BY <1>1, <1>5, <2>2, <3>2
  <2>3. CASE e.payload = "filtered"
    <3>1. Model!Call(e, price) = Model!Failure("forbidden", "LLM_REFUSED")
      BY <2>1, <2>3
    <3>2. Model!Call(e, price).ok = FALSE /\ Model!Call(e, price).category = "forbidden"
      BY <3>1 DEF Model!Failure
    <3> QED
      BY <1>1, <1>5, <2>3, <3>2
  <2>4. CASE e.payload = "empty"
    <3>1. Model!Call(e, price) = Model!Failure("transient", "LLM_PROVIDER_ERROR")
      BY <2>1, <2>4
    <3>2. Model!Call(e, price).ok = FALSE /\ Model!Call(e, price).category = "transient"
      BY <3>1 DEF Model!Failure
    <3> QED
      BY <1>1, <1>5, <2>4, <3>2
  <2>5. CASE e.payload \notin {"unreadable", "filtered", "empty"}
    <3>1. Model!Call(e, price) = [ok |-> TRUE, cost |-> Model!Cost(e.usage, price)]
      BY <2>1, <2>5
    <3>2. Model!Call(e, price).ok = TRUE /\ Model!Call(e, price).cost = Model!Cost(e.usage, price)
      BY <3>1
    <3> QED
      BY <1>5, <2>5, <3>2
  <2> QED
    BY <2>2, <2>3, <2>4, <2>5
<1> QED
  BY <1>1, <1>2, <1>3, <1>4, <1>5

\* openai-compatible.ts, recording-provider.ts: whatever the provider answers,
\* once or twice, and at any prices, the row of an answer that is used has the
\* cost of what was exchanged for it, and the row of an error has none.
THEOREM AnyAnswerCostsItsExchanges ==
    ASSUME NEW answer, answer.key \in BOOLEAN, answer.first \in AnyExchange, answer.second \in AnyExchange
    PROVE  Model!CostIsWhole(answer)
<1> DEFINE price == answer.price
           one == Model!Call(answer.first, price)
           two == Model!Call(answer.second, price)
           result == Model!Answer(answer.key, answer.first, answer.second, price)
           exchanged == Model!Made(answer.first, answer.second)
           first == Model!Cost(answer.first.usage, price)
           second == Model!Cost(answer.second.usage, price)
<1>1. /\ one.ok \in BOOLEAN /\ two.ok \in BOOLEAN
      /\ one.ok => one.cost = first
      /\ two.ok => two.cost = second
      /\ one.ok /\ ~Model!Usable(answer.first) =>
           Model!Succeeded(answer.first) /\ answer.first.payload \in {"unfit", "garbled"}
      /\ Model!Usable(answer.first) => answer.first.payload \notin {"unfit", "garbled"}
  <2>1. answer.first.payload \in
          {"unreadable", "filtered", "empty", "json", "fenced", "unfit", "garbled"}
    BY DEF AnyExchange
  <2> QED
    BY <2>1, CallCases DEF Model!Usable
<1>2. /\ exchanged = IF Model!Succeeded(answer.first) /\ answer.first.payload \in {"unfit", "garbled"}
                THEN <<answer.first, answer.second>> ELSE <<answer.first>>
  BY DEF Model!Made
<1> DEFINE charged == [n \in DOMAIN exchanged |-> Model!Cost(exchanged[n].usage, price)]
<1>3. /\ exchanged = <<answer.first>> => Len(exchanged) = 1 /\ charged[1] = first
      /\ exchanged = <<answer.first, answer.second>> =>
           Len(exchanged) = 2 /\ charged[1] = first /\ charged[2] = second
  OBVIOUS
<1>4. Model!CostIsWhole(answer) <=>
        Model!Row(result).cost =
          IF Model!Row(result).status # "success" THEN 0
          ELSE IF Len(exchanged) = 1 THEN charged[1] ELSE charged[1] + charged[2]
  BY DEF Model!CostIsWhole
<1>5. /\ result.ok \in BOOLEAN
      /\ result.ok /\ exchanged = <<answer.first>> => result.cost = first
      /\ result.ok /\ exchanged = <<answer.first, answer.second>> => result.cost = first + second
  <2>1. CASE ~answer.key
    BY <2>1 DEF Model!Answer, Model!Failure
  <2>2. CASE answer.key /\ (~one.ok \/ Model!Usable(answer.first))
    <3>1. result = one
      BY <2>2 DEF Model!Answer, Model!Structured
    <3>2. one.ok => exchanged = <<answer.first>>
      BY <1>1, <1>2, <2>2
    <3> HIDE DEF one, result, exchanged, first, second
    <3> QED
      BY <1>1, <3>1, <3>2
  <2>3. CASE answer.key /\ ~(~one.ok \/ Model!Usable(answer.first))
    <3>1. exchanged = <<answer.first, answer.second>> /\ exchanged # <<answer.first>>
      BY <1>1, <1>2, <2>3
    <3>2. result = IF ~two.ok THEN two
                   ELSE IF Model!Usable(answer.second) THEN [ok |-> TRUE, cost |-> Model!Merged(one.cost, two.cost)]
                   ELSE Model!Failure("validation", "LLM_SCHEMA_MISMATCH")
      BY <2>3 DEF Model!Answer, Model!Structured
    <3>3. Model!Failure("validation", "LLM_SCHEMA_MISMATCH").ok = FALSE
      BY DEF Model!Failure
    <3> HIDE DEF one, two, result, exchanged, first, second
    <3> QED
      BY <1>1, <2>3, <3>1, <3>2, <3>3 DEF Model!Merged
  <2> QED
    BY <2>1, <2>2, <2>3
<1>6. /\ result.ok => Model!Row(result).status = "success" /\ Model!Row(result).cost = result.cost
      /\ ~result.ok => Model!Row(result).status # "success" /\ Model!Row(result).cost = 0
  BY DEF Model!Row
<1>7. exchanged = <<answer.first>> \/ exchanged = <<answer.first, answer.second>>
  BY <1>2
<1> HIDE DEF one, two, result, exchanged, first, second, charged
<1> QED
  BY <1>3, <1>4, <1>5, <1>6, <1>7

\* openai-compatible.ts, errors.ts: whatever went wrong, the queue tries again
\* when the trouble may pass, never when the same call must fail again, and
\* once when nobody knows.
THEOREM AnyFailureIsRetriedWhenUseful ==
    ASSUME NEW answer, answer.key \in BOOLEAN, answer.first \in AnyExchange, answer.second \in AnyExchange
    PROVE  Model!RetriedWhenUseful(answer)
<1> DEFINE price == answer.price
           one == Model!Call(answer.first, price)
           two == Model!Call(answer.second, price)
           result == Model!Answer(answer.key, answer.first, answer.second, price)
           exchanged == Model!Made(answer.first, answer.second)
           last == exchanged[Len(exchanged)]
           passing == answer.key /\ (\/ last.net # "answered"
                                     \/ last.status = 429 \/ last.status >= 500
                                     \/ Model!Succeeded(last) /\ last.payload = "empty")
           lasting == \/ ~answer.key
                      \/ last.net = "answered" /\ last.status \in {400, 401, 403, 422}
                      \/ Model!Succeeded(last) /\ last.payload \in {"filtered", "unfit", "garbled"}
<1>0. passing \in BOOLEAN /\ lasting \in BOOLEAN
  OBVIOUS
<1>1. /\ Model!DecideRetry("transient", 1, 3) = TRUE /\ Model!DecideRetry("transient", 2, 3) = TRUE
      /\ Model!DecideRetry("internal", 1, 3) = TRUE /\ Model!DecideRetry("internal", 2, 3) = FALSE
      /\ \A category : category \notin {"transient", "internal"} =>
            Model!DecideRetry(category, 1, 3) = FALSE /\ Model!DecideRetry(category, 2, 3) = FALSE
  BY DEF Model!DecideRetry, Model!Policy
\* What the exchange that decides says of the two columns.
<1>2. ASSUME answer.key, NEW e \in AnyExchange, last = e, NEW call, call = Model!Call(e, price),
             call.ok = FALSE, result = call
      PROVE  /\ Model!DecideRetry(result.category, 1, 3) = ~lasting
             /\ Model!DecideRetry(result.category, 2, 3) = (passing /\ ~lasting)
  <2>1. /\ e.net \in {"answered", "cut", "late"} /\ e.status \in Nat
        /\ e.payload \in {"unreadable", "filtered", "empty", "json", "fenced", "unfit", "garbled"}
        /\ Model!Succeeded(e) <=> e.net = "answered" /\ e.status \in 200 .. 299
    BY <1>2 DEF AnyExchange, Model!Succeeded
  <2>2. Model!Succeeded(e) => e.payload \in {"unreadable", "filtered", "empty"}
    BY <1>2, <2>1, CallCases
  <2>3. /\ call.category = "transient" <=>
             \/ e.net # "answered" \/ (~Model!Succeeded(e) /\ (e.status = 429 \/ e.status >= 500))
             \/ (Model!Succeeded(e) /\ e.payload = "empty")
        /\ call.category = "internal" <=>
             \/ /\ e.net = "answered" /\ ~Model!Succeeded(e)
                /\ e.status \notin {400, 401, 403, 422, 429} /\ e.status < 500
             \/ Model!Succeeded(e) /\ e.payload = "unreadable"
    BY <1>2, CallCases
  <2>4. /\ passing <=> \/ e.net # "answered" \/ e.status = 429 \/ e.status >= 500
                       \/ Model!Succeeded(e) /\ e.payload = "empty"
        /\ lasting <=> \/ e.net = "answered" /\ e.status \in {400, 401, 403, 422}
                       \/ Model!Succeeded(e) /\ e.payload \in {"filtered", "unfit", "garbled"}
    BY <1>2
  <2> HIDE DEF passing, lasting, last, result
  <2>5. CASE call.category = "transient"
    <3>1. passing /\ ~lasting
      BY <2>1, <2>2, <2>3, <2>4, <2>5
    <3> QED
      BY <1>0, <1>1, <1>2, <2>5, <3>1
  <2>6. CASE call.category = "internal"
    <3>1. ~lasting /\ ~passing
      BY <2>1, <2>2, <2>3, <2>4, <2>6
    <3> QED
      BY <1>0, <1>1, <1>2, <2>6, <3>1
  <2>7. CASE call.category \notin {"transient", "internal"}
    <3>1. lasting
      BY <2>1, <2>2, <2>3, <2>4, <2>7
    <3> QED
      BY <1>0, <1>1, <1>2, <2>7, <3>1
  <2> QED
    BY <2>5, <2>6, <2>7
<1>3. CASE ~answer.key
  <2>1. result.ok = FALSE /\ result.category = "auth" /\ lasting
    BY <1>3 DEF Model!Answer, Model!Failure
  <2> HIDE DEF passing, lasting, last, result
  <2>2. /\ Model!DecideRetry(result.category, 1, 3) = ~lasting
        /\ Model!DecideRetry(result.category, 2, 3) = (passing /\ ~lasting)
    BY <1>0, <1>1, <2>1
  <2> QED
    BY <2>2 DEF Model!RetriedWhenUseful, passing, lasting, last, result
<1>4. CASE answer.key
  <2>1. /\ one.ok \in BOOLEAN /\ two.ok \in BOOLEAN
        /\ one.ok <=> /\ Model!Succeeded(answer.first)
                      /\ answer.first.payload \notin {"unreadable", "filtered", "empty"}
        /\ two.ok <=> /\ Model!Succeeded(answer.second)
                      /\ answer.second.payload \notin {"unreadable", "filtered", "empty"}
    BY CallCases
  <2>2. /\ answer.first.payload \in
             {"unreadable", "filtered", "empty", "json", "fenced", "unfit", "garbled"}
        /\ answer.second.payload \in
             {"unreadable", "filtered", "empty", "json", "fenced", "unfit", "garbled"}
    BY DEF AnyExchange
  <2>3. result = Model!Structured(answer.first, answer.second, price)
    BY <1>4 DEF Model!Answer
  <2>4. CASE one.ok = FALSE
    <3>1. result = one /\ exchanged = <<answer.first>>
      BY <2>1, <2>2, <2>3, <2>4 DEF Model!Structured, Model!Made
    <3>2. last = answer.first
      BY <3>1
    <3> QED
      BY <1>2, <1>4, <2>4, <3>1, <3>2 DEF Model!RetriedWhenUseful
  <2>5. CASE one.ok = TRUE /\ Model!Usable(answer.first)
    BY <2>3, <2>5 DEF Model!Structured, Model!RetriedWhenUseful
  <2>6. CASE one.ok = TRUE /\ ~Model!Usable(answer.first)
    <3>1. exchanged = <<answer.first, answer.second>>
      BY <2>1, <2>2, <2>6 DEF Model!Made, Model!Usable
    <3>2. last = answer.second
      BY <3>1
    <3>3. result = IF ~two.ok THEN two
                   ELSE IF Model!Usable(answer.second) THEN [ok |-> TRUE, cost |-> Model!Merged(one.cost, two.cost)]
                   ELSE Model!Failure("validation", "LLM_SCHEMA_MISMATCH")
      BY <2>3, <2>6 DEF Model!Structured
    <3>4. CASE two.ok = FALSE
      BY <1>2, <1>4, <3>2, <3>3, <3>4 DEF Model!RetriedWhenUseful
    <3>5. CASE two.ok = TRUE /\ Model!Usable(answer.second)
      BY <3>3, <3>5 DEF Model!RetriedWhenUseful
    <3>6. CASE two.ok = TRUE /\ ~Model!Usable(answer.second)
      <4>1. result.category = "validation"
        BY <3>3, <3>6 DEF Model!Failure
      <4>2. lasting
        BY <2>1, <2>2, <3>2, <3>6 DEF Model!Usable
      <4> HIDE DEF passing, lasting, last, result
      <4>3. /\ Model!DecideRetry(result.category, 1, 3) = ~lasting
            /\ Model!DecideRetry(result.category, 2, 3) = (passing /\ ~lasting)
        BY <1>0, <1>1, <4>1, <4>2
      <4> QED
        BY <4>3 DEF Model!RetriedWhenUseful, passing, lasting, last, result
    <3> QED
      BY <2>1, <3>4, <3>5, <3>6
  <2> QED
    BY <2>1, <2>4, <2>5, <2>6
<1> QED
  BY <1>3, <1>4

\* pricing.ts: at any prices where the cache is not the dearer one, an exchange
\* within the tokens that were estimated costs no more than the estimate,
\* however both are rounded.
THEOREM AnyEstimateCovers ==
    ASSUME NEW answer, answer.first.usage \in AnyUsage,
           answer.first.usage.cached <= answer.first.usage.prompt,
           answer.price \in [input : Nat, cached : Nat, output : Nat],
           answer.price.cached <= answer.price.input
    PROVE  Model!EstimateCovers(answer)
<1>1. ASSUME NEW p \in Nat, NEW c \in Nat, NEW o \in Nat, NEW i \in Nat, NEW k \in Nat, NEW w \in Nat,
             NEW prompt \in Nat, NEW most \in Nat, c <= p, k <= i, p <= prompt, o <= most
      PROVE  (p - c) * i + c * k + o * w <= prompt * i + 0 * k + most * w
  <2>1. \A a, b, m \in Nat : a <= b => a * m <= b * m /\ m * a <= m * b
    OBVIOUS
  <2>2. c * k <= c * i /\ p * i <= prompt * i /\ o * w <= most * w
    BY <1>1, <2>1
  <2>3. (p - c) * i = p * i - c * i
    BY <1>1
  <2>4. 0 * k = 0
    OBVIOUS
  <2>5. /\ p * i \in Nat /\ c * i \in Nat /\ c * k \in Nat /\ prompt * i \in Nat
        /\ o * w \in Nat /\ most * w \in Nat
    OBVIOUS
  <2> QED
    BY <2>2, <2>3, <2>4, <2>5
<1>2. \A a, b \in Nat : a <= b => (a + 50) \div 100 <= (b + 50) \div 100
  OBVIOUS
<1> DEFINE usage == answer.first.usage
           price == answer.price
<1>3. ASSUME NEW prompt \in usage.prompt .. usage.prompt + 1,
             NEW most \in usage.completion .. usage.completion + 1
      PROVE  Model!Cost(usage, price) <= Model!Estimate(prompt, most, price)
  <2>1. /\ usage.prompt \in Nat /\ usage.cached \in Nat /\ usage.completion \in Nat
        /\ price.input \in Nat /\ price.cached \in Nat /\ price.output \in Nat
        /\ usage.cached <= usage.prompt /\ price.cached <= price.input
    BY DEF AnyUsage
  <2>2. /\ prompt \in Nat /\ most \in Nat /\ usage.prompt <= prompt /\ usage.completion <= most
    BY <1>3, <2>1
  <2> DEFINE paid == (usage.prompt - usage.cached) * price.input + usage.cached * price.cached
                       + usage.completion * price.output
             expected == prompt * price.input + 0 * price.cached + most * price.output
  <2>3. paid <= expected
    BY <1>1, <2>1, <2>2
  <2>4. paid \in Nat /\ expected \in Nat
    <3>1. \A a, b \in Nat : a * b \in Nat /\ a + b \in Nat
      OBVIOUS
    <3>2. usage.prompt - usage.cached \in Nat
      BY <2>1
    <3> QED
      BY <2>1, <2>2, <3>1, <3>2
  <2>5. Model!Cost(usage, price) = (paid + 50) \div 100
    BY <2>1 DEF Model!Cost, Model!Billable, Model!Rounded
  <2>6. Model!Estimate(prompt, most, price) = (expected + 50) \div 100
    BY <2>1, <2>2 DEF Model!Estimate, Model!Cost, Model!Billable, Model!Rounded
  <2> HIDE DEF paid, expected, usage, price
  <2> QED
    BY <1>2, <2>3, <2>4, <2>5, <2>6
<1> QED
  BY <1>3 DEF Model!EstimateCovers

------------------------------------------------------------------------------
(* The periods of the costs, for a day of DayHours hours, a week of        *)
(* WeekDays days and a month of MonthDays days.                            *)

CONSTANTS DayHours, WeekDays, MonthDays

Clock == INSTANCE Spending WITH
    Callers <- Payers, spent <- sums, rows <- callRows

\* A product grows with its factor; a division by what is not known leaves a
\* rest below it.
LEMMA Growing ==
    ASSUME NEW d \in Nat, NEW m \in Int, NEW n \in Int, m <= n
    PROVE  m * d <= n * d
<1>1. n * d = m * d + (n - m) * d
  OBVIOUS
<1>2. (n - m) * d >= 0
  OBVIOUS
<1>3. m * d \in Int /\ n * d \in Int /\ (n - m) * d \in Int
  OBVIOUS
<1> QED BY <1>1, <1>2, <1>3

LEMMA Divided ==
    ASSUME NEW d \in Nat \ {0}, NEW x \in Int
    PROVE  /\ x \div d \in Int /\ x % d \in 0 .. d - 1
           /\ x = (x \div d) * d + (x % d)
           /\ \A k \in Int : x \div d >= k <=> x >= k * d
<1>1. x \div d \in Int /\ x % d \in 0 .. d - 1 /\ x = (x \div d) * d + (x % d)
  OBVIOUS
<1>2. ASSUME NEW k \in Int
      PROVE  x \div d >= k <=> x >= k * d
  <2>1. CASE x \div d >= k
    BY <1>1, <2>1, Growing
  <2>2. CASE x \div d < k
    <3>1. (x \div d + 1) * d <= k * d
      BY <1>1, <2>2, Growing
    <3>2. (x \div d + 1) * d = (x \div d) * d + d
      BY <1>1
    <3>3. (x \div d) * d \in Int /\ k * d \in Int
      BY <1>1
    <3> QED BY <1>1, <2>2, <3>1, <3>2, <3>3
  <2> QED BY <1>1, <2>1, <2>2
<1> QED BY <1>1, <1>2

\* A zone whose clocks change away from midnight: they neither go back to it
\* nor jump over the beginning of the next day.
ZoneIsFit(zone) ==
    LET hour == (zone.change + zone.before) % DayHours IN
    /\ zone.before \in (-DayHours) .. DayHours /\ zone.after \in (-DayHours) .. DayHours /\ zone.change \in Int
    /\ hour > 0 /\ zone.before - zone.after < hour /\ zone.after - zone.before <= DayHours - hour

\* The first hour of a date: by the clocks before their change, up to the date
\* of the change.
FirstHour(zone, last, k) == k * DayHours - (IF k <= last THEN zone.before ELSE zone.after)

ChangeDate(zone) == (zone.change + zone.before) \div DayHours

LEMMA ChangeIsInside ==
    ASSUME DayHours \in Nat \ {0}, NEW zone, ZoneIsFit(zone), NEW k \in Int
    PROVE  /\ ChangeDate(zone) \in Int /\ k * DayHours \in Int /\ FirstHour(zone, ChangeDate(zone), k) \in Int
           /\ k <= ChangeDate(zone) =>
                k * DayHours - zone.before < zone.change /\ k * DayHours - zone.after < zone.change
           /\ k > ChangeDate(zone) =>
                k * DayHours - zone.before >= zone.change /\ k * DayHours - zone.after >= zone.change
<1> DEFINE q == ChangeDate(zone)
           r == (zone.change + zone.before) % DayHours
<1>1. /\ zone.before \in Int /\ zone.after \in Int /\ zone.change \in Int
      /\ r > 0 /\ zone.before - zone.after < r /\ zone.after - zone.before <= DayHours - r
  BY DEF ZoneIsFit
<1>2. /\ q \in Int /\ r \in 0 .. DayHours - 1 /\ zone.change + zone.before = q * DayHours + r
  <2>1. PICK x \in Int : x = zone.change + zone.before
    BY <1>1
  <2>2. x \div DayHours \in Int /\ x % DayHours \in 0 .. DayHours - 1 /\ x = (x \div DayHours) * DayHours + (x % DayHours)
    BY Divided
  <2> QED BY <2>1, <2>2 DEF ChangeDate
<1>3. k * DayHours \in Int /\ q * DayHours \in Int
  BY <1>2
<1> HIDE DEF q, r
<1>4. k <= q => k * DayHours <= q * DayHours
  BY <1>2, Growing
<1>5. k > q => k * DayHours >= q * DayHours + DayHours
  <2> SUFFICES ASSUME k > q PROVE k * DayHours >= q * DayHours + DayHours
    OBVIOUS
  <2>1. (q + 1) * DayHours <= k * DayHours
    BY <1>2, Growing
  <2>2. (q + 1) * DayHours = q * DayHours + DayHours
    BY <1>2
  <2> QED BY <2>1, <2>2
<1>6. FirstHour(zone, q, k) \in Int
  BY <1>1, <1>3 DEF FirstHour
<1> QED BY <1>1, <1>2, <1>3, <1>4, <1>5, <1>6 DEF q

LEMMA DateReaches ==
    ASSUME DayHours \in Nat \ {0}, NEW zone, ZoneIsFit(zone), NEW k \in Int, NEW t \in Int
    PROVE  Clock!Date(zone, t) \in Int
           /\ (Clock!Date(zone, t) >= k <=> t >= FirstHour(zone, ChangeDate(zone), k))
<1> DEFINE q == ChangeDate(zone)
<1>1. /\ zone.before \in Int /\ zone.after \in Int /\ zone.change \in Int
  BY DEF ZoneIsFit
<1>2. /\ q \in Int /\ k * DayHours \in Int
      /\ k <= q => k * DayHours - zone.before < zone.change /\ k * DayHours - zone.after < zone.change
      /\ k > q => k * DayHours - zone.before >= zone.change /\ k * DayHours - zone.after >= zone.change
  BY ChangeIsInside
<1>3. Clock!Offset(zone, t) = IF t < zone.change THEN zone.before ELSE zone.after
  BY DEF Clock!Offset
<1>4. t + Clock!Offset(zone, t) \in Int
  BY <1>1, <1>3
<1>5. /\ Clock!Date(zone, t) \in Int
      /\ Clock!Date(zone, t) >= k <=> t + Clock!Offset(zone, t) >= k * DayHours
  BY <1>4, Divided DEF Clock!Date, Clock!Local
<1> HIDE DEF q
<1>6. FirstHour(zone, q, k) = k * DayHours - (IF k <= q THEN zone.before ELSE zone.after)
  BY DEF FirstHour
<1> QED BY <1>1, <1>2, <1>3, <1>5, <1>6 DEF q

LEMMA DatesBegin ==
    ASSUME DayHours \in Nat \ {0}, NEW zone, ZoneIsFit(zone), NEW k \in Int
    PROVE  Clock!BeginningOf(zone, k) = FirstHour(zone, ChangeDate(zone), k)
<1> DEFINE q == ChangeDate(zone)
           first == FirstHour(zone, q, k)
           P(t) == Clock!Date(zone, t) = k /\ Clock!Date(zone, t - 1) < k
<1>1. /\ zone.before \in (-DayHours) .. DayHours /\ zone.after \in (-DayHours) .. DayHours /\ zone.change \in Int
  BY DEF ZoneIsFit
<1>2. /\ q \in Int /\ first \in Int /\ k * DayHours \in Int /\ FirstHour(zone, q, k + 1) \in Int
      /\ k <= q => k * DayHours - zone.before < zone.change
      /\ k + 1 > q => (k + 1) * DayHours - zone.after >= zone.change
  BY ChangeIsInside
<1>3. \A t \in Int : P(t) <=> t >= first /\ t < FirstHour(zone, q, k + 1) /\ t - 1 < first
  <2> TAKE t \in Int
  <2>1. /\ Clock!Date(zone, t) \in Int /\ Clock!Date(zone, t - 1) \in Int
        /\ Clock!Date(zone, t) >= k <=> t >= first
        /\ Clock!Date(zone, t) >= k + 1 <=> t >= FirstHour(zone, q, k + 1)
        /\ Clock!Date(zone, t - 1) >= k <=> t - 1 >= first
    BY DateReaches
  <2> HIDE DEF q, first
  <2> QED BY <1>2, <2>1
<1>4. /\ (k + 1) * DayHours = k * DayHours + DayHours /\ (k - 1) * DayHours = k * DayHours - DayHours
  OBVIOUS
<1>5. first < FirstHour(zone, q, k + 1)
  <2>1. zone.after - zone.before < DayHours
    BY <1>1 DEF ZoneIsFit
  <2> HIDE DEF q
  <2> QED BY <1>1, <1>2, <1>4, <2>1 DEF FirstHour
<1>6. first \in (k - 1) * DayHours .. (k + 1) * DayHours
  <2> HIDE DEF q
  <2> QED BY <1>1, <1>2, <1>4 DEF FirstHour
<1>7. \A t \in (k - 1) * DayHours .. (k + 1) * DayHours : P(t) <=> t = first
  <2> HIDE DEF P, first, q
  <2> QED BY <1>2, <1>3, <1>5
<1>8. Clock!BeginningOf(zone, k) = CHOOSE t \in (k - 1) * DayHours .. (k + 1) * DayHours : P(t)
  BY DEF Clock!BeginningOf
<1> HIDE DEF P, first, q
<1>9. Clock!BeginningOf(zone, k) = first
  BY <1>6, <1>7, <1>8
<1> QED BY <1>9 DEF first, q

\* What is left of the beginning of a period, m being its first date.
LEMMA PeriodIsNear ==
    ASSUME DayHours \in Nat \ {0}, NEW zone, ZoneIsFit(zone), NEW t \in Int, NEW m \in Int,
           m <= Clock!Date(zone, t)
    PROVE  LET start == m * DayHours - Clock!Offset(zone, t)
               beginning == Clock!BeginningOf(zone, m)
           IN /\ Clock!Size(start - beginning) <= Clock!Size(zone.after - zone.before)
              /\ ~(beginning < zone.change /\ zone.change <= t) => start = beginning
<1> DEFINE q == ChangeDate(zone)
           start == m * DayHours - Clock!Offset(zone, t)
           beginning == Clock!BeginningOf(zone, m)
<1>1. /\ zone.before \in Int /\ zone.after \in Int /\ zone.change \in Int
  BY DEF ZoneIsFit
<1>2. /\ q \in Int /\ m * DayHours \in Int
      /\ m <= q => m * DayHours - zone.before < zone.change /\ m * DayHours - zone.after < zone.change
      /\ m > q => m * DayHours - zone.before >= zone.change /\ m * DayHours - zone.after >= zone.change
  BY ChangeIsInside
<1>3. beginning = m * DayHours - (IF m <= q THEN zone.before ELSE zone.after)
  BY DatesBegin DEF FirstHour
<1>4. Clock!Offset(zone, t) = IF t < zone.change THEN zone.before ELSE zone.after
  BY DEF Clock!Offset
<1>5. t >= beginning
  BY DateReaches, DatesBegin
<1> HIDE DEF q, beginning
<1>6. start - beginning \in {0, zone.after - zone.before, zone.before - zone.after}
  BY <1>1, <1>2, <1>3, <1>4
<1>7. Clock!Size(start - beginning) <= Clock!Size(zone.after - zone.before)
  <2> HIDE DEF start
  <2> QED BY <1>1, <1>6 DEF Clock!Size
<1>8. ~(beginning < zone.change /\ zone.change <= t) => start = beginning
  BY <1>1, <1>2, <1>3, <1>4, <1>5
<1> QED BY <1>7, <1>8 DEF beginning

\* time.ts: in any zone whose clocks change away from midnight, and for days,
\* weeks and months of any length, a day and a week begin when they do by the
\* clocks, but for the change that has come in them, and a month does always.
THEOREM AnyClockKeepsItsPeriods ==
    ASSUME DayHours \in Nat \ {0}, WeekDays \in Nat \ {0}, MonthDays \in Nat \ {0},
           NEW zone, ZoneIsFit(zone), NEW t \in Int
    PROVE  Clock!PeriodsAreLocal(zone, t)
<1> DEFINE date == Clock!Date(zone, t)
           First(span) == date - (date % span)
<1>1. date \in Int
  BY DateReaches
<1>2. /\ zone.before \in Int /\ zone.after \in Int /\ zone.change \in Int
      /\ Clock!Offset(zone, t) \in Int
  BY DEF ZoneIsFit, Clock!Offset
<1>3. ASSUME NEW span \in Nat \ {0}
      PROVE  First(span) \in Int /\ First(span) <= date
  BY <1>1, Divided
<1>4. Clock!StartOfDay(zone, t) = date * DayHours - Clock!Offset(zone, t)
  <2>1. t + Clock!Offset(zone, t) \in Int
    BY <1>2
  <2>2. t + Clock!Offset(zone, t) = date * DayHours + ((t + Clock!Offset(zone, t)) % DayHours)
    BY <2>1, Divided DEF Clock!Date, Clock!Local
  <2>3. (t + Clock!Offset(zone, t)) % DayHours \in Int /\ date * DayHours \in Int
    BY <1>1, <2>1, Divided
  <2>4. Clock!StartOfDay(zone, t) = t - ((t + Clock!Offset(zone, t)) % DayHours)
    BY DEF Clock!StartOfDay, Clock!Local
  <2> HIDE DEF date
  <2> QED BY <1>2, <2>2, <2>3, <2>4
<1>5. First(1) = date
  <2>1. date % 1 = 0
    BY <1>1
  <2> QED BY <1>1, <2>1
<1>6. Clock!StartOfWeek(zone, t) = First(WeekDays) * DayHours - Clock!Offset(zone, t)
  <2>1. Clock!StartOfWeek(zone, t) = date * DayHours - Clock!Offset(zone, t) - (date % WeekDays) * DayHours
    BY <1>4 DEF Clock!StartOfWeek, Clock!Weekday
  <2>2. date % WeekDays \in Int
    BY <1>1, Divided
  <2> HIDE DEF date
  <2>3. (date - (date % WeekDays)) * DayHours = date * DayHours - (date % WeekDays) * DayHours
    BY <1>1, <2>2
  <2>4. date * DayHours \in Int /\ (date % WeekDays) * DayHours \in Int
    BY <1>1, <2>2
  <2> QED BY <1>2, <2>1, <2>3, <2>4
<1>7. Clock!StartOfMonth(zone, t) = Clock!BeginningOf(zone, First(MonthDays))
  <2> DEFINE m == First(MonthDays)
             guess == m * DayHours
             q == ChangeDate(zone)
  <2>1. m \in Int
    BY <1>3
  <2> HIDE DEF m
  <2>2. /\ q \in Int /\ guess \in Int
        /\ m <= q => guess - zone.before < zone.change /\ guess - zone.after < zone.change
        /\ m > q => guess - zone.before >= zone.change /\ guess - zone.after >= zone.change
    BY <2>1, ChangeIsInside
  <2>3. Clock!BeginningOf(zone, m) = guess - (IF m <= q THEN zone.before ELSE zone.after)
    BY <2>1, DatesBegin DEF FirstHour
  <2>4. Clock!StartOfMonth(zone, t) = guess - Clock!Offset(zone, guess - Clock!Offset(zone, guess))
    BY DEF Clock!StartOfMonth, m
  <2> HIDE DEF q, guess
  <2>5. Clock!Offset(zone, guess - Clock!Offset(zone, guess)) =
          IF m <= q THEN zone.before ELSE zone.after
    BY <1>2, <2>1, <2>2 DEF Clock!Offset
  <2> QED BY <2>3, <2>4, <2>5 DEF m
<1>8. \A span : Clock!Beginning(zone, t, span) = Clock!BeginningOf(zone, First(span))
  BY DEF Clock!Beginning
<1> HIDE DEF First, date
<1> QED BY <1>1, <1>3, <1>4, <1>5, <1>6, <1>7, <1>8, PeriodIsNear DEF Clock!PeriodsAreLocal, date

------------------------------------------------------------------------------
(* The rank of the facts, of the subjects and of the angles, and what the  *)
(* connectors accept.                                                      *)

\* Quotients are compared by products: a / u with b / v, and b / v with c / w.
LEMMA QuotientsChain ==
    ASSUME NEW a \in Nat, NEW b \in Nat, NEW c \in Nat,
           NEW u \in Nat \ {0}, NEW v \in Nat \ {0}, NEW w \in Nat \ {0}
    PROVE  /\ a * v >= b * u /\ b * w >= c * v => a * w >= c * u
           /\ a * v > b * u /\ b * w >= c * v => a * w > c * u
           /\ a * v >= b * u /\ b * w > c * v => a * w > c * u
<1>1. \A m, n \in Nat : m * n \in Nat /\ m * n = n * m
  OBVIOUS
<1>2. \A m, n, p \in Nat : (m * n) * p = (m * p) * n /\ m <= n => m * p <= n * p
  BY Growing
<1>3. \A m, n \in Nat : \A p \in Nat \ {0} : m < n => m * p < n * p
  <2> TAKE m, n \in Nat
  <2> TAKE p \in Nat \ {0}
  <2>1. m + 1 <= n => (m + 1) * p <= n * p
    BY Growing
  <2>2. (m + 1) * p = m * p + p /\ m * p \in Nat /\ n * p \in Nat
    OBVIOUS
  <2> QED BY <2>1, <2>2
<1>4. /\ (a * v) * w = (a * w) * v /\ (b * u) * w = (b * w) * u /\ (c * v) * u = (c * u) * v
  OBVIOUS
<1>5. PICK av, bu, bw, cv, aw, cu \in Nat :
        /\ av = a * v /\ bu = b * u /\ bw = b * w /\ cv = c * v /\ aw = a * w /\ cu = c * u
  BY <1>1
<1>6. av * w = aw * v /\ bu * w = bw * u /\ cv * u = cu * v
  BY <1>4, <1>5
<1>7. /\ av * w \in Nat /\ bu * w \in Nat /\ cv * u \in Nat
  BY <1>1
<1>8. /\ bu <= av => bu * w <= av * w
      /\ bu < av => bu * w < av * w
      /\ cv <= bw => cv * u <= bw * u
      /\ cv < bw => cv * u < bw * u
      /\ aw < cu => aw * v < cu * v
      /\ aw <= cu => aw * v <= cu * v
  BY <1>3, Growing
<1> QED BY <1>5, <1>6, <1>7, <1>8

\* selection.ts: two different ranked are always ordered, one way, and no three
\* of them turn in a circle, however close their scores are.
THEOREM AnyFactsAreRanked ==
    ASSUME NEW ranked,
           \A f \in ranked : /\ f.importance \in Nat /\ f.age \in Nat /\ f.used \in Nat /\ f.id \in Nat
                            /\ Facts!Score(f) \in Nat,
           \A f, g \in ranked : f.id = g.id => f = g
    PROVE  Facts!RankingIsTotal(ranked)
<1>1. ASSUME NEW f \in ranked, NEW g \in ranked, NEW h \in ranked
      PROVE  /\ ~Facts!Before(f, f)
             /\ f # g => Facts!Before(f, g) \/ Facts!Before(g, f)
             /\ Facts!Before(f, g) /\ Facts!Before(g, h) => Facts!Before(f, h)
  <2>1. PICK a, b, c \in Nat :
          a = Facts!Score(f) /\ b = Facts!Score(g) /\ c = Facts!Score(h)
    OBVIOUS
  <2>2. PICK u, v, w \in Nat \ {0} : u = f.used + 1 /\ v = g.used + 1 /\ w = h.used + 1
    OBVIOUS
  <2>3. /\ Facts!Higher(f, g) <=> a * v > b * u
        /\ Facts!Higher(g, f) <=> b * u > a * v
        /\ Facts!Higher(g, h) <=> b * w > c * v
        /\ Facts!Higher(f, h) <=> a * w > c * u
        /\ Facts!Higher(f, f) <=> a * u > a * u
        /\ Facts!Equal(f, g) <=> a * v = b * u
        /\ Facts!Equal(g, f) <=> b * u = a * v
        /\ Facts!Equal(g, h) <=> b * w = c * v
        /\ Facts!Equal(f, h) <=> a * w = c * u
    BY <2>1, <2>2 DEF Facts!Higher, Facts!Equal
  <2>4. PICK av, bu, bw, cv, aw, cu, au \in Nat :
          /\ av = a * v /\ bu = b * u /\ bw = b * w /\ cv = c * v /\ aw = a * w /\ cu = c * u
          /\ au = a * u
    OBVIOUS
  <2>5. /\ av >= bu /\ bw >= cv => aw >= cu
        /\ av > bu /\ bw >= cv => aw > cu
        /\ av >= bu /\ bw > cv => aw > cu
    BY <2>4, QuotientsChain
  <2>6. av <= bu /\ bw <= cv => aw <= cu
    <3>1. c * v >= b * w /\ b * u >= a * v => c * u >= a * w
      BY QuotientsChain
    <3> QED BY <2>4, <3>1
  <2>7. /\ f.importance \in Nat /\ g.importance \in Nat /\ h.importance \in Nat
        /\ f.age \in Nat /\ g.age \in Nat /\ h.age \in Nat
        /\ f.id \in Nat /\ g.id \in Nat /\ h.id \in Nat
        /\ f.id = g.id => f = g
    OBVIOUS
  <2>8. /\ Facts!Higher(f, g) <=> av > bu
        /\ Facts!Higher(g, f) <=> bu > av
        /\ Facts!Higher(g, h) <=> bw > cv
        /\ Facts!Higher(f, h) <=> aw > cu
        /\ ~Facts!Higher(f, f)
        /\ Facts!Equal(f, g) <=> av = bu
        /\ Facts!Equal(g, f) <=> bu = av
        /\ Facts!Equal(g, h) <=> bw = cv
        /\ Facts!Equal(f, h) <=> aw = cu
    BY <2>3, <2>4
  <2>9. ~Facts!Before(f, f)
    BY <2>7, <2>8 DEF Facts!Before
  <2>10. f # g => Facts!Before(f, g) \/ Facts!Before(g, f)
    BY <2>7, <2>8 DEF Facts!Before
  <2>11. Facts!Before(f, g) /\ Facts!Before(g, h) => Facts!Before(f, h)
    BY <2>5, <2>6, <2>7, <2>8 DEF Facts!Before
  <2> QED BY <2>9, <2>10, <2>11
<1> QED BY <1>1 DEF Facts!RankingIsTotal

\* The subjects of the same pillar, with and without the first of the answer.
LEMMA FewerWithoutTheFirst ==
    ASSUME NEW S, NEW r \in Seq(S), r # <<>>, NEW p
    PROVE  LET Same(s) == Cardinality({n \in DOMAIN s : s[n].pillar = p})
           IN Same(Tail(r)) \in Nat /\ Same(r) \in Nat /\ Same(Tail(r)) <= Same(r)
<1> DEFINE A == {n \in DOMAIN r : r[n].pillar = p}
           B == {n \in DOMAIN Tail(r) : Tail(r)[n].pillar = p}
           f == [n \in B |-> n + 1]
<1>1. /\ DOMAIN r = 1 .. Len(r) /\ Len(r) \in Nat \ {0}
      /\ DOMAIN Tail(r) = 1 .. Len(r) - 1
      /\ \A n \in 1 .. Len(r) - 1 : Tail(r)[n] = r[n + 1]
  OBVIOUS
<1>2. IsFiniteSet(1 .. Len(r)) /\ A \subseteq 1 .. Len(r)
  BY <1>1, FS_Interval
<1>3. IsFiniteSet(A) /\ Cardinality(A) \in Nat
  BY <1>2, FS_Subset, FS_CardinalityType
<1>4. \A n \in B : n \in Nat /\ n + 1 \in A
  BY <1>1
<1>5. f \in Injection(B, A)
  <2> HIDE DEF A, B
  <2> QED BY <1>4 DEF Injection, IsInjective
<1>6. IsFiniteSet(B) /\ Cardinality(B) <= Cardinality(A)
  <2> HIDE DEF A, B, f
  <2> QED BY <1>3, <1>5, FS_Injection
<1> QED BY <1>3, <1>6, FS_CardinalityType

\* What is known of a subject, as the points it is worth.
CoveragePoints(text, learnt) ==
    CASE Coverage(text, learnt) = "couverte" -> 2 [] Coverage(text, learnt) = "partielle" -> 1
      [] OTHER -> 0

LEMMA MoreSkillsCover ==
    ASSUME NEW text, NEW learnt, NEW fewer \in SUBSET learnt
    PROVE  /\ CoveragePoints(text, learnt) \in 0 .. 2 /\ CoveragePoints(text, fewer) \in 0 .. 2
           /\ CoveragePoints(text, fewer) <= CoveragePoints(text, learnt)
BY DEF CoveragePoints, Coverage

\* scoreSubject, scoreAngle: on any subject, aims, learnt, answer and angle,
\* one more skill never lowers a subject, one more subject of the answer never
\* raises it, one more quotation never lowers an angle, and none of the scores
\* leaves its scale.
THEOREM AnyScoresRank ==
    ASSUME NEW subject, NEW aims, NEW learnt, NEW S, NEW recent \in Seq(S), NEW Quotes,
           IsFiniteSet(Quotes),
           NEW angle \in [evidence : SUBSET Quotes, steps : Nat,
                          difficulty : {"faible", "moyenne", "elevee"}]
    PROVE  ScoresRank(subject, aims, learnt, recent, angle)
<1> DEFINE text == subject.title \o subject.thesis
           has == subject.pillar # <<>>
           Same(s) == Cardinality({n \in DOMAIN s : s[n].pillar = subject.pillar})
           Duplicate(s) == \E n \in DOMAIN s : Overlaps(s[n].title, subject.title, 3, 5)
           fit == IF has /\ subject.pillar \in aims.pillars THEN 2 ELSE 0
           briefed == IF has /\ aims.exists THEN 1 ELSE 0
           Fresh(s) == IF has /\ Same(s) >= 2 THEN 0 ELSE 1
           Cost(s) == IF Duplicate(s) THEN 3 ELSE 0
           Score(some, s) == Positive(fit + CoveragePoints(text, some) + briefed + Fresh(s) - Cost(s))
<1>1. \A some, s : SubjectScore(subject, aims, some, s) = Score(some, s)
  BY DEF SubjectScore, CoveragePoints
<1>2. fit \in {0, 2} /\ briefed \in {0, 1}
  OBVIOUS
<1>3. \A s : Fresh(s) \in {0, 1} /\ Cost(s) \in {0, 3}
  OBVIOUS
<1>4. \A fewer \in SUBSET learnt :
        /\ CoveragePoints(text, learnt) \in 0 .. 2 /\ CoveragePoints(text, fewer) \in 0 .. 2
        /\ CoveragePoints(text, fewer) <= CoveragePoints(text, learnt)
  BY MoreSkillsCover
<1>5. recent # <<>> => Fresh(Tail(recent)) >= Fresh(recent) /\ Cost(Tail(recent)) <= Cost(recent)
  <2> SUFFICES ASSUME recent # <<>>
               PROVE  Fresh(Tail(recent)) >= Fresh(recent) /\ Cost(Tail(recent)) <= Cost(recent)
    OBVIOUS
  <2>1. Same(Tail(recent)) \in Nat /\ Same(recent) \in Nat /\ Same(Tail(recent)) <= Same(recent)
    BY FewerWithoutTheFirst
  <2>2. \A n \in DOMAIN Tail(recent) : n + 1 \in DOMAIN recent /\ Tail(recent)[n] = recent[n + 1]
    OBVIOUS
  <2>3. Duplicate(Tail(recent)) => Duplicate(recent)
    BY <2>2
  <2> HIDE DEF Same, Duplicate, has
  <2>4. Fresh(Tail(recent)) >= Fresh(recent)
    BY <2>1
  <2>5. Cost(Tail(recent)) <= Cost(recent)
    BY <2>3
  <2> QED BY <2>4, <2>5
<1>6. PICK k \in 0 .. 2, fit0 \in {0, 2}, briefed0 \in {0, 1}, fresh \in {0, 1}, cost \in {0, 3} :
        /\ k = CoveragePoints(text, learnt) /\ fit0 = fit /\ briefed0 = briefed
        /\ fresh = Fresh(recent) /\ cost = Cost(recent)
  BY <1>2, <1>3, <1>4
<1> HIDE DEF text, fit, briefed, Fresh, Cost
<1>7. Score(learnt, recent) = Positive(fit0 + k + briefed0 + fresh - cost)
  BY <1>6
<1>8. SubjectScore(subject, aims, learnt, recent) \in 0 .. 6
  BY <1>1, <1>7 DEF Positive
<1>9. ASSUME NEW s \in learnt
      PROVE  SubjectScore(subject, aims, learnt \ {s}, recent)
                 <= SubjectScore(subject, aims, learnt, recent)
  <2>1. PICK j \in 0 .. 2 : j = CoveragePoints(text, learnt \ {s}) /\ j <= k
    <3>1. learnt \ {s} \in SUBSET learnt
      OBVIOUS
    <3> QED BY <1>4, <1>6, <3>1
  <2>2. Score(learnt \ {s}, recent) = Positive(fit0 + j + briefed0 + fresh - cost)
    BY <1>6, <2>1
  <2> HIDE DEF Score
  <2> QED BY <1>1, <1>7, <2>1, <2>2 DEF Positive
<1>10. recent # <<>> =>
         SubjectScore(subject, aims, learnt, Tail(recent)) >= SubjectScore(subject, aims, learnt, recent)
  <2> SUFFICES ASSUME recent # <<>>
               PROVE  SubjectScore(subject, aims, learnt, Tail(recent))
                          >= SubjectScore(subject, aims, learnt, recent)
    OBVIOUS
  <2>1. PICK fresher \in {0, 1}, cheaper \in {0, 3} :
          /\ fresher = Fresh(Tail(recent)) /\ cheaper = Cost(Tail(recent))
          /\ fresher >= fresh /\ cheaper <= cost
    BY <1>3, <1>5, <1>6
  <2>2. Score(learnt, Tail(recent)) = Positive(fit0 + k + briefed0 + fresher - cheaper)
    BY <1>6, <2>1
  <2> HIDE DEF Score
  <2> QED BY <1>1, <1>7, <2>1, <2>2 DEF Positive
<1>11. ASSUME NEW q \in angle.evidence
       PROVE  AngleScore([angle EXCEPT !.evidence = @ \ {q}]) <= AngleScore(angle)
  <2> DEFINE less == [angle EXCEPT !.evidence = @ \ {q}]
  <2>1. less.evidence = angle.evidence \ {q} /\ less.steps = angle.steps /\ less.difficulty = angle.difficulty
    OBVIOUS
  <2>2. IsFiniteSet(angle.evidence)
    BY FS_Subset
  <2>3. PICK m, n \in Nat :
          m = Cardinality(less.evidence) /\ n = Cardinality(angle.evidence) /\ m <= n
    BY <2>1, <2>2, FS_Subset, FS_CardinalityType
  <2> HIDE DEF less
  <2>4. PICK rest \in -1 .. 2 :
          rest = (IF angle.steps >= 4 THEN 1 ELSE 0)
                   + (CASE angle.difficulty = "faible" -> 1 [] angle.difficulty = "elevee" -> -1
                        [] OTHER -> 0)
    OBVIOUS
  <2>5. /\ AngleScore(less) = Positive((IF m >= 2 THEN 2 ELSE 0) + rest)
        /\ AngleScore(angle) = Positive((IF n >= 2 THEN 2 ELSE 0) + rest)
    BY <2>1, <2>3, <2>4 DEF AngleScore
  <2> QED BY <2>3, <2>5 DEF Positive, less
<1>12. AngleScore(angle) \in 0 .. 4
  BY DEF AngleScore, Positive
<1> QED BY <1>8, <1>9, <1>10, <1>11, <1>12 DEF ScoresRank

\* linkedin.ts: whatever the account, the scopes and the text of a request, the
\* connector can write what it accepts, but for its token and its version.
THEOREM AnyAcceptedCanBeWritten ==
    ASSUME NEW request
    PROVE  AcceptedCanBeWritten(request)
<1>1. Accepted(LinkedInIssues(request)) => HasAuthor(request) /\ request.account # "none"
  <2>1. Issue("other", TRUE).blocks
    BY DEF Issue
  <2>2. ~HasAuthor(request) => Issue("other", TRUE) \in LinkedInIssues(request)
    BY DEF LinkedInIssues, If
  <2> QED BY <2>1, <2>2 DEF Accepted, HasAuthor
<1> QED BY <1>1 DEF AcceptedCanBeWritten, Missing

\* A draft that keeps to the aim of its target, in single bytes, passes every
\* limit of its package, whatever its length and its title.
THEOREM AnyAimedDraftIsPackaged ==
    ASSUME NEW request, request.target \in DOMAIN TargetSpec,
           request.body.chars \in Nat, request.title.chars \in Nat
    PROVE  AimedDraftIsPackaged(request)
<1> DEFINE spec == TargetSpec[request.target]
           platform == PlatformOf[request.target]
           text == [body |-> request.body, title |-> request.title, description |-> request.body]
           draft == [chars |-> request.body.chars, marker |-> FALSE, title |-> request.title.chars,
                     hook |-> 0, quoted |-> TRUE, tags |-> spec.tagsMin,
                     chapters |-> IF spec.segments THEN 4 ELSE 0, notes |-> 1]
<1> SUFFICES ASSUME request.body.script = "ascii", request.title.script = "ascii",
                    Blocking(spec, draft) = {},
                    "BODY_OVER_TARGET" \notin Warnings(request.target, spec, draft)
             PROVE  Accepted(ManualIssues(platform, request))
  BY DEF AimedDraftIsPackaged
<1>1. /\ draft.chars = request.body.chars /\ draft.title = request.title.chars
  OBVIOUS
<1>2. ~(request.body.chars > spec.max) /\ ~(spec.titleMax # 0 /\ request.title.chars > spec.titleMax)
  <2> HIDE DEF spec, draft
  <2> QED BY <1>1, Zenon DEF Blocking, If
<1>3. ~(request.body.chars > spec.aim /\ request.body.chars <= spec.max)
  <2> HIDE DEF spec, draft
  <2> QED BY <1>1, Zenon DEF Warnings, If
<1>4. \A unit \in {"characters", "utf16_runes", "utf8_bytes"} :
        /\ Measure(request.body, unit) = request.body.chars
        /\ Measure(request.title, unit) = request.title.chars
  <2>1. request.body.chars * 1 = request.body.chars /\ request.title.chars * 1 = request.title.chars
    OBVIOUS
  <2> HIDE DEF spec, draft
  <2> QED BY <2>1 DEF Measure
<1>5. /\ spec.max \in Nat /\ spec.aim \in Nat /\ spec.aim <= spec.max
      /\ spec.titleMax \in Nat /\ platform = PlatformOf[request.target]
      /\ platform \in {"linkedin", "reddit", "tiktok", "youtube"}
      /\ platform = "tiktok" => spec.aim = 900
      /\ platform = "youtube" => spec.aim <= 5000 /\ spec.titleMax = 100
  <2> HIDE DEF draft
  <2>1. request.target \in {"linkedin_post", "reddit_post", "tiktok_short", "youtube_short", "youtube_long"}
    BY DEF TargetSpec
  <2>2. CASE request.target = "linkedin_post"
    BY <2>2 DEF TargetSpec, PlatformOf
  <2>3. CASE request.target = "reddit_post"
    BY <2>3 DEF TargetSpec, PlatformOf
  <2>4. CASE request.target = "tiktok_short"
    BY <2>4 DEF TargetSpec, PlatformOf
  <2>5. CASE request.target = "youtube_short"
    BY <2>5 DEF TargetSpec, PlatformOf
  <2>6. CASE request.target = "youtube_long"
    BY <2>6 DEF TargetSpec, PlatformOf
  <2> QED BY <2>1, <2>2, <2>3, <2>4, <2>5, <2>6
<1>6. text.title = request.title /\ text.description = request.body
  OBVIOUS
<1> HIDE DEF spec, platform, text, draft
<1>7. request.body.chars <= spec.aim
  BY <1>2, <1>3, <1>5
<1>8. ASSUME NEW limit \in TextLimits(platform), Measure(text[limit.field], limit.unit) > limit.max
      PROVE  limit.advisory
  <2>1. CASE platform \in {"linkedin", "reddit"}
    BY <1>8, <2>1 DEF TextLimits, TextLimit
  <2>2. CASE platform = "tiktok"
    <3>1. limit.field = "description" /\ limit.unit = "utf16_runes" /\ limit.max = 2200
      BY <2>2 DEF TextLimits, TextLimit
    <3> QED BY <1>4, <1>5, <1>6, <1>7, <1>8, <2>2, <3>1
  <2>3. CASE platform = "youtube"
    <3>1. \/ limit.field = "title" /\ limit.unit = "characters" /\ limit.max = 100
          \/ limit.field = "description" /\ limit.unit = "utf8_bytes" /\ limit.max = 5000
      BY <2>3 DEF TextLimits, TextLimit
    <3> QED BY <1>2, <1>4, <1>5, <1>6, <1>7, <1>8, <2>3, <3>1
  <2> QED BY <1>5, <2>1, <2>2, <2>3
<1>9. ASSUME NEW issue \in ManualIssues(platform, request) PROVE ~issue.blocks
  <2> DEFINE Lengthy == If(request.body.chars > TargetSpec[request.target].max, Issue("body", FALSE))
             Passed == {Issue(limit.field, ~limit.advisory) : limit \in {l \in TextLimits(platform) :
                        Measure(text[l.field], l.unit) > l.max}}
  <2>1. \/ PlatformOf[request.target] # platform
        \/ issue \in Lengthy \/ issue \in Passed
    <3> HIDE DEF Passed, Lengthy
    <3>1. issue \in    If(PlatformOf[request.target] # platform, Issue("other", TRUE))
                  \cup Lengthy \cup Passed
      BY DEF ManualIssues, Lengthy, Passed, text
    <3>2. PlatformOf[request.target] = platform =>
            If(PlatformOf[request.target] # platform, Issue("other", TRUE)) = {}
      BY DEF If
    <3> QED BY <3>1, <3>2
  <2>2. issue \in Lengthy => ~issue.blocks
    BY DEF If, Issue
  <2>3. ASSUME NEW limit \in TextLimits(platform), Measure(text[limit.field], limit.unit) > limit.max,
               issue = Issue(limit.field, ~limit.advisory)
        PROVE  ~issue.blocks
    <3>1. limit.advisory
      BY <1>8, <2>3
    <3>2. issue = [field |-> limit.field, blocks |-> ~limit.advisory]
      BY <2>3 DEF Issue
    <3>3. issue.blocks = ~limit.advisory
      BY <3>2
    <3> QED BY <3>1, <3>3
  <2>4. ASSUME issue \in Passed PROVE ~issue.blocks
    <3>1. PICK limit \in TextLimits(platform) :
            Measure(text[limit.field], limit.unit) > limit.max /\ issue = Issue(limit.field, ~limit.advisory)
      BY <2>4
    <3> HIDE DEF Passed
    <3> QED BY <2>3, <3>1
  <2> HIDE DEF Passed, Lengthy
  <2> QED BY <1>5, <2>1, <2>2, <2>4
<1> QED BY <1>9 DEF Accepted
==============================================================================
