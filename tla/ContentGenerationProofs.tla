------------------------ MODULE ContentGenerationProofs ----------------------
(***************************************************************************)
(* Proofs about the writing of contents, for every set of targets, every   *)
(* number of items and jobs, and every limit of attempts and rewritings.   *)
(***************************************************************************)
EXTENDS ContentGenerationProps, FiniteSetTheorems, WellFoundedInduction, TLAPS

(* The memory of a run, typed.                                             *)
EntryRow == [item : Nat, copy : ItemRow, bad : BOOLEAN]

RunRow == [pc : {"idle", "call", "write", "advance", "retry"},
           entries : UNION {[T -> EntryRow] : T \in SUBSET Targets},
           bad : SUBSET Targets, todo : SUBSET Targets, pass : Nat]

Tables ==
    /\ items \in Seq(ItemRow) /\ jobs \in Seq(JobRow) /\ versions \in Seq(Seq(VersionRow))
    /\ runs \in Seq(RunRow)
    /\ Len(versions) = Len(items) /\ Len(runs) = Len(jobs)
    /\ \A r \in reviews : r[1] \in ItemIds /\ r[2] \in DOMAIN versions[r[1]]
    /\ overtaken \subseteq ItemIds

\* What a row says of its versions exists, and what it says is approved was read.
RowFits(i) ==
    /\ items[i].current \in 0 .. Len(versions[i])
    /\ items[i].approved \in 0 .. Len(versions[i])
    /\ items[i].approved # 0 => Reviewers \subseteq versions[i][items[i].approved].notes

\* A rewriting names an item and its target, and a run is its job's.
JobFits(j) ==
    /\ jobs[j].mode = "regenerated" =>
         jobs[j].item \in ItemIds /\ jobs[j].targets = {items[jobs[j].item].target}
    /\ runs[j].pc # "idle" <=> jobs[j].status = "running"

\* A run holds one row for each of its targets, and writes them one by one.
RunFits(j) ==
    /\ runs[j].pc = "idle" => runs[j] = Idle
    /\ runs[j].pc # "idle" => DOMAIN runs[j].entries = jobs[j].targets
    /\ runs[j].todo \subseteq jobs[j].targets
    /\ \A t \in DOMAIN runs[j].entries :
         LET e == runs[j].entries[t] IN
         /\ e.item \in ItemIds /\ items[e.item].target = t
         /\ jobs[j].mode = "regenerated" => e.item = jobs[j].item
         /\ e.copy.current \in 0 .. Len(versions[e.item])
    /\ runs[j].pc = "advance" => runs[j].todo # {}

\* The text of a target is written, as the run knows it.
Has(j, t) == WrittenByJob(j, runs[j].entries[t])

\* What is no longer to be written is written, and a second pass has nothing
\* left to write: it finds the texts of the first.
Covered(j) ==
    /\ runs[j].pc \in {"write", "advance"} => \A t \in jobs[j].targets \ runs[j].todo : Has(j, t)
    /\ runs[j].pc \in {"write", "advance"} /\ runs[j].pass # 1 => \A t \in jobs[j].targets : Has(j, t)
    /\ runs[j].pc = "retry" => runs[j].pass # 0 /\ \A t \in jobs[j].targets : Has(j, t)
    /\ runs[j].pc \in {"write", "advance"} => runs[j].pass # 0
    /\ runs[j].pc = "call" => runs[j].pass = 0

\* Between the version and the row of its item.
Ahead(j) ==
    runs[j].pc = "advance" =>
        LET e == runs[j].entries[NextTarget(j)]
        IN /\ ~Has(j, NextTarget(j))
           /\ \E v \in DOMAIN versions[e.item] :
                /\ versions[e.item][v].by = j
                /\ e.item \notin overtaken => items[e.item].current < v

\* A job that ended well has a text for each of its targets.
Whole(j) ==
    jobs[j].status = "done" =>
        \A t \in jobs[j].targets : \E i \in ItemIds :
            items[i].target = t /\ \E v \in DOMAIN versions[i] : versions[i][v].by = j

\* The copies a run holds of an item nobody overtook are the item.
Fresh(i, j) ==
    i \notin overtaken =>
        \A t \in DOMAIN runs[j].entries :
            runs[j].entries[t].item = i => runs[j].entries[t].copy = items[i]

\* An approved item shows what was approved.
Shown(i) ==
    i \notin overtaken =>
        /\ items[i].approved # 0 => items[i].approved = items[i].current
        /\ items[i].state \in {"approved", "published"} => items[i].approved # 0

\* What a run is about to write over an item.
Waits(j, i) == runs[j].pc = "advance" /\ runs[j].entries[NextTarget(j)].item = i

\* The last text of an item is the current one, was left behind, or is on its way.
LastPlaced(i) ==
    i \notin overtaken /\ Len(versions[i]) # 0 =>
        \/ items[i].current = Len(versions[i])
        \/ <<i, Len(versions[i])>> \in orphans
        \/ \E j \in JobIds : Waits(j, i) /\ versions[i][Len(versions[i])].by = j

Rewrites(j) == jobs[j].mode = "regenerated" /\ Active(j)

\* Each attempt of a rewriting counts once.
Within(j) ==
    Rewrites(j) =>
        LET i == jobs[j].item
            e == runs[j].entries[items[i].target]
        IN /\ items[i].regen < MaxRegen + jobs[j].attempt
           /\ jobs[j].status = "running" /\ ~WrittenByJob(j, e) =>
                /\ e.copy.regen = items[i].regen
                /\ items[i].regen + 1 < MaxRegen + jobs[j].attempt

\* One rewriting of an item at a time.
OneRewriting ==
    \A j, k \in JobIds : Rewrites(j) /\ Rewrites(k) /\ jobs[j].item = jobs[k].item => j = k

ItemFits(i) == RowFits(i) /\ Shown(i)

WorkFits(j) ==
    /\ JobFits(j) /\ RunFits(j) /\ Covered(j) /\ Ahead(j) /\ Whole(j)
    /\ \A i \in ItemIds : Fresh(i, j)

Base ==
    /\ Tables
    /\ \A i \in ItemIds : ItemFits(i)
    /\ \A j \in JobIds : WorkFits(j)

Counted ==
    /\ RegenBounded /\ OneRewriting /\ \A j \in JobIds : Within(j)

\* A text is a human's or a job's.
Authored(i) == \A v \in DOMAIN versions[i] : versions[i][v].by = User \/ versions[i][v].by \in JobIds

\* ResumedWritesOnce, of one item.
Once(i) ==
    i \notin overtaken =>
        \A j \in JobIds : \A v \in 2 .. Len(versions[i]) :
            versions[i][v - 1].by = j /\ versions[i][v].by = j => <<i, v - 1>> \in orphans

Placed == \A i \in ItemIds : LastPlaced(i) /\ Authored(i) /\ Once(i)

IInv == Base /\ Counted /\ Placed

------------------------------------------------------------------------------
(* The choices of the code: the first target, the newest row, the last text. *)

\* A set of numbers that is not empty has a first one.
LEMMA FirstExists ==
    ASSUME NEW S \in SUBSET Nat, S # {}
    PROVE  \E m \in S : \A k \in S : m <= k
<1> DEFINE R == {p \in Nat \X Nat : p[1] < p[2]}
<1>1. IsWellFoundedOn(OpToRel(<, Nat), Nat)
  BY NatLessThanWellFounded
<1>2. R \cap (Nat \X Nat) \subseteq OpToRel(<, Nat)
  BY DEF OpToRel
<1>3. IsWellFoundedOn(R, Nat)
  <2> HIDE DEF R
  <2> QED BY <1>1, <1>2, IsWellFoundedOnSubrelation
<1>4. PICK m \in S : \A k \in S : <<k, m>> \notin R
  <2> HIDE DEF R
  <2> QED BY <1>3, WFMin
<1>5. \A k \in S : ~(k < m)
  BY <1>4
<1> QED BY <1>5

\* And a last one when it is bounded.
LEMMA LastExists ==
    ASSUME NEW n \in Nat, NEW S \in SUBSET (1 .. n), S # {}
    PROVE  \E m \in S : \A k \in S : k <= m
<1> DEFINE T == {n - k : k \in S}
<1>1. \A k \in S : k \in 1 .. n /\ n - k \in Nat
  OBVIOUS
<1>2. PICK k \in S : n - k \in T
  OBVIOUS
<1>3. T \in SUBSET Nat /\ T # {}
  BY <1>1, <1>2
<1>4. PICK d \in T : \A e \in T : d <= e
  <2> HIDE DEF T
  <2> QED BY <1>3, FirstExists
<1>5. PICK m \in S : d = n - m
  BY <1>4
<1>6. \A l \in S : n - m <= n - l
  BY <1>4, <1>5
<1> QED BY <1>1, <1>6

LEMMA TablesAreTyped ==
    ASSUME Tables
    PROVE  /\ ItemIds = 1 .. Len(items) /\ Len(items) \in Nat /\ ItemIds = DOMAIN versions
           /\ JobIds = 1 .. Len(jobs) /\ Len(jobs) \in Nat /\ JobIds = DOMAIN runs
           /\ \A i \in ItemIds : items[i] \in ItemRow /\ versions[i] \in Seq(VersionRow)
           /\ \A j \in JobIds : jobs[j] \in JobRow /\ runs[j] \in RunRow
<1> USE DEF Tables, ItemIds, JobIds
<1>1. /\ ItemIds = 1 .. Len(items) /\ Len(items) \in Nat
      /\ \A i \in ItemIds : items[i] \in ItemRow
  OBVIOUS
<1>2. DOMAIN versions = 1 .. Len(items) /\ \A i \in DOMAIN versions : versions[i] \in Seq(VersionRow)
  OBVIOUS
<1>3. /\ JobIds = 1 .. Len(jobs) /\ Len(jobs) \in Nat
      /\ \A j \in JobIds : jobs[j] \in JobRow
  OBVIOUS
<1>4. DOMAIN runs = 1 .. Len(jobs) /\ \A j \in DOMAIN runs : runs[j] \in RunRow
  OBVIOUS
<1> QED BY <1>1, <1>2, <1>3, <1>4

LEMMA NextTablesAreTyped ==
    ASSUME Tables'
    PROVE  /\ ItemIds' = 1 .. Len(items') /\ Len(items') \in Nat /\ ItemIds' = DOMAIN versions'
           /\ JobIds' = 1 .. Len(jobs') /\ Len(jobs') \in Nat /\ JobIds' = DOMAIN runs'
           /\ \A i \in ItemIds' : items'[i] \in ItemRow /\ versions'[i] \in Seq(VersionRow)
           /\ \A j \in JobIds' : jobs'[j] \in JobRow /\ runs'[j] \in RunRow
<1> USE DEF Tables, ItemIds, JobIds
<1>1. /\ ItemIds' = 1 .. Len(items') /\ Len(items') \in Nat
      /\ \A i \in ItemIds' : items'[i] \in ItemRow
  OBVIOUS
<1>2. DOMAIN versions' = 1 .. Len(items') /\ \A i \in DOMAIN versions' : versions'[i] \in Seq(VersionRow)
  OBVIOUS
<1>3. /\ JobIds' = 1 .. Len(jobs') /\ Len(jobs') \in Nat
      /\ \A j \in JobIds' : jobs'[j] \in JobRow
  OBVIOUS
<1>4. DOMAIN runs' = 1 .. Len(jobs') /\ \A j \in DOMAIN runs' : runs'[j] \in RunRow
  OBVIOUS
<1> QED BY <1>1, <1>2, <1>3, <1>4

LEMMA NextTargetIsDue ==
    ASSUME Tables, NEW j \in JobIds, runs[j].todo # {}
    PROVE  NextTarget(j) \in runs[j].todo /\ NextTarget(j) \in Targets
<1>1. runs[j].todo \in SUBSET Targets /\ runs[j].todo \in SUBSET Nat
  BY TablesAreTyped, GenerationAssumption DEF RunRow
<1>2. \E t \in runs[j].todo : \A u \in runs[j].todo : t <= u
  BY <1>1, FirstExists
<1> QED BY <1>1, <1>2 DEF NextTarget

LEMMA NewestIsCandidate ==
    ASSUME Tables, NEW t, Candidates(t) # {}
    PROVE  Newest(t) \in Candidates(t)
<1>1. Candidates(t) \in SUBSET (1 .. Len(items)) /\ Len(items) \in Nat
  BY DEF Tables, Candidates, ItemIds
<1>2. \E i \in Candidates(t) : \A k \in Candidates(t) : k <= i
  BY <1>1, LastExists
<1> QED BY <1>2 DEF Newest

LEMMA WrittenIsLast ==
    ASSUME Tables, NEW i \in ItemIds, NEW j,
           \E v \in DOMAIN versions[i] : versions[i][v].by = j
    PROVE  /\ Written(j, i) \in DOMAIN versions[i]
           /\ versions[i][Written(j, i)].by = j
           /\ \A u \in DOMAIN versions[i] : versions[i][u].by = j => u <= Written(j, i)
<1> DEFINE mine == {v \in DOMAIN versions[i] : versions[i][v].by = j}
<1>1. versions[i] \in Seq(VersionRow)
  BY DEF Tables, ItemIds
<1>2. mine \in SUBSET (1 .. Len(versions[i])) /\ Len(versions[i]) \in Nat
  BY <1>1
<1>3. mine # {}
  OBVIOUS
<1>4. \E v \in mine : \A u \in mine : u <= v
  BY <1>2, <1>3, LastExists
<1>5. Written(j, i) = CHOOSE v \in mine : \A u \in mine : u <= v
  BY DEF Written
<1>6. Written(j, i) \in mine /\ \A u \in mine : u <= Written(j, i)
  BY <1>4, <1>5
<1> QED BY <1>6

\* The rows of a lot: every rank is the rank of one target.
LEMMA RanksAreFilled ==
    ASSUME NEW targets \in SUBSET Targets
    PROVE  /\ Cardinality(targets) \in Nat
           /\ \A n \in 1 .. Cardinality(targets) : \E t \in targets : Rank(t, targets) = n
<1> DEFINE Below(t) == {u \in targets : u <= t}
           n == Cardinality(targets)
           f == [t \in targets |-> Cardinality(Below(t))]
<1>1. targets \in SUBSET Nat /\ IsFiniteSet(targets) /\ n \in Nat
  BY GenerationAssumption, FS_Subset, FS_CardinalityType
<1>2. \A t \in targets : IsFiniteSet(Below(t)) /\ Cardinality(Below(t)) \in 1 .. n
  <2> SUFFICES ASSUME NEW t \in targets
               PROVE  IsFiniteSet(Below(t)) /\ Cardinality(Below(t)) \in 1 .. n
    OBVIOUS
  <2>1. Below(t) \in SUBSET targets /\ t \in Below(t)
    BY <1>1
  <2>2. IsFiniteSet(Below(t)) /\ Cardinality(Below(t)) <= n /\ Cardinality(Below(t)) \in Nat
    BY <1>1, <2>1, FS_Subset, FS_CardinalityType
  <2>3. Cardinality(Below(t)) # 0
    BY <2>1, <2>2, FS_EmptySet
  <2> QED BY <1>1, <2>2, <2>3
<1>3. \A t, u \in targets : t # u => Cardinality(Below(t)) # Cardinality(Below(u))
  <2>1. ASSUME NEW t \in targets, NEW u \in targets, t < u
        PROVE  Cardinality(Below(t)) # Cardinality(Below(u))
    <3>1. /\ \A w \in targets : w <= t => w <= u
          /\ u <= u /\ ~(u <= t)
      BY <1>1, <2>1
    <3>2. Below(t) \in SUBSET Below(u) /\ u \in Below(u) /\ u \notin Below(t)
      BY <3>1
    <3>3. IsFiniteSet(Below(u))
      BY <1>2
    <3> HIDE DEF Below
    <3> QED BY <3>2, <3>3, FS_Subset
  <2>2. \A t, u \in targets : t # u => t < u \/ u < t
    BY <1>1
  <2> HIDE DEF Below
  <2> QED BY <2>1, <2>2
<1>4. f \in Injection(targets, 1 .. n)
  <2> HIDE DEF Below, n
  <2> QED BY <1>2, <1>3 DEF Injection, IsInjective
<1>5. IsFiniteSet(1 .. n) /\ Cardinality(1 .. n) = n
  BY <1>1, FS_Interval
<1>6. f \in Surjection(targets, 1 .. n)
  <2> HIDE DEF f
  <2> QED BY <1>4, <1>5, FS_Injection
<1>7. \A k \in 1 .. n : \E t \in targets : f[t] = k
  <2> HIDE DEF f, n
  <2> QED BY <1>6 DEF Surjection
<1> QED BY <1>1, <1>7 DEF Rank

LEMMA NewItemsAreRows ==
    ASSUME NEW targets \in SUBSET Targets
    PROVE  /\ Cardinality(targets) \in Nat
           /\ NewItems(targets) \in Seq(ItemRow)
           /\ Len(NewItems(targets)) = Cardinality(targets)
           /\ \A k \in 1 .. Cardinality(targets) :
                /\ NewItems(targets)[k].state = "draft" /\ NewItems(targets)[k].regen = 0
                /\ NewItems(targets)[k].current = 0 /\ NewItems(targets)[k].approved = 0
<1> DEFINE n == Cardinality(targets)
           u(k) == CHOOSE t \in targets : Rank(t, targets) = k
<1>1. n \in Nat /\ \A k \in 1 .. n : u(k) \in targets
  BY RanksAreFilled
<1>2. \A k \in 1 .. n : NewItem(u(k)) \in ItemRow
  <2> HIDE DEF u, n
  <2> QED BY <1>1 DEF NewItem, ItemRow, ContentState
<1>3. NewItems(targets) = [k \in 1 .. n |-> NewItem(u(k))]
  BY DEF NewItems
<1> HIDE DEF u, n
<1>4. NewItems(targets) \in Seq(ItemRow) /\ Len(NewItems(targets)) = n
  BY <1>1, <1>2, <1>3
<1>5. \A k \in 1 .. n : NewItems(targets)[k] = NewItem(u(k))
  BY <1>3
<1> QED BY <1>1, <1>4, <1>5 DEF NewItem, n

------------------------------------------------------------------------------
(* What the operations of the store return.                                *)

LEMMA Replaced ==
    ASSUME NEW S, NEW s \in Seq(S), NEW i \in DOMAIN s, NEW x \in S
    PROVE  /\ [s EXCEPT ![i] = x] \in Seq(S)
           /\ Len([s EXCEPT ![i] = x]) = Len(s)
           /\ [s EXCEPT ![i] = x][i] = x
           /\ \A k \in DOMAIN s : k # i => [s EXCEPT ![i] = x][k] = s[k]
OBVIOUS

LEMMA Appended ==
    ASSUME NEW S, NEW s \in Seq(S), NEW x \in S
    PROVE  /\ Append(s, x) \in Seq(S)
           /\ Len(Append(s, x)) = Len(s) + 1
           /\ Append(s, x)[Len(s) + 1] = x
           /\ \A k \in DOMAIN s : Append(s, x)[k] = s[k]
OBVIOUS

LEMMA Numbered ==
    ASSUME NEW S, NEW s \in Seq(S)
    PROVE  DOMAIN s = 1 .. Len(s) /\ Len(s) \in Nat /\ \A k \in DOMAIN s : k \in Nat \ {0}
OBVIOUS

LEMMA Joined ==
    ASSUME NEW S, NEW s \in Seq(S), NEW u \in Seq(S)
    PROVE  /\ s \o u \in Seq(S)
           /\ Len(s \o u) = Len(s) + Len(u)
           /\ \A k \in DOMAIN s : (s \o u)[k] = s[k]
           /\ \A k \in 1 .. Len(s \o u) : k > Len(s) => (s \o u)[k] = u[k - Len(s)]
OBVIOUS

\* A draft leads to a text to read, and an archived item to nothing.
LEMMA DraftLeadsTo ==
    ASSUME NEW copy, NEW generation
    PROVE  /\ DraftState(copy, generation) \in {"generated", "in_review"}
           /\ copy.state \in {"archived", "published"} =>
                ~MayAdvance(copy.state, DraftState(copy, generation))
<1>1. DraftState(copy, generation) \in {"generated", "in_review"}
  BY DEF DraftState, AfterRewrite
<1>2. Transitions("archived") = {} /\ Transitions("published") = {"archived"}
  BY DEF Transitions
<1> QED BY <1>1, <1>2 DEF MayAdvance, MayMove

LEMMA DraftIsRow ==
    ASSUME NEW row \in ItemRow, NEW copy \in ItemRow, NEW generation, NEW number \in Nat
    PROVE  LET new == RecordDraft(row, copy, generation, number) IN
           /\ new \in ItemRow /\ new.target = row.target /\ new.current = number
           /\ new.approved = IF copy.approved # 0 THEN 0 ELSE row.approved
           /\ new.regen = IF generation = "regenerated" THEN copy.regen + 1 ELSE row.regen
           /\ new.state = IF copy.state = DraftState(copy, generation) THEN row.state
                          ELSE DraftState(copy, generation)
<1> DEFINE to == DraftState(copy, generation)
           moved == IF copy.state = to THEN row ELSE [row EXCEPT !.state = to]
<1>1. to \in ContentState
  BY DraftLeadsTo DEF ContentState
<1>2. copy.regen + 1 \in Nat
  BY DEF ItemRow
<1>3. /\ moved \in ItemRow /\ moved.target = row.target
      /\ moved.approved = row.approved /\ moved.regen = row.regen
      /\ moved.state = IF copy.state = to THEN row.state ELSE to
  <2> HIDE DEF to
  <2> QED BY <1>1 DEF ItemRow
<1>4. RecordDraft(row, copy, generation, number) = DraftColumns(moved, copy, generation, number)
  BY DEF RecordDraft
<1> HIDE DEF moved, to
<1>5. LET new == DraftColumns(moved, copy, generation, number) IN
      /\ new \in ItemRow /\ new.target = moved.target /\ new.current = number
      /\ new.approved = IF copy.approved # 0 THEN 0 ELSE moved.approved
      /\ new.regen = IF generation = "regenerated" THEN copy.regen + 1 ELSE moved.regen
      /\ new.state = moved.state
  BY <1>2, <1>3 DEF DraftColumns, ItemRow
<1> QED BY <1>3, <1>4, <1>5 DEF to

\* A draft written over the row it was made for: what was approved no longer is.
LEMMA DraftIsNew ==
    ASSUME NEW row \in ItemRow, NEW copy \in ItemRow, NEW generation, NEW number \in Nat,
           NEW new, new = RecordDraft(row, copy, generation, number)
    PROVE  /\ new \in ItemRow /\ new.target = row.target /\ new.current = number
           /\ new.approved \in {0, row.approved}
           /\ new.regen = IF generation = "regenerated" THEN copy.regen + 1 ELSE row.regen
           /\ copy = row => new.approved = 0 /\ new.state \in {"generated", "in_review"}
<1>1. /\ new \in ItemRow /\ new.target = row.target /\ new.current = number
      /\ new.approved = IF copy.approved # 0 THEN 0 ELSE row.approved
      /\ new.regen = IF generation = "regenerated" THEN copy.regen + 1 ELSE row.regen
      /\ new.state = IF copy.state = DraftState(copy, generation) THEN row.state
                     ELSE DraftState(copy, generation)
  BY DraftIsRow
<1>2. DraftState(copy, generation) \in {"generated", "in_review"}
  BY DraftLeadsTo
<1>3. new.approved \in {0, row.approved}
  BY <1>1
<1>4. ASSUME copy = row
      PROVE  new.approved = 0 /\ new.state \in {"generated", "in_review"}
  <2>1. new.approved = 0
    BY <1>1, <1>4
  <2>2. new.state = DraftState(copy, generation)
    BY <1>1, <1>4
  <2> QED BY <1>2, <2>1, <2>2
<1> QED BY <1>1, <1>3, <1>4

LEMMA VersionIsRow ==
    ASSUME NEW author \in Nat, NEW bad \in BOOLEAN
    PROVE  NewVersion(author, bad) \in VersionRow /\ NewVersion(author, bad).by = author
BY DEF NewVersion, VersionRow

LEMMA NotedIsRow ==
    ASSUME NEW v \in VersionRow, NEW risky \in BOOLEAN
    PROVE  /\ Noted(v, risky) \in VersionRow /\ Noted(v, risky).by = v.by
           /\ v.notes \subseteq Noted(v, risky).notes
BY DEF Noted, VersionRow

\* A version is added at the end of those of its item, and the others stay.
LEMMA AddedVersion ==
    ASSUME Tables, NEW i \in ItemIds, NEW author \in Nat, NEW bad \in BOOLEAN,
           versions' = AddVersion(versions, i, author, bad)
    PROVE  /\ versions' \in Seq(Seq(VersionRow)) /\ Len(versions') = Len(versions)
           /\ \A k \in ItemIds : k # i => versions'[k] = versions[k]
           /\ Len(versions'[i]) = Len(versions[i]) + 1
           /\ \A v \in DOMAIN versions[i] : versions'[i][v] = versions[i][v]
           /\ versions'[i][Len(versions[i]) + 1].by = author
<1> DEFINE new == Append(versions[i], NewVersion(author, bad))
<1>1. /\ versions \in Seq(Seq(VersionRow)) /\ ItemIds = DOMAIN versions
      /\ versions[i] \in Seq(VersionRow)
  BY TablesAreTyped DEF Tables
<1>2. NewVersion(author, bad) \in VersionRow /\ NewVersion(author, bad).by = author
  BY VersionIsRow
<1>3. /\ new \in Seq(VersionRow) /\ Len(new) = Len(versions[i]) + 1
      /\ new[Len(versions[i]) + 1] = NewVersion(author, bad)
      /\ \A k \in DOMAIN versions[i] : new[k] = versions[i][k]
  BY <1>1, <1>2, Appended
<1>4. versions' = [versions EXCEPT ![i] = new]
  BY DEF AddVersion
<1> HIDE DEF new
<1>5. /\ versions' \in Seq(Seq(VersionRow)) /\ Len(versions') = Len(versions)
      /\ versions'[i] = new
      /\ \A k \in DOMAIN versions : k # i => versions'[k] = versions[k]
  BY <1>1, <1>3, <1>4, Replaced
<1> QED BY <1>1, <1>2, <1>3, <1>5

------------------------------------------------------------------------------
(* A step of the runs A, seen by everybody else.                           *)

\* Nothing that was written is lost, an item is written under a run that holds
\* it only when the item is marked, and only the runs of A move.
Step(A) ==
    /\ ItemIds \subseteq ItemIds' /\ JobIds \subseteq JobIds'
    /\ overtaken \subseteq overtaken' /\ orphans \subseteq orphans'
    /\ \A i \in ItemIds :
         /\ items'[i].target = items[i].target
         /\ i \in overtaken' \/ items'[i] = items[i] \/ Holders(i) \subseteq A
         /\ \A v \in DOMAIN versions[i] :
              /\ v \in DOMAIN versions'[i]
              /\ versions'[i][v].by = versions[i][v].by
              /\ versions[i][v].notes \subseteq versions'[i][v].notes
    /\ \A j \in JobIds :
         /\ jobs'[j].mode = jobs[j].mode /\ jobs'[j].item = jobs[j].item
         /\ jobs'[j].targets = jobs[j].targets
         /\ j \notin A => jobs'[j] = jobs[j] /\ runs'[j] = runs[j]
    /\ \A j \in JobIds' \ JobIds :
         /\ runs'[j] = Idle /\ jobs'[j].status = "queued" /\ jobs'[j].attempt = 0
         /\ jobs'[j].mode = "regenerated" =>
              /\ jobs'[j].item \in ItemIds'
              /\ jobs'[j].targets = {items'[jobs'[j].item].target}

LEMMA IdleHoldsNothing ==
    /\ Idle \in RunRow /\ Idle.pc = "idle" /\ Idle.todo = {} /\ DOMAIN Idle.entries = {}
<1>1. <<>> \in [{} -> EntryRow] /\ DOMAIN <<>> = {}
  OBVIOUS
<1>2. <<>> \in UNION {[T -> EntryRow] : T \in SUBSET Targets}
  BY <1>1
<1> QED BY <1>1, <1>2 DEF Idle, RunRow

\* What a run wrote stays written.
LEMMA TextsStay ==
    ASSUME Base, NEW A, Step(A), NEW k \in JobIds, NEW e,
           e.item \in ItemIds, e.copy.current \in 0 .. Len(versions[e.item])
    PROVE  /\ WrittenByJob(k, e)' <=> WrittenByJob(k, e)
           /\ e.item \in ItemIds'
           /\ Tables' => e.copy.current \in 0 .. Len(versions'[e.item])
<1>1. versions[e.item] \in Seq(VersionRow)
  BY TablesAreTyped DEF Base
<1>2. e.copy.current # 0 => e.copy.current \in DOMAIN versions[e.item]
  BY <1>1
<1>3. e.item \in ItemIds' /\ (WrittenByJob(k, e)' <=> WrittenByJob(k, e))
  BY <1>2 DEF Step, WrittenByJob
<1>4. ASSUME Tables'
      PROVE  e.copy.current \in 0 .. Len(versions'[e.item])
  <2>1. versions'[e.item] \in Seq(VersionRow)
    BY <1>3, <1>4, NextTablesAreTyped
  <2>2. e.copy.current # 0 => e.copy.current \in DOMAIN versions'[e.item]
    BY <1>2 DEF Step
  <2> QED BY <1>1, <2>1, <2>2
<1> QED BY <1>3, <1>4, <1>1 DEF Step

LEMMA RunsStay ==
    ASSUME Base, Tables', NEW A, Step(A), NEW k \in JobIds, k \notin A
    PROVE  WorkFits(k)'
<1>1. /\ jobs'[k] = jobs[k] /\ runs'[k] = runs[k] /\ WorkFits(k) /\ k \in JobIds'
      /\ jobs[k] \in JobRow /\ runs[k] \in RunRow
  BY TablesAreTyped DEF Step, Base
<1>2. ASSUME NEW t \in DOMAIN runs[k].entries, NEW e, e = runs[k].entries[t]
      PROVE  /\ e.item \in ItemIds /\ e.copy.current \in 0 .. Len(versions[e.item])
             /\ WrittenByJob(k, e)' <=> WrittenByJob(k, e)
             /\ e.item \in ItemIds' /\ e.copy.current \in 0 .. Len(versions'[e.item])
             /\ items'[e.item].target = items[e.item].target
             /\ e.item \in overtaken' \/ items'[e.item] = items[e.item]
  <2>1. e.item \in ItemIds /\ e.copy.current \in 0 .. Len(versions[e.item])
    BY <1>1, <1>2 DEF WorkFits, RunFits
  <2>2. k \in Holders(e.item)
    BY <1>2 DEF Holders
  <2>3. items'[e.item].target = items[e.item].target
    BY <2>1 DEF Step
  <2>4. e.item \in overtaken' \/ items'[e.item] = items[e.item]
    BY <2>1, <2>2 DEF Step
  <2> QED BY <2>1, <2>3, <2>4, TextsStay
<1>3. JobFits(k)'
  BY <1>1 DEF WorkFits, JobFits, Step
<1>4. RunFits(k)'
  <2>1. ASSUME NEW t \in DOMAIN runs[k].entries, NEW e, e = runs[k].entries[t]
        PROVE  /\ e.item \in ItemIds' /\ items'[e.item].target = t
               /\ jobs[k].mode = "regenerated" => e.item = jobs[k].item
               /\ e.copy.current \in 0 .. Len(versions'[e.item])
    <3>1. items[e.item].target = t /\ (jobs[k].mode = "regenerated" => e.item = jobs[k].item)
      BY <1>1, <2>1 DEF WorkFits, RunFits
    <3>2. /\ e.item \in ItemIds' /\ e.copy.current \in 0 .. Len(versions'[e.item])
          /\ items'[e.item].target = items[e.item].target
      BY <1>2, <2>1, ZenonT(30)
    <3> QED BY <3>1, <3>2
  <2> QED BY <1>1, <2>1 DEF WorkFits, RunFits
<1>5. ASSUME runs[k].pc # "idle", NEW t \in jobs[k].targets
      PROVE  Has(k, t)' <=> Has(k, t)
  <2>1. t \in DOMAIN runs[k].entries
    BY <1>1, <1>5 DEF WorkFits, RunFits
  <2>2. PICK e : e = runs[k].entries[t]
    OBVIOUS
  <2>3. WrittenByJob(k, e)' <=> WrittenByJob(k, e)
    BY <1>2, <2>1, <2>2
  <2> QED BY <1>1, <2>2, <2>3 DEF Has, WrittenByJob
<1>6. Covered(k)'
  BY <1>1, <1>5 DEF WorkFits, Covered
<1>7. Ahead(k)'
  <2> SUFFICES ASSUME runs[k].pc = "advance"
               PROVE  Ahead(k)'
    BY <1>1 DEF Ahead
  <2>1. runs[k].todo # {}
    BY <1>1 DEF WorkFits, RunFits
  <2>2. PICK t : t = NextTarget(k)
    OBVIOUS
  <2>3. t \in runs[k].todo /\ NextTarget(k)' = t
    BY <1>1, <2>1, <2>2, NextTargetIsDue DEF Base, NextTarget
  <2>4. t \in jobs[k].targets /\ t \in DOMAIN runs[k].entries
    BY <1>1, <2>3 DEF WorkFits, RunFits
  <2>5. PICK e : e = runs[k].entries[t]
    OBVIOUS
  <2>6. ~Has(k, t)'
    BY <1>1, <1>5, <2>2, <2>4 DEF WorkFits, Ahead
  <2>7. PICK v \in DOMAIN versions[e.item] :
               /\ versions[e.item][v].by = k
               /\ e.item \notin overtaken => items[e.item].current < v
    BY <1>1, <2>2, <2>5 DEF WorkFits, Ahead
  <2>8. e.item \in ItemIds /\ (e.item \in overtaken' \/ items'[e.item] = items[e.item])
    BY <1>2, <2>4, <2>5
  <2>9. /\ v \in DOMAIN versions'[e.item] /\ versions'[e.item][v].by = k
        /\ e.item \notin overtaken' => items'[e.item].current < v
    BY <2>7, <2>8 DEF Step
  <2> QED BY <1>1, <2>3, <2>5, <2>6, <2>9 DEF Ahead
<1>8. Whole(k)'
  <2> SUFFICES ASSUME jobs[k].status = "done", NEW t \in jobs[k].targets
               PROVE  \E i \in ItemIds' : items'[i].target = t /\
                        \E v \in DOMAIN versions'[i] : versions'[i][v].by = k
    BY <1>1 DEF Whole
  <2>1. PICK i \in ItemIds : items[i].target = t /\
                        \E v \in DOMAIN versions[i] : versions[i][v].by = k
    BY <1>1 DEF WorkFits, Whole
  <2> QED BY <2>1 DEF Step
<1>9. \A i \in ItemIds' : Fresh(i, k)'
  BY <1>1, <1>2 DEF WorkFits, Fresh, Step
<1> QED BY <1>3, <1>4, <1>6, <1>7, <1>8, <1>9 DEF WorkFits

\* A job just asked for.
LEMMA NewRunsFit ==
    ASSUME NEW A, Step(A), NEW k \in JobIds' \ JobIds
    PROVE  WorkFits(k)'
<1>1. runs'[k] = Idle /\ jobs'[k].status = "queued" /\ jobs'[k].attempt = 0
  BY DEF Step
<1>2. JobFits(k)'
  BY <1>1, IdleHoldsNothing, GenerationAssumption DEF JobFits, Step
<1>3. RunFits(k)' /\ Covered(k)' /\ Ahead(k)' /\ Whole(k)'
  BY <1>1, IdleHoldsNothing DEF RunFits, Covered, Ahead, Whole
<1>4. \A i \in ItemIds' : Fresh(i, k)'
  BY <1>1, IdleHoldsNothing DEF Fresh
<1> QED BY <1>2, <1>3, <1>4 DEF WorkFits

\* An item that is not written keeps what it says.
LEMMA ItemsStay ==
    ASSUME Base, Tables', NEW A, Step(A), NEW i \in ItemIds, items'[i] = items[i]
    PROVE  ItemFits(i)'
<1>1. /\ ItemFits(i) /\ items[i] \in ItemRow /\ versions[i] \in Seq(VersionRow)
      /\ i \in ItemIds' /\ (i \in overtaken => i \in overtaken')
  BY TablesAreTyped DEF Base, Step
<1>2. versions'[i] \in Seq(VersionRow)
  BY <1>1, NextTablesAreTyped
<1>3. \A v \in DOMAIN versions[i] : /\ v \in DOMAIN versions'[i]
                                    /\ versions[i][v].notes \subseteq versions'[i][v].notes
  BY DEF Step
<1>4. \A v \in 0 .. Len(versions[i]) : v \in 0 .. Len(versions'[i])
  <2>1. \A v \in 1 .. Len(versions[i]) : v \in 1 .. Len(versions'[i])
    BY <1>1, <1>2, <1>3
  <2>2. Len(versions'[i]) \in Nat
    BY <1>2
  <2> QED BY <2>1, <2>2
<1>5. RowFits(i)'
  <2>1. /\ items[i].current \in 0 .. Len(versions'[i])
        /\ items[i].approved \in 0 .. Len(versions'[i])
    BY <1>1, <1>4 DEF ItemFits, RowFits
  <2>2. ASSUME items[i].approved # 0
        PROVE  Reviewers \subseteq versions'[i][items[i].approved].notes
    <3>1. items[i].approved \in DOMAIN versions[i]
      BY <1>1, <2>2 DEF ItemFits, RowFits
    <3> QED BY <1>1, <1>3, <3>1, <2>2 DEF ItemFits, RowFits
  <2> QED BY <2>1, <2>2 DEF RowFits
<1>6. Shown(i)'
  <2>1. overtaken \subseteq overtaken'
    BY DEF Step
  <2> QED BY <1>1, <2>1 DEF ItemFits, Shown
<1> QED BY <1>5, <1>6 DEF ItemFits

LEMMA BaseKept ==
    ASSUME Base, Tables', NEW A \in SUBSET JobIds, Step(A),
           \A j \in A : WorkFits(j)',
           \A i \in ItemIds' : (i \in ItemIds /\ items'[i] = items[i]) \/ ItemFits(i)'
    PROVE  Base'
<1>1. \A i \in ItemIds' : ItemFits(i)'
  BY ItemsStay
<1>2. \A j \in JobIds' : WorkFits(j)'
  BY RunsStay, NewRunsFit
<1> QED BY <1>1, <1>2 DEF Base

------------------------------------------------------------------------------
(* The routes keep the base of the invariant.                              *)

LEMMA OvertakesMarks ==
    ASSUME Tables, NEW i \in ItemIds, NEW others, Overtakes(i, others)
    PROVE  /\ overtaken \subseteq overtaken' /\ overtaken' \subseteq ItemIds
           /\ others # {} => i \in overtaken'
           /\ \A k \in ItemIds : k # i /\ k \notin overtaken => k \notin overtaken'
BY DEF Overtakes, Tables

\* A click writes one row, over no copy unless the row is marked.
LEMMA RowStep ==
    ASSUME Base, NEW i \in ItemIds, NEW row \in ItemRow, row.target = items[i].target,
           items' = [items EXCEPT ![i] = row], UNCHANGED <<versions, jobs, runs, orphans>>,
           overtaken \subseteq overtaken', overtaken' \subseteq ItemIds,
           i \in overtaken' \/ row = items[i] \/ Holders(i) = {},
           \A r \in reviews' : r[1] \in ItemIds /\ r[2] \in DOMAIN versions[r[1]]
    PROVE  Tables' /\ Step({}) /\ ItemIds' = ItemIds
<1>1. /\ items' \in Seq(ItemRow) /\ Len(items') = Len(items) /\ items'[i] = row
      /\ \A k \in ItemIds : k # i => items'[k] = items[k]
  BY Replaced DEF Base, Tables, ItemIds
<1>2. ItemIds' = ItemIds
  BY <1>1 DEF Base, Tables, ItemIds
<1>3. Tables'
  BY <1>1, <1>2 DEF Base, Tables
<1>4. Step({})
  BY <1>1, <1>2 DEF Step, JobIds
<1> QED BY <1>2, <1>3, <1>4

LEMMA RowBase ==
    ASSUME Base, NEW i \in ItemIds, NEW row \in ItemRow, row.target = items[i].target,
           items' = [items EXCEPT ![i] = row], UNCHANGED <<versions, jobs, runs, orphans>>,
           overtaken \subseteq overtaken', overtaken' \subseteq ItemIds,
           i \in overtaken' \/ row = items[i] \/ Holders(i) = {},
           \A r \in reviews' : r[1] \in ItemIds /\ r[2] \in DOMAIN versions[r[1]],
           row.current = items[i].current,
           row.approved = items[i].approved \/
             (row.approved = row.current /\ Approvable(items[i], versions[i])),
           i \notin overtaken' /\ row.state \in {"approved", "published"} =>
             row.approved # 0
    PROVE  Base'
<1>1. Tables' /\ Step({}) /\ ItemIds' = ItemIds
  BY RowStep
<1>2. /\ items'[i] = row /\ \A k \in ItemIds : k # i => items'[k] = items[k]
  BY Replaced DEF Base, Tables, ItemIds
<1>3. ItemFits(i) /\ items[i] \in ItemRow /\ versions[i] \in Seq(VersionRow)
  BY TablesAreTyped DEF Base
<1>4. RowFits(i)'
  BY <1>2, <1>3 DEF ItemFits, RowFits, Approvable
<1>5. Shown(i)'
  BY <1>2, <1>3 DEF ItemFits, Shown
<1> QED BY <1>1, <1>2, <1>4, <1>5, BaseKept DEF ItemFits

LEMMA OpenReviewBase ==
    ASSUME Base, NEW i \in ItemIds, OpenReview(i)
    PROVE  Base' /\ Step({})
<1> DEFINE row == [items[i] EXCEPT !.state = "in_review"]
<1>1. /\ Tables /\ items[i] \in ItemRow /\ ItemFits(i) /\ versions[i] \in Seq(VersionRow)
  BY TablesAreTyped DEF Base
<1>2. /\ row \in ItemRow /\ row.target = items[i].target /\ row.current = items[i].current
      /\ row.approved = items[i].approved /\ row.state = "in_review"
      /\ items[i].state = "in_review" => row = items[i]
  BY <1>1 DEF ItemRow, ContentState
<1>3. items' = [items EXCEPT ![i] = row] /\ UNCHANGED <<versions, jobs, runs, orphans>>
  BY DEF OpenReview
<1>4. /\ overtaken \subseteq overtaken' /\ overtaken' \subseteq ItemIds
      /\ i \in overtaken' \/ items[i].state = "in_review" \/ Holders(i) = {}
  BY <1>1, OvertakesMarks DEF OpenReview
<1>5. items[i].current # 0 => items[i].current \in DOMAIN versions[i]
  BY <1>1 DEF ItemFits, RowFits
<1>6. \A r \in reviews' : r[1] \in ItemIds /\ r[2] \in DOMAIN versions[r[1]]
  BY <1>1, <1>5 DEF OpenReview, Tables
<1> HIDE DEF row
<1> QED BY <1>2, <1>3, <1>4, <1>6, RowBase, RowStep

LEMMA ApproveBase ==
    ASSUME Base, NEW i \in ItemIds, Approve(i)
    PROVE  Base' /\ Step({})
<1> DEFINE row == [items[i] EXCEPT !.state = "approved", !.approved = items[i].current]
<1>1. /\ Tables /\ items[i] \in ItemRow
  BY TablesAreTyped DEF Base
<1>2. /\ row \in ItemRow /\ row.target = items[i].target /\ row.current = items[i].current
      /\ row.approved = row.current
  BY <1>1 DEF ItemRow, ContentState
<1>3. /\ items' = [items EXCEPT ![i] = row] /\ UNCHANGED <<versions, jobs, runs, orphans>>
      /\ Approvable(items[i], versions[i]) /\ items[i].current # 0 /\ UNCHANGED reviews
  BY <1>1 DEF Approve, Approvable, Tables, ItemIds
<1>4. /\ overtaken \subseteq overtaken' /\ overtaken' \subseteq ItemIds
      /\ i \in overtaken' \/ Holders(i) = {}
  BY <1>1, OvertakesMarks DEF Approve
<1>5. \A r \in reviews' : r[1] \in ItemIds /\ r[2] \in DOMAIN versions[r[1]]
  BY <1>1, <1>3 DEF Tables
<1> HIDE DEF row
<1> QED BY <1>2, <1>3, <1>4, <1>5, RowBase, RowStep

\* A rejection, or a publication: the state alone.
LEMMA MoveBase ==
    ASSUME Base, NEW i \in ItemIds, Reject(i) \/ Publish(i)
    PROVE  Base' /\ Step({})
<1> DEFINE row == [items[i] EXCEPT !.state = items'[i].state]
<1>1. /\ Tables /\ items[i] \in ItemRow /\ ItemFits(i)
  BY TablesAreTyped DEF Base
<1>2. PICK s \in {"archived", "published"} :
        /\ items' = [items EXCEPT ![i].state = s]
        /\ s = "published" => items[i].state = "approved"
  BY DEF Reject, Publish
<1>3. /\ items' = [items EXCEPT ![i] = row] /\ row = [items[i] EXCEPT !.state = s]
  BY <1>1, <1>2 DEF Tables, ItemIds, ItemRow
<1>4. /\ row \in ItemRow /\ row.target = items[i].target /\ row.current = items[i].current
      /\ row.approved = items[i].approved /\ row.state = s
  BY <1>1, <1>3 DEF ItemRow, ContentState
<1>5. UNCHANGED <<versions, jobs, runs, orphans, reviews>>
  BY DEF Reject, Publish
<1>6. /\ overtaken \subseteq overtaken' /\ overtaken' \subseteq ItemIds
      /\ i \in overtaken' \/ Holders(i) = {}
  BY <1>1, OvertakesMarks DEF Reject, Publish
<1>7. \A r \in reviews' : r[1] \in ItemIds /\ r[2] \in DOMAIN versions[r[1]]
  BY <1>1, <1>5 DEF Tables
<1>8. i \notin overtaken' /\ row.state \in {"approved", "published"} => row.approved # 0
  BY <1>1, <1>2, <1>4, <1>6 DEF ItemFits, Shown
<1> HIDE DEF row
<1> QED BY <1>3, <1>4, <1>5, <1>6, <1>7, <1>8, RowBase, RowStep

\* The agents answer on one version, or not at all.
LEMMA ReviewBase ==
    ASSUME Base, NEW r \in reviews,
           (\E risky \in BOOLEAN : CloseReview(r[1], r[2], risky)) \/ AbandonReview(r[1], r[2])
    PROVE  Base' /\ Step({}) /\ \A k \in ItemIds : Len(versions'[k]) = Len(versions[k])
<1>1. /\ Tables /\ r[1] \in ItemIds /\ r[2] \in DOMAIN versions[r[1]]
      /\ versions[r[1]] \in Seq(VersionRow) /\ versions \in Seq(Seq(VersionRow))
      /\ ItemIds = DOMAIN versions
  BY TablesAreTyped DEF Base, Tables
<1>2. /\ UNCHANGED <<items, jobs, runs, orphans, overtaken>> /\ reviews' \subseteq reviews
  BY DEF CloseReview, AbandonReview
<1>3. /\ versions' \in Seq(Seq(VersionRow)) /\ Len(versions') = Len(versions)
      /\ \A k \in ItemIds : \A v \in DOMAIN versions[k] :
           /\ v \in DOMAIN versions'[k] /\ versions'[k][v].by = versions[k][v].by
           /\ versions[k][v].notes \subseteq versions'[k][v].notes
      /\ \A k \in ItemIds : Len(versions'[k]) = Len(versions[k])
  <2>1. CASE UNCHANGED versions
    BY <1>1, <2>1
  <2>2. CASE \E risky \in BOOLEAN : CloseReview(r[1], r[2], risky)
    <3>1. PICK risky \in BOOLEAN :
            versions' = [versions EXCEPT ![r[1]][r[2]] = Noted(@, risky)]
      BY <2>2 DEF CloseReview
    <3> DEFINE texts == versions[r[1]]
               noted == Noted(texts[r[2]], risky)
               new == [texts EXCEPT ![r[2]] = noted]
    <3>2. texts[r[2]] \in VersionRow
      BY <1>1
    <3>3. noted \in VersionRow /\ noted.by = texts[r[2]].by /\ texts[r[2]].notes \subseteq noted.notes
      BY <3>2, NotedIsRow
    <3>4. versions' = [versions EXCEPT ![r[1]] = new]
      BY <3>1
    <3> HIDE DEF noted
    <3>5. /\ new \in Seq(VersionRow) /\ Len(new) = Len(texts) /\ new[r[2]] = noted
          /\ \A v \in DOMAIN texts : v # r[2] => new[v] = texts[v]
      BY <1>1, <3>3, Replaced
    <3> HIDE DEF new
    <3>6. /\ versions' \in Seq(Seq(VersionRow)) /\ Len(versions') = Len(versions)
          /\ versions'[r[1]] = new
          /\ \A k \in ItemIds : k # r[1] => versions'[k] = versions[k]
      BY <1>1, <3>4, <3>5, Replaced
    <3>7. \A v \in DOMAIN texts :
           /\ v \in DOMAIN new /\ new[v].by = texts[v].by
           /\ texts[v].notes \subseteq new[v].notes
      <4>1. texts \in Seq(VersionRow)
        BY <1>1
      <4> HIDE DEF texts
      <4>2. DOMAIN new = DOMAIN texts
        BY <3>5, <4>1
      <4>3. ASSUME NEW v \in DOMAIN texts, v # r[2]
            PROVE  new[v].by = texts[v].by /\ texts[v].notes \subseteq new[v].notes
        BY <3>5, <4>3
      <4> QED BY <3>3, <3>5, <4>2, <4>3
    <3> QED BY <3>5, <3>6, <3>7
  <2> QED BY <2>1, <2>2 DEF AbandonReview
<1>4. \A q \in reviews' : q[1] \in ItemIds /\ q[2] \in DOMAIN versions'[q[1]]
  BY <1>1, <1>2, <1>3 DEF Tables
<1>5. Tables'
  BY <1>1, <1>2, <1>3, <1>4 DEF Tables, ItemIds
<1>6. Step({})
  BY <1>2, <1>3 DEF Step, ItemIds, JobIds
<1>7. \A i \in ItemIds' : i \in ItemIds /\ items'[i] = items[i]
  BY <1>2 DEF ItemIds
<1> QED BY <1>3, <1>5, <1>6, <1>7, BaseKept

\* A version more: those that were there stay.
LEMMA AddedKeeps ==
    ASSUME Tables, NEW i \in ItemIds, NEW author \in Nat, NEW bad \in BOOLEAN,
           versions' = AddVersion(versions, i, author, bad)
    PROVE  /\ \A k \in ItemIds : \A v \in DOMAIN versions[k] :
                v \in DOMAIN versions'[k] /\ versions'[k][v] = versions[k][v]
           /\ Len(versions[i]) \in Nat /\ Len(versions'[i]) = Len(versions[i]) + 1
<1>1. /\ \A k \in ItemIds : k # i => versions'[k] = versions[k]
      /\ \A v \in DOMAIN versions[i] : versions'[i][v] = versions[i][v]
      /\ versions' \in Seq(Seq(VersionRow)) /\ Len(versions') = Len(versions)
      /\ Len(versions'[i]) = Len(versions[i]) + 1
  BY AddedVersion
<1>2. versions[i] \in Seq(VersionRow) /\ versions'[i] \in Seq(VersionRow)
  BY <1>1, TablesAreTyped DEF Tables, ItemIds
<1>3. \A v \in DOMAIN versions[i] : v \in DOMAIN versions'[i]
  BY <1>1, <1>2
<1> QED BY <1>1, <1>2, <1>3

LEMMA EditBase ==
    ASSUME Base, NEW i \in ItemIds, Edit(i)
    PROVE  Base' /\ Step({})
<1> DEFINE n == Len(versions[i]) + 1
           row == RecordDraft(items[i], items[i], "edited", n)
<1>1. /\ Tables /\ items[i] \in ItemRow /\ ItemFits(i) /\ User \in Nat
  BY TablesAreTyped DEF Base, User
<1>2. PICK bad \in BOOLEAN : versions' = AddVersion(versions, i, User, bad)
  BY DEF Edit
<1>3. /\ \A k \in ItemIds : \A v \in DOMAIN versions[k] :
           v \in DOMAIN versions'[k] /\ versions'[k][v] = versions[k][v]
      /\ n \in Nat /\ Len(versions'[i]) = n /\ Len(versions[i]) \in Nat
      /\ versions' \in Seq(Seq(VersionRow)) /\ Len(versions') = Len(versions)
  <2>1. /\ \A k \in ItemIds : \A v \in DOMAIN versions[k] :
             v \in DOMAIN versions'[k] /\ versions'[k][v] = versions[k][v]
        /\ Len(versions[i]) \in Nat /\ Len(versions'[i]) = Len(versions[i]) + 1
    BY <1>1, <1>2, AddedKeeps
  <2>2. versions' \in Seq(Seq(VersionRow)) /\ Len(versions') = Len(versions)
    BY <1>1, <1>2, AddedVersion
  <2> QED BY <2>1, <2>2
<1>4. /\ row \in ItemRow /\ row.target = items[i].target /\ row.current = n
      /\ row.approved = 0 /\ row.state \in {"generated", "in_review"}
  <2>1. row.approved = IF items[i].approved # 0 THEN 0 ELSE items[i].approved
    BY <1>1, <1>3, DraftIsRow
  <2>2. row.approved = 0
    BY <2>1
  <2>3. row.state = IF items[i].state = DraftState(items[i], "edited") THEN items[i].state
                    ELSE DraftState(items[i], "edited")
    BY <1>1, <1>3, DraftIsRow
  <2> HIDE DEF row
  <2>4. row.state \in {"generated", "in_review"}
    BY <2>3, DraftLeadsTo
  <2> QED BY <1>1, <1>3, <2>2, <2>4, DraftIsRow DEF row
<1>5. /\ UNCHANGED <<jobs, runs, reviews>> /\ orphans \subseteq orphans'
      /\ overtaken \subseteq overtaken' /\ overtaken' \subseteq ItemIds
      /\ items' = items \/ (/\ items' = [items EXCEPT ![i] = row]
                            /\ i \in overtaken' \/ Holders(i) = {})
  <2>1. CASE MayAdvance(items[i].state, DraftState(items[i], "edited"))
    <3>1. items' = [items EXCEPT ![i] = row] /\ Overtakes(i, Holders(i)) /\ UNCHANGED orphans
      BY <2>1 DEF Edit
    <3> HIDE DEF row
    <3> QED BY <1>1, <3>1, OvertakesMarks DEF Edit
  <2>2. CASE ~MayAdvance(items[i].state, DraftState(items[i], "edited"))
    BY <1>1, <2>2 DEF Edit, Tables
  <2> QED BY <2>1, <2>2
<1> HIDE DEF row, n
<1>6. /\ items' \in Seq(ItemRow) /\ Len(items') = Len(items) /\ items'[i] \in {items[i], row}
      /\ \A k \in ItemIds : k # i => items'[k] = items[k]
      /\ items'[i] = items[i] \/ i \in overtaken' \/ Holders(i) = {}
  <2>1. CASE items' = items
    BY <1>1, <2>1 DEF Tables
  <2>2. CASE items' = [items EXCEPT ![i] = row] /\ (i \in overtaken' \/ Holders(i) = {})
    <3>1. /\ items' \in Seq(ItemRow) /\ Len(items') = Len(items) /\ items'[i] = row
          /\ \A k \in DOMAIN items : k # i => items'[k] = items[k]
      BY <1>1, <1>4, <2>2, Replaced DEF Tables, ItemIds
    <3> QED BY <2>2, <3>1 DEF ItemIds
  <2> QED BY <1>5, <2>1, <2>2
<1>7. ItemIds' = ItemIds
  BY <1>1, <1>6 DEF Tables, ItemIds
<1>8. Tables'
  BY <1>1, <1>3, <1>5, <1>6, <1>7 DEF Tables
<1>9. Step({})
  BY <1>3, <1>4, <1>5, <1>6, <1>7 DEF Step, JobIds
<1>10. items'[i] = row => ItemFits(i)'
  BY <1>3, <1>4 DEF ItemFits, RowFits, Shown
<1> QED BY <1>6, <1>7, <1>8, <1>9, <1>10, BaseKept

\* A job more, or none.
LEMMA Enqueued ==
    ASSUME Tables, NEW mode \in {"initial", "regenerated"}, NEW item \in Nat,
           NEW targets \in SUBSET Targets, Enqueue(mode, item, targets)
    PROVE  /\ jobs' \in Seq(JobRow) /\ runs' \in Seq(RunRow)
           /\ Len(runs') = Len(jobs') /\ JobIds \subseteq JobIds'
           /\ \A j \in JobIds : jobs'[j] = jobs[j] /\ runs'[j] = runs[j]
           /\ \A j \in JobIds' \ JobIds :
                /\ runs'[j] = Idle /\ jobs'[j].status = "queued" /\ jobs'[j].attempt = 0
                /\ jobs'[j].mode = mode /\ jobs'[j].item = item /\ jobs'[j].targets = targets
<1>1. CASE UNCHANGED <<jobs, runs>>
  BY <1>1 DEF Tables, JobIds
<1>2. CASE ~ UNCHANGED <<jobs, runs>>
  <2> DEFINE new == [status |-> "queued", mode |-> mode, item |-> item,
                     targets |-> targets, attempt |-> 0]
  <2>1. jobs' = Append(jobs, new) /\ runs' = Append(runs, Idle)
    BY <1>2 DEF Enqueue
  <2>2. new \in JobRow /\ Idle \in RunRow
    BY IdleHoldsNothing DEF JobRow
  <2>3. /\ new.status = "queued" /\ new.attempt = 0
        /\ new.mode = mode /\ new.item = item /\ new.targets = targets
    OBVIOUS
  <2> HIDE DEF new
  <2>4. /\ jobs' \in Seq(JobRow) /\ Len(jobs') = Len(jobs) + 1 /\ jobs'[Len(jobs) + 1] = new
        /\ \A k \in DOMAIN jobs : jobs'[k] = jobs[k]
    BY <2>1, <2>2, Appended DEF Tables
  <2>5. /\ runs' \in Seq(RunRow) /\ Len(runs') = Len(jobs) + 1 /\ runs'[Len(jobs) + 1] = Idle
        /\ \A k \in DOMAIN runs : runs'[k] = runs[k]
    BY <2>1, <2>2, Appended DEF Tables
  <2>6. JobIds = 1 .. Len(jobs) /\ JobIds = DOMAIN runs /\ Len(jobs) \in Nat
    BY TablesAreTyped
  <2>7. JobIds' = 1 .. Len(jobs) + 1
    BY <2>4, <2>6 DEF JobIds
  <2>8. JobIds' \ JobIds = {Len(jobs) + 1} /\ JobIds \subseteq JobIds'
    BY <2>6, <2>7
  <2> QED BY <2>3, <2>4, <2>5, <2>6, <2>8 DEF JobIds
<1> QED BY <1>1, <1>2

LEMMA RegenerateBase ==
    ASSUME Base, NEW i \in ItemIds, Regenerate(i)
    PROVE  Base' /\ Step({})
<1>1. /\ Tables /\ items[i] \in ItemRow /\ i \in Nat
  BY TablesAreTyped DEF Base
<1>2. {items[i].target} \in SUBSET Targets
  BY <1>1 DEF ItemRow
<1>3. UNCHANGED <<items, versions, reviews, orphans, overtaken>>
  BY DEF Regenerate
<1>4. /\ jobs' \in Seq(JobRow) /\ runs' \in Seq(RunRow)
      /\ Len(runs') = Len(jobs') /\ JobIds \subseteq JobIds'
      /\ \A j \in JobIds : jobs'[j] = jobs[j] /\ runs'[j] = runs[j]
      /\ \A j \in JobIds' \ JobIds :
           /\ runs'[j] = Idle /\ jobs'[j].status = "queued" /\ jobs'[j].attempt = 0
           /\ jobs'[j].mode = "regenerated" /\ jobs'[j].item = i
           /\ jobs'[j].targets = {items[i].target}
  BY <1>1, <1>2, Enqueued DEF Regenerate
<1>5. Tables' /\ ItemIds' = ItemIds
  BY <1>1, <1>3, <1>4 DEF Tables, ItemIds
<1>6. Step({})
  BY <1>3, <1>4, <1>5 DEF Step
<1> QED BY <1>3, <1>5, <1>6, BaseKept

LEMMA GenerateBase ==
    ASSUME Base, NEW targets \in SUBSET Targets, Generate(targets)
    PROVE  /\ Base' /\ Step({})
           /\ \A i \in ItemIds : items'[i] = items[i] /\ versions'[i] = versions[i]
           /\ \A i \in ItemIds' \ ItemIds : items'[i].regen = 0 /\ versions'[i] = <<>>
           /\ \A j \in JobIds' \ JobIds : jobs'[j].mode = "initial"
<1> DEFINE n == Cardinality(targets)
           fresh == NewItems(targets)
           blank == [k \in 1 .. n |-> <<>>]
<1>1. /\ Tables /\ ItemIds = 1 .. Len(items) /\ Len(items) \in Nat /\ ItemIds = DOMAIN versions
      /\ items \in Seq(ItemRow) /\ versions \in Seq(Seq(VersionRow)) /\ Len(versions) = Len(items)
  BY TablesAreTyped DEF Base, Tables
<1>2. /\ n \in Nat /\ fresh \in Seq(ItemRow) /\ Len(fresh) = n
      /\ \A k \in 1 .. n : /\ fresh[k].state = "draft" /\ fresh[k].current = 0
                           /\ fresh[k].approved = 0 /\ fresh[k].regen = 0
  BY NewItemsAreRows
<1>3. items' = items \o fresh /\ versions' = versions \o blank
  BY DEF Generate
<1>4. UNCHANGED <<reviews, orphans, overtaken>>
  BY DEF Generate
<1> HIDE DEF n, fresh
<1>5. blank \in Seq(Seq(VersionRow)) /\ Len(blank) = n /\ \A k \in 1 .. n : blank[k] = <<>>
  <2>1. <<>> \in Seq(VersionRow)
    OBVIOUS
  <2>2. \A k \in 1 .. n : blank[k] = <<>>
    OBVIOUS
  <2>3. blank \in Seq(Seq(VersionRow)) /\ Len(blank) = n
    BY <1>2, <2>1
  <2> QED BY <2>2, <2>3
<1> HIDE DEF blank
<1>6. /\ items' \in Seq(ItemRow) /\ Len(items') = Len(items) + n
      /\ \A k \in ItemIds : items'[k] = items[k]
      /\ \A k \in 1 .. Len(items) + n : k > Len(items) => items'[k] = fresh[k - Len(items)]
  <2>1. items \in Seq(ItemRow) /\ fresh \in Seq(ItemRow)
    BY <1>1, <1>2
  <2>2. /\ items \o fresh \in Seq(ItemRow) /\ Len(items \o fresh) = Len(items) + Len(fresh)
        /\ \A k \in DOMAIN items : (items \o fresh)[k] = items[k]
        /\ \A k \in 1 .. Len(items \o fresh) :
             k > Len(items) => (items \o fresh)[k] = fresh[k - Len(items)]
    BY <2>1, Joined
  <2> QED BY <1>2, <1>3, <2>2 DEF ItemIds
<1>7. /\ versions' \in Seq(Seq(VersionRow)) /\ Len(versions') = Len(items) + n
      /\ \A k \in ItemIds : versions'[k] = versions[k]
      /\ \A k \in 1 .. Len(items) + n : k > Len(items) => versions'[k] = blank[k - Len(items)]
  <2>1. versions \in Seq(Seq(VersionRow)) /\ blank \in Seq(Seq(VersionRow))
    BY <1>1, <1>5
  <2>2. /\ versions \o blank \in Seq(Seq(VersionRow))
        /\ Len(versions \o blank) = Len(versions) + Len(blank)
        /\ \A k \in DOMAIN versions : (versions \o blank)[k] = versions[k]
        /\ \A k \in 1 .. Len(versions \o blank) :
             k > Len(versions) => (versions \o blank)[k] = blank[k - Len(versions)]
    BY <2>1, Joined
  <2> QED BY <1>1, <1>3, <1>5, <2>2
<1>8. /\ ItemIds' = 1 .. Len(items) + n /\ ItemIds \subseteq ItemIds'
  BY <1>1, <1>2, <1>6 DEF ItemIds
<1>9. ASSUME NEW i \in ItemIds' \ ItemIds
      PROVE  /\ versions'[i] = <<>> /\ items'[i].state = "draft" /\ items'[i].current = 0
             /\ items'[i].approved = 0 /\ items'[i].regen = 0
  <2>1. i > Len(items) /\ i - Len(items) \in 1 .. n
    BY <1>1, <1>2, <1>8, <1>9
  <2> QED BY <1>2, <1>5, <1>6, <1>7, <1>8, <2>1
<1>10. \A i \in ItemIds' \ ItemIds : ItemFits(i)'
  BY <1>9 DEF ItemFits, RowFits, Shown
<1>11. /\ jobs' \in Seq(JobRow) /\ runs' \in Seq(RunRow)
       /\ Len(runs') = Len(jobs') /\ JobIds \subseteq JobIds'
       /\ \A j \in JobIds : jobs'[j] = jobs[j] /\ runs'[j] = runs[j]
       /\ \A j \in JobIds' \ JobIds :
            /\ runs'[j] = Idle /\ jobs'[j].status = "queued" /\ jobs'[j].attempt = 0
            /\ jobs'[j].mode = "initial"
  <2>1. PICK item \in Nat : Enqueue("initial", item, targets)
    BY <1>1 DEF Generate
  <2> QED BY <1>1, <2>1, Enqueued
<1>12. \A r \in reviews' : r[1] \in ItemIds' /\ r[2] \in DOMAIN versions'[r[1]]
  BY <1>1, <1>4, <1>7, <1>8 DEF Tables
<1>13. Tables'
  BY <1>1, <1>4, <1>6, <1>7, <1>8, <1>11, <1>12 DEF Tables
<1>14. Step({})
  BY <1>4, <1>6, <1>7, <1>8, <1>11 DEF Step
<1>15. Base'
  BY <1>6, <1>10, <1>13, <1>14, BaseKept
<1> QED BY <1>6, <1>7, <1>9, <1>11, <1>14, <1>15

------------------------------------------------------------------------------
(* The job keeps the base of the invariant.                                *)

\* The run of one job moves; no item and no version does.
LEMMA JobMoves ==
    ASSUME Base, NEW j \in JobIds, NEW x \in JobRow, NEW y \in RunRow,
           jobs' = [jobs EXCEPT ![j] = x], runs' = [runs EXCEPT ![j] = y],
           x.mode = jobs[j].mode, x.item = jobs[j].item, x.targets = jobs[j].targets,
           UNCHANGED <<items, versions, reviews, overtaken>>, orphans \subseteq orphans'
    PROVE  /\ Step({j}) /\ ItemIds' = ItemIds /\ jobs'[j] = x /\ runs'[j] = y
           /\ WorkFits(j)' => Base'
<1>1. /\ jobs' \in Seq(JobRow) /\ Len(jobs') = Len(jobs) /\ jobs'[j] = x
      /\ \A k \in JobIds : k # j => jobs'[k] = jobs[k]
  BY Replaced DEF Base, Tables, JobIds
<1>2. /\ runs' \in Seq(RunRow) /\ Len(runs') = Len(runs) /\ runs'[j] = y
      /\ \A k \in JobIds : k # j => runs'[k] = runs[k]
  <2>1. runs \in Seq(RunRow) /\ JobIds = DOMAIN runs
    BY TablesAreTyped DEF Base, Tables
  <2> QED BY <2>1, Replaced
<1>3. ItemIds' = ItemIds /\ JobIds' = JobIds
  BY <1>1 DEF Base, Tables, ItemIds, JobIds
<1>4. Tables'
  BY <1>1, <1>2, <1>3 DEF Base, Tables
<1>5. Step({j})
  BY <1>1, <1>2, <1>3 DEF Step
<1>6. \A i \in ItemIds' : i \in ItemIds /\ items'[i] = items[i]
  BY <1>3
<1> QED BY <1>1, <1>2, <1>3, <1>4, <1>5, <1>6, BaseKept

Complete(j) == \A t \in jobs[j].targets : \E i \in ItemIds :
    items[i].target = t /\ \E v \in DOMAIN versions[i] : versions[i][v].by = j

(* How a run may end, and what it leaves: a job that runs no longer.       *)
Outcomes == {"lost", "transient", "failed", "done"}

\* A job that a run has left is no longer running, and done only if it is.
LEMMA LeftIsOver ==
    ASSUME NEW j, NEW outcome \in Outcomes
    PROVE  /\ Left(j, outcome) \in {"queued", "failed", "done"}
           /\ Left(j, outcome) = "done" => outcome = "done"
BY DEF Left, Outcomes

LEMMA EndBase ==
    ASSUME Base, NEW j \in JobIds, jobs[j].status = "running",
           NEW outcome \in Outcomes, End(j, outcome),
           outcome = "done" => Complete(j),
           UNCHANGED <<items, versions, reviews, overtaken>>, orphans \subseteq orphans'
    PROVE  Base' /\ Step({j})
<1> DEFINE x == [jobs[j] EXCEPT !.status = Left(j, outcome)]
<1>1. jobs[j] \in JobRow /\ Tables
  BY TablesAreTyped DEF Base
<1>2. /\ x \in JobRow /\ x.mode = jobs[j].mode /\ x.item = jobs[j].item
      /\ x.targets = jobs[j].targets
      /\ x.status \in {"queued", "failed", "done"}
      /\ x.status = "done" => outcome = "done"
  <2>1. PICK s : s = Left(j, outcome)
    OBVIOUS
  <2>2. s \in {"queued", "failed", "done"} /\ (s = "done" => outcome = "done")
    BY <2>1, LeftIsOver
  <2> QED BY <1>1, <2>1, <2>2 DEF JobRow
<1>3. jobs' = [jobs EXCEPT ![j] = x] /\ runs' = [runs EXCEPT ![j] = Idle] /\ Idle \in RunRow
  BY IdleHoldsNothing DEF End
<1> HIDE DEF x
<1>4. /\ Step({j}) /\ ItemIds' = ItemIds /\ jobs'[j] = x /\ runs'[j] = Idle
      /\ WorkFits(j)' => Base'
  BY <1>2, <1>3, JobMoves
<1>5. JobFits(j)'
  BY <1>2, <1>4, IdleHoldsNothing DEF JobFits, Base, WorkFits
<1>6. RunFits(j)' /\ Covered(j)' /\ Ahead(j)' /\ \A i \in ItemIds' : Fresh(i, j)'
  BY <1>4, IdleHoldsNothing DEF RunFits, Covered, Ahead, Fresh
<1>7. Whole(j)'
  BY <1>2, <1>4 DEF Whole, Complete
<1> QED BY <1>4, <1>5, <1>6, <1>7 DEF WorkFits

LEMMA RefuseBase ==
    ASSUME Base, NEW j \in JobIds, Refuse(j)
    PROVE  Base' /\ Step({j})
<1> DEFINE x == [jobs[j] EXCEPT !.status = "failed", !.attempt = @ + 1]
<1>1. jobs[j] \in JobRow /\ runs[j] \in RunRow /\ WorkFits(j) /\ runs \in Seq(RunRow) /\ j \in DOMAIN runs
  BY TablesAreTyped DEF Base, Tables
<1>2. /\ x \in JobRow /\ x.mode = jobs[j].mode /\ x.item = jobs[j].item
      /\ x.targets = jobs[j].targets /\ x.status = "failed"
  <2>1. jobs[j].attempt + 1 \in Nat
    BY <1>1 DEF JobRow
  <2>2. PICK n \in Nat : n = jobs[j].attempt + 1
    BY <2>1
  <2>3. x = [jobs[j] EXCEPT !.status = "failed", !.attempt = n]
    BY <2>2
  <2> QED BY <1>1, <2>2, <2>3 DEF JobRow
<1>3. /\ jobs' = [jobs EXCEPT ![j] = x] /\ runs' = [runs EXCEPT ![j] = runs[j]]
      /\ runs[j] = Idle /\ UNCHANGED <<items, versions, reviews, overtaken, orphans>>
  <2>1. jobs' = [jobs EXCEPT ![j] = x] /\ runs' = runs /\ jobs[j].status = "queued"
    BY DEF Refuse
  <2>2. runs = [runs EXCEPT ![j] = runs[j]]
    BY <1>1
  <2>3. runs[j] = Idle
    BY <1>1, <2>1 DEF WorkFits, JobFits, RunFits
  <2>4. UNCHANGED <<items, versions, reviews, overtaken, orphans>>
    BY DEF Refuse
  <2> QED BY <2>1, <2>2, <2>3, <2>4
<1> HIDE DEF x
<1>4. /\ Step({j}) /\ ItemIds' = ItemIds /\ jobs'[j] = x /\ runs'[j] = Idle
      /\ WorkFits(j)' => Base'
  BY <1>1, <1>2, <1>3, JobMoves
<1>5. WorkFits(j)'
  <2>1. JobFits(j)'
    BY <1>1, <1>2, <1>3, <1>4, IdleHoldsNothing DEF WorkFits, JobFits
  <2> QED BY <1>2, <1>4, <2>1, IdleHoldsNothing
          DEF WorkFits, RunFits, Covered, Ahead, Whole, Fresh
<1> QED BY <1>4, <1>5

LEMMA EntriesAreRows ==
    ASSUME Base, NEW j \in JobIds, Found(j)
    PROVE  /\ Entries(j) \in [jobs[j].targets -> EntryRow]
           /\ \A t \in jobs[j].targets :
                LET i == Entries(j)[t].item IN
                /\ i \in ItemIds /\ items[i].target = t /\ Entries(j)[t].copy = items[i]
                /\ jobs[j].mode = "regenerated" => i = jobs[j].item
<1>1. Tables /\ WorkFits(j)
  BY DEF Base
<1>2. ASSUME NEW t \in jobs[j].targets, NEW i,
             i = IF jobs[j].mode = "regenerated" THEN jobs[j].item ELSE Newest(t)
      PROVE  i \in ItemIds /\ items[i].target = t /\ Entry(i) \in EntryRow
             /\ Entry(i).item = i /\ Entry(i).copy = items[i] /\ Entries(j)[t] = Entry(i)
  <2>1. i \in ItemIds /\ items[i].target = t
    <3>1. CASE jobs[j].mode = "regenerated"
      BY <1>1, <1>2, <3>1 DEF WorkFits, JobFits
    <3>2. CASE jobs[j].mode # "regenerated"
      <4>1. Newest(t) \in Candidates(t)
        BY <1>1, <1>2, <3>2, NewestIsCandidate DEF Found
      <4> QED BY <1>2, <3>2, <4>1 DEF Candidates
    <3> QED BY <3>1, <3>2
  <2>2. i \in Nat /\ items[i] \in ItemRow
    BY <1>1, <2>1, TablesAreTyped
  <2>3. Entry(i) \in EntryRow /\ Entry(i).item = i /\ Entry(i).copy = items[i]
    BY <2>2 DEF Entry, EntryRow
  <2>4. Entries(j)[t] = Entry(i)
    BY <1>2 DEF Entries
  <2> QED BY <2>1, <2>3, <2>4
<1>3. Entries(j) = [t \in jobs[j].targets |-> Entries(j)[t]]
  BY DEF Entries
<1>4. \A t \in jobs[j].targets : Entries(j)[t] \in EntryRow
  BY <1>2
<1>5. Entries(j) \in [jobs[j].targets -> EntryRow]
  BY <1>3, <1>4
<1> QED BY <1>2, <1>5

LEMMA StartBase ==
    ASSUME Base, NEW j \in JobIds, Start(j)
    PROVE  Base' /\ Step({j})
<1> DEFINE x == [jobs[j] EXCEPT !.status = "running", !.attempt = @ + 1]
           y == [Idle EXCEPT !.pc = "call", !.entries = Entries(j)]
<1>1. jobs[j] \in JobRow /\ WorkFits(j) /\ jobs[j].status = "queued" /\ Tables
  BY TablesAreTyped DEF Base, Start
<1>2. /\ x \in JobRow /\ x.mode = jobs[j].mode /\ x.item = jobs[j].item
      /\ x.targets = jobs[j].targets /\ x.status = "running" /\ x.attempt = jobs[j].attempt + 1
  <2>1. jobs[j].attempt + 1 \in Nat
    BY <1>1 DEF JobRow
  <2>2. PICK n \in Nat : n = jobs[j].attempt + 1
    BY <2>1
  <2>3. x = [jobs[j] EXCEPT !.status = "running", !.attempt = n]
    BY <2>2
  <2> QED BY <1>1, <2>2, <2>3 DEF JobRow
<1>3. /\ Entries(j) \in [jobs[j].targets -> EntryRow]
      /\ \A t \in jobs[j].targets :
           LET i == Entries(j)[t].item IN
           /\ i \in ItemIds /\ items[i].target = t /\ Entries(j)[t].copy = items[i]
           /\ jobs[j].mode = "regenerated" => i = jobs[j].item
  BY EntriesAreRows DEF Start
<1>4. jobs[j].targets \in SUBSET Targets /\ jobs[j].attempt \in Nat
  BY <1>1 DEF JobRow
<1>5. /\ y \in RunRow /\ y.pc = "call" /\ y.entries = Entries(j) /\ y.todo = {} /\ y.pass = 0
  <2>1. Entries(j) \in UNION {[T -> EntryRow] : T \in SUBSET Targets}
    BY <1>3, <1>4
  <2> QED BY <2>1 DEF RunRow, Idle
<1>6. /\ jobs' = [jobs EXCEPT ![j] = x] /\ runs' = [runs EXCEPT ![j] = y]
      /\ UNCHANGED <<items, versions, reviews, overtaken, orphans>>
  BY DEF Start
<1> HIDE DEF x, y
<1>7. /\ Step({j}) /\ ItemIds' = ItemIds /\ jobs'[j] = x /\ runs'[j] = y
      /\ WorkFits(j)' => Base'
  BY <1>2, <1>5, <1>6, JobMoves
<1>8. JobFits(j)'
  BY <1>1, <1>2, <1>4, <1>5, <1>6, <1>7, GenerationAssumption DEF WorkFits, JobFits
<1>9. RunFits(j)'
  <2>1. \A t \in DOMAIN y.entries : y.entries[t].copy.current \in 0 .. Len(versions[y.entries[t].item])
    BY <1>3, <1>5 DEF Base, ItemFits, RowFits
  <2>2. \A t \in DOMAIN y.entries :
          LET e == y.entries[t] IN
          /\ e.item \in ItemIds /\ items[e.item].target = t
          /\ jobs[j].mode = "regenerated" => e.item = jobs[j].item
    BY <1>3, <1>5
  <2>3. DOMAIN y.entries = jobs[j].targets
    BY <1>3, <1>5
  <2> QED BY <1>2, <1>5, <1>6, <1>7, <2>1, <2>2, <2>3 DEF RunFits
<1>10. Covered(j)' /\ Ahead(j)' /\ Whole(j)'
  BY <1>2, <1>5, <1>7 DEF Covered, Ahead, Whole
<1>11. \A i \in ItemIds' : Fresh(i, j)'
  BY <1>3, <1>5, <1>6, <1>7 DEF Fresh
<1> QED BY <1>7, <1>8, <1>9, <1>10, <1>11 DEF WorkFits

\* The answer of the model: all of the pass is to be written, or the run is over.
LEMMA AnsweredBase ==
    ASSUME Base, NEW j \in JobIds, NEW targets \in SUBSET jobs[j].targets, NEW answer,
           \/ runs[j].pc = "call" /\ targets = jobs[j].targets
           \/ runs[j].pc = "retry",
           Answered(j, targets, answer),
           UNCHANGED <<items, versions, reviews, orphans, overtaken>>
    PROVE  Base' /\ Step({j})
<1>1. /\ jobs[j] \in JobRow /\ runs[j] \in RunRow /\ WorkFits(j) /\ jobs \in Seq(JobRow)
      /\ jobs[j].status = "running" /\ DOMAIN runs[j].entries = jobs[j].targets
  BY TablesAreTyped DEF Base, Tables, WorkFits, JobFits, RunFits
<1>2. CASE \E t \in targets : answer[t] = "missing"
  <2>1. End(j, "failed")
    BY <1>2 DEF Answered
  <2> QED BY <1>1, <2>1, EndBase DEF Outcomes
<1>3. CASE ~ \E t \in targets : answer[t] = "missing"
  <2> DEFINE bad == {t \in targets : answer[t] = "bad"}
             y == [runs[j] EXCEPT !.pc = "write", !.pass = @ + 1, !.todo = targets, !.bad = bad]
  <2>1. targets \in SUBSET Targets /\ bad \in SUBSET Targets
    BY <1>1 DEF JobRow
  <2>2. PICK n \in Nat : n = runs[j].pass + 1
    BY <1>1 DEF RunRow
  <2>3. y = [runs[j] EXCEPT !.pc = "write", !.pass = n, !.todo = targets, !.bad = bad]
    BY <2>2
  <2>4. /\ y \in RunRow /\ y.pc = "write" /\ y.entries = runs[j].entries /\ y.pass = n
        /\ y.todo = targets
    <3> HIDE DEF bad
    <3> QED BY <1>1, <2>1, <2>2, <2>3 DEF RunRow
  <2>5. runs' = [runs EXCEPT ![j] = y] /\ jobs' = [jobs EXCEPT ![j] = jobs[j]]
    <3>1. runs' = [runs EXCEPT ![j].pc = "write", ![j].pass = @ + 1, ![j].todo = targets,
                               ![j].bad = bad]
      BY <1>3 DEF Answered
    <3>2. runs' = [runs EXCEPT ![j] = y]
      <4> HIDE DEF bad
      <4>1. runs \in Seq(RunRow) /\ j \in DOMAIN runs
        BY TablesAreTyped DEF Base, Tables
      <4> QED BY <1>1, <3>1, <4>1
    <3>3. jobs' = [jobs EXCEPT ![j] = jobs[j]]
      BY <1>1, <1>3 DEF Answered
    <3> QED BY <3>2, <3>3
  <2> HIDE DEF y
  <2>6. /\ Step({j}) /\ ItemIds' = ItemIds /\ jobs'[j] = jobs[j] /\ runs'[j] = y
        /\ WorkFits(j)' => Base'
    BY <1>1, <2>4, <2>5, JobMoves
  <2>7. JobFits(j)'
    BY <1>1, <2>4, <2>6 DEF WorkFits, JobFits
  <2>8. RunFits(j)'
    BY <1>1, <2>4, <2>6 DEF WorkFits, RunFits
  <2>9. \A t \in jobs[j].targets : Has(j, t)' <=> Has(j, t)
    BY <2>4, <2>6 DEF Has, WrittenByJob
  <2>10. Covered(j)'
    <3>1. CASE runs[j].pc = "call" /\ targets = jobs[j].targets
      <4>1. n = 1
        BY <1>1, <2>2, <3>1 DEF WorkFits, Covered
      <4> QED BY <2>4, <2>6, <3>1, <4>1 DEF Covered
    <3>2. CASE runs[j].pc = "retry"
      <4>1. \A t \in jobs[j].targets : Has(j, t)
        BY <1>1, <3>2 DEF WorkFits, Covered
      <4>2. n # 0
        BY <1>1, <2>2 DEF RunRow
      <4> QED BY <2>4, <2>6, <2>9, <4>1, <4>2 DEF Covered
    <3> QED BY <3>1, <3>2
  <2>11. Ahead(j)' /\ Whole(j)'
    BY <1>1, <2>4, <2>6 DEF Ahead, Whole
  <2>12. \A i \in ItemIds' : Fresh(i, j)'
    BY <1>1, <2>4, <2>6 DEF WorkFits, Fresh
  <2> QED BY <2>6, <2>7, <2>8, <2>10, <2>11, <2>12 DEF WorkFits
<1> QED BY <1>2, <1>3

\* The call and the second call, with their answers.
LEMMA CallBase ==
    ASSUME Base, NEW j \in JobIds, Call(j) \/ Retry(j)
    PROVE  Base' /\ Step({j})
<1>1. CASE Call(j)
  <2>1. PICK answer : Answered(j, jobs[j].targets, answer)
    BY <1>1 DEF Call
  <2> QED BY <1>1, <2>1, AnsweredBase DEF Call
<1>2. CASE Retry(j)
  <2>1. PICK answer : Answered(j, Failing(j), answer)
    BY <1>2 DEF Retry
  <2>2. Failing(j) \in SUBSET jobs[j].targets
    BY <1>2 DEF Failing, Base, WorkFits, RunFits, Retry
  <2> QED BY <1>2, <2>1, <2>2, AnsweredBase DEF Retry
<1> QED BY <1>1, <1>2

\* The call fails, or the worker dies.
LEMMA BreakBase ==
    ASSUME Base, NEW j \in JobIds, CallFails(j) \/ Crash(j)
    PROVE  Base' /\ Step({j})
<1>1. jobs[j].status = "running"
  BY DEF CallFails, Crash, Base, WorkFits, JobFits
<1>2. PICK outcome \in {"lost", "transient", "failed"} : End(j, outcome)
  BY DEF CallFails, Crash
<1>3. UNCHANGED <<items, versions, reviews, overtaken>> /\ orphans \subseteq orphans'
  BY DEF CallFails, Crash
<1> QED BY <1>1, <1>2, <1>3, EndBase DEF Outcomes

LEMMA KeepBase ==
    ASSUME Base, NEW j \in JobIds, Keep(j)
    PROVE  Base' /\ Step({j})
<1>1. /\ jobs[j] \in JobRow /\ runs[j] \in RunRow /\ WorkFits(j) /\ jobs \in Seq(JobRow)
      /\ runs[j].pc = "write" /\ DOMAIN runs[j].entries = jobs[j].targets /\ Tables
      /\ runs[j].todo # {}
  BY TablesAreTyped DEF Base, Tables, WorkFits, RunFits, Keep
<1>2. PICK t : t = NextTarget(j)
  OBVIOUS
<1>3. t \in runs[j].todo /\ t \in jobs[j].targets /\ t \in Targets
  BY <1>1, <1>2, NextTargetIsDue DEF WorkFits, RunFits
<1>4. PICK e : e = runs[j].entries[t]
  OBVIOUS
<1>5. /\ e \in EntryRow /\ e.item \in ItemIds /\ e.copy.current \in 0 .. Len(versions[e.item])
      /\ runs[j].entries \in [jobs[j].targets -> EntryRow]
  <2>1. runs[j].entries \in [jobs[j].targets -> EntryRow]
    BY <1>1, SMTT(30) DEF RunRow
  <2> QED BY <1>1, <1>3, <1>4, <2>1 DEF WorkFits, RunFits
<1>6. WrittenByJob(j, e) /\ UNCHANGED <<items, versions, jobs, reviews, orphans, overtaken>>
  BY <1>2, <1>4 DEF Keep
<1>7. PICK bad \in BOOLEAN : bad = versions[e.item][e.copy.current].bad
  <2>1. versions[e.item] \in Seq(VersionRow) /\ e.copy.current # 0
    BY <1>1, <1>5, <1>6, TablesAreTyped DEF WrittenByJob
  <2>2. e.copy.current \in DOMAIN versions[e.item]
    BY <1>5, <2>1
  <2>3. versions[e.item][e.copy.current] \in VersionRow
    BY <2>1, <2>2
  <2> QED BY <2>3 DEF VersionRow
<1> DEFINE kept == [e EXCEPT !.bad = bad]
           y == [runs[j] EXCEPT !.todo = @ \ {t}, !.entries = [@ EXCEPT ![t] = kept]]
<1>8. kept \in EntryRow /\ kept.item = e.item /\ kept.copy = e.copy
  BY <1>5, <1>7, SMTT(30) DEF EntryRow
<1>9. runs' = [runs EXCEPT ![j] = y]
  BY <1>2, <1>4, <1>7, ZenonT(30) DEF Keep
<1> HIDE DEF kept
<1>10. /\ y \in RunRow /\ y.pc = "write" /\ y.pass = runs[j].pass /\ y.todo = runs[j].todo \ {t}
       /\ y.entries \in [jobs[j].targets -> EntryRow] /\ y.entries[t] = kept
       /\ \A u \in jobs[j].targets : u # t => y.entries[u] = runs[j].entries[u]
  <2>1. [runs[j].entries EXCEPT ![t] = kept] \in [jobs[j].targets -> EntryRow]
    BY <1>5, <1>8
  <2>2. [runs[j].entries EXCEPT ![t] = kept] \in UNION {[T -> EntryRow] : T \in SUBSET Targets}
    BY <1>1, <2>1 DEF JobRow
  <2>3. y \in RunRow /\ y.pc = "write" /\ y.pass = runs[j].pass /\ y.todo = runs[j].todo \ {t}
        /\ y.entries = [runs[j].entries EXCEPT ![t] = kept]
    BY <1>1, <2>2 DEF RunRow
  <2> QED BY <1>3, <1>5, <2>1, <2>3
<1> HIDE DEF y
<1>11. \A u \in jobs[j].targets : /\ y.entries[u].item = runs[j].entries[u].item
                                  /\ y.entries[u].copy = runs[j].entries[u].copy
  BY <1>4, <1>8, <1>10
<1>12. jobs' = [jobs EXCEPT ![j] = jobs[j]]
  BY <1>1, <1>6
<1>13. /\ Step({j}) /\ ItemIds' = ItemIds /\ jobs'[j] = jobs[j] /\ runs'[j] = y
       /\ WorkFits(j)' => Base'
  BY <1>1, <1>6, <1>9, <1>10, <1>12, JobMoves
<1>14. JobFits(j)'
  BY <1>1, <1>6, <1>10, <1>13 DEF WorkFits, JobFits
<1>15. RunFits(j)'
  <2>1. DOMAIN y.entries = jobs[j].targets
    BY <1>10
  <2>2. y.todo \subseteq jobs[j].targets
    BY <1>1, <1>10 DEF WorkFits, RunFits
  <2> QED BY <1>1, <1>6, <1>10, <1>11, <1>13, <2>1, <2>2 DEF WorkFits, RunFits
<1>16. \A u \in jobs[j].targets : Has(j, u)' <=> Has(j, u)
  BY <1>6, <1>11, <1>13 DEF Has, WrittenByJob
<1>17. Has(j, t)
  BY <1>4, <1>6 DEF Has
<1>18. Covered(j)'
  BY <1>1, <1>3, <1>10, <1>13, <1>16, <1>17 DEF WorkFits, Covered
<1>19. Ahead(j)' /\ Whole(j)'
  BY <1>1, <1>10, <1>13 DEF Ahead, Whole, WorkFits, JobFits
<1>20. \A i \in ItemIds' : Fresh(i, j)'
  <2>1. DOMAIN y.entries = jobs[j].targets
    BY <1>10
  <2> QED BY <1>1, <1>6, <1>11, <1>13, <2>1 DEF WorkFits, Fresh
<1>21. WorkFits(j)'
  BY <1>14, <1>15, <1>18, <1>19, <1>20 DEF WorkFits
<1> QED BY <1>13, <1>21, Zenon

LEMMA SettleBase ==
    ASSUME Base, NEW j \in JobIds, Settle(j)
    PROVE  Base' /\ Step({j})
<1>1. /\ jobs[j] \in JobRow /\ runs[j] \in RunRow /\ WorkFits(j) /\ jobs \in Seq(JobRow)
      /\ runs[j].pc = "write" /\ runs[j].todo = {} /\ jobs[j].status = "running"
      /\ DOMAIN runs[j].entries = jobs[j].targets
  BY TablesAreTyped DEF Base, Tables, WorkFits, JobFits, RunFits, Settle
<1>2. \A t \in jobs[j].targets : Has(j, t)
  BY <1>1 DEF WorkFits, Covered
<1>3. UNCHANGED <<items, versions, reviews, orphans, overtaken>>
  BY DEF Settle
<1>4. CASE MorePasses(j)
  <2> DEFINE y == [runs[j] EXCEPT !.pc = "retry"]
  <2>1. /\ y \in RunRow /\ y.pc = "retry" /\ y.todo = {} /\ y.pass = runs[j].pass
        /\ y.entries = runs[j].entries
    BY <1>1 DEF RunRow
  <2>2. runs' = [runs EXCEPT ![j] = y] /\ jobs' = [jobs EXCEPT ![j] = jobs[j]]
    BY <1>1, <1>4 DEF Settle
  <2> HIDE DEF y
  <2>3. /\ Step({j}) /\ ItemIds' = ItemIds /\ jobs'[j] = jobs[j] /\ runs'[j] = y
        /\ WorkFits(j)' => Base'
    BY <1>1, <1>3, <2>1, <2>2, JobMoves
  <2>4. \A t \in jobs[j].targets : Has(j, t)'
    BY <1>2, <1>3, <2>1, <2>3 DEF Has, WrittenByJob
  <2>5. JobFits(j)' /\ RunFits(j)'
    BY <1>1, <1>3, <2>1, <2>3 DEF WorkFits, JobFits, RunFits
  <2>6. Covered(j)' /\ Ahead(j)' /\ Whole(j)'
    BY <1>1, <2>1, <2>3, <2>4 DEF WorkFits, Covered, Ahead, Whole
  <2>7. \A i \in ItemIds' : Fresh(i, j)'
    BY <1>1, <1>3, <2>1, <2>3 DEF WorkFits, Fresh
  <2> QED BY <2>3, <2>5, <2>6, <2>7 DEF WorkFits
<1>5. CASE ~MorePasses(j)
  <2>1. End(j, "done")
    BY <1>5 DEF Settle
  <2>2. Complete(j)
    <3> SUFFICES ASSUME NEW t \in jobs[j].targets
                 PROVE  \E i \in ItemIds :
                          items[i].target = t /\ \E v \in DOMAIN versions[i] : versions[i][v].by = j
      BY DEF Complete
    <3>1. PICK e : e = runs[j].entries[t]
      OBVIOUS
    <3>2. /\ e.item \in ItemIds /\ items[e.item].target = t
          /\ e.copy.current \in 0 .. Len(versions[e.item])
      BY <1>1, <3>1 DEF WorkFits, RunFits
    <3>3. e.copy.current # 0 /\ versions[e.item][e.copy.current].by = j
      BY <1>2, <3>1 DEF Has, WrittenByJob
    <3>4. versions[e.item] \in Seq(VersionRow)
      BY <3>2, TablesAreTyped DEF Base
    <3> QED BY <3>2, <3>3, <3>4
  <2> QED BY <1>1, <1>3, <2>1, <2>2, EndBase DEF Outcomes
<1> QED BY <1>4, <1>5

\* The entry of the target whose turn it is.
LEMMA TurnIsHeld ==
    ASSUME Base, NEW j \in JobIds, runs[j].todo # {},
           runs[j].pc \in {"write", "advance"},
           NEW t, t = NextTarget(j), NEW e, e = runs[j].entries[t]
    PROVE  /\ jobs[j] \in JobRow /\ runs[j] \in RunRow /\ WorkFits(j)
           /\ DOMAIN runs[j].entries = jobs[j].targets /\ jobs[j].status = "running"
           /\ runs[j].entries \in [jobs[j].targets -> EntryRow]
           /\ t \in runs[j].todo /\ t \in jobs[j].targets
           /\ e \in EntryRow /\ e.item \in ItemIds /\ items[e.item].target = t
           /\ e.copy.current \in 0 .. Len(versions[e.item])
           /\ j \in Holders(e.item)
<1>1. /\ jobs[j] \in JobRow /\ runs[j] \in RunRow /\ WorkFits(j) /\ Tables
      /\ jobs[j].status = "running" /\ DOMAIN runs[j].entries = jobs[j].targets
  BY TablesAreTyped DEF Base, WorkFits, JobFits, RunFits
<1>2. t \in runs[j].todo /\ t \in jobs[j].targets
  BY <1>1, NextTargetIsDue DEF WorkFits, RunFits
<1>3. runs[j].entries \in [jobs[j].targets -> EntryRow]
  BY <1>1 DEF RunRow
<1>4. e \in EntryRow
  BY <1>2, <1>3
<1>5. /\ e.item \in ItemIds /\ items[e.item].target = t
      /\ e.copy.current \in 0 .. Len(versions[e.item])
  BY <1>1, <1>2 DEF WorkFits, RunFits
<1>6. j \in Holders(e.item)
  BY <1>1, <1>2 DEF Holders
<1> QED BY <1>1, <1>2, <1>3, <1>4, <1>5, <1>6

LEMMA WriteVersionBase ==
    ASSUME Base, NEW j \in JobIds, WriteVersion(j)
    PROVE  Base' /\ Step({j})
<1>1. PICK t : t = NextTarget(j)
  OBVIOUS
<1>2. PICK e : e = runs[j].entries[t]
  OBVIOUS
<1>3. runs[j].pc = "write" /\ runs[j].todo # {}
  BY DEF WriteVersion
<1>4. /\ jobs[j] \in JobRow /\ runs[j] \in RunRow /\ WorkFits(j)
      /\ DOMAIN runs[j].entries = jobs[j].targets /\ jobs[j].status = "running"
      /\ t \in runs[j].todo /\ t \in jobs[j].targets
      /\ e \in EntryRow /\ e.item \in ItemIds
      /\ e.copy.current \in 0 .. Len(versions[e.item])
  BY <1>1, <1>2, <1>3, TurnIsHeld
<1>5. PICK bad \in BOOLEAN : versions' = AddVersion(versions, e.item, j, bad)
  <2>1. versions' = AddVersion(versions, e.item, j, t \in runs[j].bad)
    BY <1>1, <1>2 DEF WriteVersion
  <2> WITNESS (t \in runs[j].bad) \in BOOLEAN
  <2> QED BY <2>1
<1>6. /\ ~WrittenByJob(j, e) /\ UNCHANGED <<items, jobs, reviews, orphans, overtaken>>
      /\ runs' = [runs EXCEPT ![j].pc = "advance"]
  BY <1>1, <1>2 DEF WriteVersion
<1>7. Tables /\ j \in Nat /\ runs \in Seq(RunRow) /\ j \in DOMAIN runs
  BY TablesAreTyped DEF Base, Tables
<1>8. /\ \A k \in ItemIds : \A v \in DOMAIN versions[k] :
           v \in DOMAIN versions'[k] /\ versions'[k][v] = versions[k][v]
      /\ Len(versions[e.item]) \in Nat /\ Len(versions'[e.item]) = Len(versions[e.item]) + 1
  BY <1>4, <1>5, <1>7, AddedKeeps
<1>9. /\ versions' \in Seq(Seq(VersionRow)) /\ Len(versions') = Len(versions)
      /\ versions'[e.item][Len(versions[e.item]) + 1].by = j
  BY <1>4, <1>5, <1>7, AddedVersion
<1> DEFINE y == [runs[j] EXCEPT !.pc = "advance"]
<1>10. /\ y \in RunRow /\ y.pc = "advance" /\ y.entries = runs[j].entries
       /\ y.todo = runs[j].todo /\ y.pass = runs[j].pass
  BY <1>4 DEF RunRow
<1>11. runs' = [runs EXCEPT ![j] = y]
  BY <1>6, <1>7
<1> HIDE DEF y
<1>12. /\ runs' \in Seq(RunRow) /\ Len(runs') = Len(runs) /\ runs'[j] = y
       /\ \A k \in DOMAIN runs : k # j => runs'[k] = runs[k]
  BY <1>7, <1>10, <1>11, Replaced
<1>13. ItemIds' = ItemIds /\ JobIds' = JobIds /\ JobIds = DOMAIN runs
  BY <1>6, <1>7, TablesAreTyped DEF ItemIds, JobIds
<1>14. Tables'
  BY <1>6, <1>7, <1>8, <1>9, <1>12, <1>13 DEF Tables
<1>15. Step({j})
  BY <1>6, <1>8, <1>12, <1>13 DEF Step
<1>16. ASSUME NEW u \in jobs[j].targets, NEW f, f = runs[j].entries[u]
       PROVE  /\ f.copy.current \in 0 .. Len(versions'[f.item])
              /\ WrittenByJob(j, f)' <=> WrittenByJob(j, f)
  <2>1. f.item \in ItemIds /\ f.copy.current \in 0 .. Len(versions[f.item])
    BY <1>4, <1>16 DEF WorkFits, RunFits
  <2> QED BY <1>14, <1>15, <2>1, TextsStay
<1>17. \A u \in jobs[j].targets : Has(j, u)' <=> Has(j, u)
  BY <1>10, <1>12, <1>16, ZenonT(30) DEF Has, WrittenByJob
<1>18. JobFits(j)'
  BY <1>4, <1>6, <1>10, <1>12, <1>13 DEF WorkFits, JobFits
<1>19. RunFits(j)'
  <2>1. ASSUME NEW u \in jobs[j].targets, NEW f, f = runs[j].entries[u]
        PROVE  /\ f.item \in ItemIds /\ items[f.item].target = u
               /\ jobs[j].mode = "regenerated" => f.item = jobs[j].item
    BY <1>4, <2>1 DEF WorkFits, RunFits
  <2>2. runs[j].todo \subseteq jobs[j].targets
    BY <1>4 DEF WorkFits, RunFits
  <2>3. runs'[j] = y /\ jobs'[j] = jobs[j] /\ DOMAIN y.entries = jobs[j].targets
    BY <1>4, <1>6, <1>10, <1>12
  <2>4. ASSUME NEW u \in jobs[j].targets, NEW f, f = y.entries[u]
        PROVE  /\ f.item \in ItemIds' /\ items'[f.item].target = u
               /\ jobs[j].mode = "regenerated" => f.item = jobs[j].item
               /\ f.copy.current \in 0 .. Len(versions'[f.item])
    BY <1>6, <1>10, <1>13, <1>16, <2>1, <2>4
  <2> QED BY <1>3, <1>10, <2>2, <2>3, <2>4 DEF RunFits
<1>20. Covered(j)'
  BY <1>3, <1>4, <1>6, <1>10, <1>12, <1>17 DEF WorkFits, Covered
<1>21. Ahead(j)'
  <2>1. NextTarget(j)' = t
    BY <1>1, <1>10, <1>12 DEF NextTarget
  <2>2. ~Has(j, t)'
    BY <1>2, <1>4, <1>6, <1>17 DEF Has
  <2>3. Len(versions[e.item]) + 1 \in DOMAIN versions'[e.item]
    BY <1>4, <1>8, <1>9, <1>13, <1>14, NextTablesAreTyped
  <2>4. items[e.item].current < Len(versions[e.item]) + 1
    BY <1>4, <1>8 DEF Base, ItemFits, RowFits
  <2> QED BY <1>2, <1>6, <1>9, <1>10, <1>12, <2>1, <2>2, <2>3, <2>4 DEF Ahead
<1>22. Whole(j)'
  BY <1>4, <1>6 DEF Whole
<1>23. \A i \in ItemIds' : Fresh(i, j)'
  <2> SUFFICES ASSUME NEW i \in ItemIds, i \notin overtaken,
                      NEW u \in DOMAIN runs[j].entries, runs[j].entries[u].item = i
               PROVE  runs[j].entries[u].copy = items[i]
    BY <1>6, <1>10, <1>12, <1>13 DEF Fresh
  <2> QED BY <1>4 DEF WorkFits, Fresh
<1>24. WorkFits(j)'
  BY <1>18, <1>19, <1>20, <1>21, <1>22, <1>23 DEF WorkFits
<1> QED BY <1>6, <1>13, <1>14, <1>15, <1>24, BaseKept

\* What a run is about to write over, and the text it has written for it.
LEMMA TextIsWaiting ==
    ASSUME Base, NEW j \in JobIds, runs[j].pc = "advance",
           NEW t, t = NextTarget(j), NEW e, e = runs[j].entries[t],
           NEW v, v = Written(j, e.item)
    PROVE  /\ runs[j].todo # {} /\ ~Has(j, t)
           /\ v \in DOMAIN versions[e.item] /\ versions[e.item][v].by = j
           /\ \A u \in DOMAIN versions[e.item] : versions[e.item][u].by = j => u <= v
           /\ v \in Nat \ {0} /\ v <= Len(versions[e.item])
           /\ e.item \notin overtaken => items[e.item].current < v /\ e.copy = items[e.item]
<1>1. WorkFits(j) /\ Tables /\ runs[j].todo # {}
  BY DEF Base, WorkFits, RunFits
<1>2. /\ t \in jobs[j].targets /\ DOMAIN runs[j].entries = jobs[j].targets /\ e.item \in ItemIds
  BY <1>1, TurnIsHeld
<1>3. ~Has(j, t)
  BY <1>1 DEF WorkFits, Ahead
<1>4. PICK w \in DOMAIN versions[e.item] :
             /\ versions[e.item][w].by = j
             /\ e.item \notin overtaken => items[e.item].current < w
  BY <1>1 DEF WorkFits, Ahead
<1>5. /\ v \in DOMAIN versions[e.item] /\ versions[e.item][v].by = j
      /\ \A u \in DOMAIN versions[e.item] : versions[e.item][u].by = j => u <= v
  BY <1>1, <1>2, <1>4, WrittenIsLast
<1>6. versions[e.item] \in Seq(VersionRow) /\ items[e.item] \in ItemRow
  BY <1>1, <1>2, TablesAreTyped
<1>7. v \in Nat \ {0} /\ v <= Len(versions[e.item])
  BY <1>5, <1>6, SMTT(30)
<1>8. e.item \notin overtaken => e.copy = items[e.item]
  BY <1>1, <1>2 DEF WorkFits, Fresh
<1>9. e.item \notin overtaken => items[e.item].current < v
  <2>1. w <= v
    BY <1>4, <1>5
  <2>2. w \in Nat
    <3>1. \A k \in DOMAIN versions[e.item] : k \in Nat \ {0}
      BY <1>6, Numbered, Zenon
    <3> QED BY <1>4, <3>1, Zenon
  <2>3. items[e.item].current \in Nat
    BY <1>6 DEF ItemRow
  <2> QED BY <1>4, <1>7, <2>1, <2>2, <2>3
<1> QED BY <1>1, <1>3, <1>5, <1>7, <1>8, <1>9

\* The row a run writes.
LEMMA RowIsWritten ==
    ASSUME Base, NEW j \in JobIds, runs[j].pc = "advance",
           NEW t, t = NextTarget(j), NEW e, e = runs[j].entries[t],
           NEW v, v = Written(j, e.item),
           NEW row, row = RecordDraft(items[e.item], e.copy, Generation(j), v)
    PROVE  /\ row \in ItemRow /\ row.target = t /\ row.current = v
           /\ row.approved \in {0, items[e.item].approved}
           /\ row.regen = IF Generation(j) = "regenerated" THEN e.copy.regen + 1
                          ELSE items[e.item].regen
           /\ e.item \notin overtaken =>
                row.approved = 0 /\ row.state \in {"generated", "in_review"}
<1>1. /\ runs[j].todo # {} /\ v \in Nat
      /\ e.item \notin overtaken => e.copy = items[e.item]
  BY TextIsWaiting
<1>2. e \in EntryRow /\ e.item \in ItemIds /\ items[e.item].target = t
  BY <1>1, TurnIsHeld
<1>3. items[e.item] \in ItemRow /\ e.copy \in ItemRow
  BY <1>2, TablesAreTyped DEF Base, EntryRow
<1>4. PICK old : old = items[e.item]
  OBVIOUS
<1>5. PICK copy : copy = e.copy
  OBVIOUS
<1>6. PICK g : g = Generation(j)
  OBVIOUS
<1>7. /\ row \in ItemRow /\ row.target = old.target /\ row.current = v
      /\ row.approved \in {0, old.approved}
      /\ row.regen = IF g = "regenerated" THEN copy.regen + 1 ELSE old.regen
      /\ copy = old => row.approved = 0 /\ row.state \in {"generated", "in_review"}
  <2>1. old \in ItemRow /\ copy \in ItemRow /\ v \in Nat
    BY <1>1, <1>3, <1>4, <1>5
  <2>2. row = RecordDraft(old, copy, g, v)
    BY <1>4, <1>5, <1>6
  <2> QED BY <2>1, <2>2, DraftIsNew
<1>8. row.regen = IF Generation(j) = "regenerated" THEN e.copy.regen + 1 ELSE items[e.item].regen
  BY <1>4, <1>5, <1>6, <1>7, Zenon
<1>9. e.item \notin overtaken => copy = old
  BY <1>1, <1>4, <1>5
<1> QED BY <1>2, <1>4, <1>7, <1>8, <1>9

LEMMA AdvanceBase ==
    ASSUME Base, NEW j \in JobIds, Advance(j)
    PROVE  Base' /\ Step({j})
<1>1. PICK t : t = NextTarget(j)
  OBVIOUS
<1>2. PICK e : e = runs[j].entries[t]
  OBVIOUS
<1>3. PICK v : v = Written(j, e.item)
  OBVIOUS
<1>4. PICK row : row = RecordDraft(items[e.item], e.copy, Generation(j), v)
  OBVIOUS
<1>5. PICK i : i = e.item
  OBVIOUS
<1>6. /\ runs[j].pc = "advance" /\ UNCHANGED <<versions, reviews>>
  BY DEF Advance
<1>7. /\ runs[j].todo # {} /\ ~Has(j, t)
      /\ v \in DOMAIN versions[i] /\ versions[i][v].by = j
      /\ v \in Nat \ {0} /\ v <= Len(versions[i])
      /\ i \notin overtaken => e.copy = items[i]
  BY <1>1, <1>2, <1>3, <1>5, <1>6, TextIsWaiting
<1>8. /\ jobs[j] \in JobRow /\ runs[j] \in RunRow /\ WorkFits(j)
      /\ DOMAIN runs[j].entries = jobs[j].targets /\ jobs[j].status = "running"
      /\ runs[j].entries \in [jobs[j].targets -> EntryRow]
      /\ t \in runs[j].todo /\ t \in jobs[j].targets
      /\ e \in EntryRow /\ i \in ItemIds /\ items[i].target = t
  BY <1>1, <1>2, <1>5, <1>6, <1>7, TurnIsHeld
<1>9. CASE ~MayAdvance(e.copy.state, DraftState(e.copy, Generation(j)))
  <2>1. /\ End(j, "failed") /\ orphans' = orphans \cup {<<i, v>>}
        /\ UNCHANGED <<items, overtaken>>
    BY <1>1, <1>2, <1>3, <1>5, <1>9 DEF Advance
  <2> QED BY <1>6, <1>8, <2>1, EndBase DEF Outcomes
<1>10. CASE MayAdvance(e.copy.state, DraftState(e.copy, Generation(j)))
  <2>1. PICK bad : bad = versions[i][v].bad
    OBVIOUS
  <2> DEFINE written == [e EXCEPT !.copy = row, !.bad = bad]
             y == [runs[j] EXCEPT !.pc = "write", !.todo = @ \ {t},
                                  !.entries = [@ EXCEPT ![t] = written]]
  <2>2. /\ items' = [items EXCEPT ![i] = row] /\ Overtakes(i, Holders(i) \ {j})
        /\ UNCHANGED <<jobs, orphans>>
    BY <1>1, <1>2, <1>3, <1>4, <1>5, <1>10, ZenonT(30) DEF Advance
  <2>3. /\ row \in ItemRow /\ row.target = t /\ row.current = v
        /\ row.approved \in {0, items[i].approved}
        /\ i \notin overtaken => row.approved = 0 /\ row.state \in {"generated", "in_review"}
    BY <1>1, <1>2, <1>3, <1>4, <1>5, <1>6, RowIsWritten, SMTT(30)
  <2>4. /\ Tables /\ runs \in Seq(RunRow) /\ j \in DOMAIN runs /\ JobIds = DOMAIN runs
        /\ versions[i] \in Seq(VersionRow) /\ ItemFits(i)
    BY <1>8, TablesAreTyped DEF Base, Tables
  <2>5. bad \in BOOLEAN
    <3>1. versions[i][v] \in VersionRow
      BY <1>7, <2>4
    <3> QED BY <2>1, <3>1 DEF VersionRow
  <2>6. written \in EntryRow /\ written.item = i /\ written.copy = row
    BY <1>5, <1>8, <2>3, <2>5 DEF EntryRow
  <2>7. runs' = [runs EXCEPT ![j] = y]
    <3>1. runs' = [runs EXCEPT ![j].pc = "write", ![j].todo = @ \ {t},
                               ![j].entries[t] = [@ EXCEPT !.copy = row, !.bad = bad]]
      BY <1>1, <1>2, <1>3, <1>4, <1>5, <1>10, <2>1 DEF Advance
    <3>2. runs[j].entries[t] = e
      BY <1>2
    <3> QED BY <1>8, <2>4, <3>1, <3>2, ZenonT(30)
  <2> HIDE DEF written
  <2>8. /\ y \in RunRow /\ y.pc = "write" /\ y.pass = runs[j].pass /\ y.todo = runs[j].todo \ {t}
        /\ y.entries \in [jobs[j].targets -> EntryRow] /\ y.entries[t] = written
        /\ \A u \in jobs[j].targets : u # t => y.entries[u] = runs[j].entries[u]
    <3>1. [runs[j].entries EXCEPT ![t] = written] \in [jobs[j].targets -> EntryRow]
      BY <1>8, <2>6
    <3>2. [runs[j].entries EXCEPT ![t] = written] \in UNION {[T -> EntryRow] : T \in SUBSET Targets}
      BY <1>8, <3>1 DEF JobRow
    <3>3. y \in RunRow /\ y.pc = "write" /\ y.pass = runs[j].pass /\ y.todo = runs[j].todo \ {t}
          /\ y.entries = [runs[j].entries EXCEPT ![t] = written]
      BY <1>8, <3>2 DEF RunRow
    <3> QED BY <1>8, <3>1, <3>3
  <2> HIDE DEF y
  <2>9. /\ items' \in Seq(ItemRow) /\ Len(items') = Len(items) /\ items'[i] = row
        /\ \A k \in ItemIds : k # i => items'[k] = items[k]
    BY <1>8, <2>2, <2>3, <2>4, Replaced DEF Tables, ItemIds
  <2>10. /\ runs' \in Seq(RunRow) /\ Len(runs') = Len(runs) /\ runs'[j] = y
         /\ \A k \in JobIds : k # j => runs'[k] = runs[k]
    BY <2>4, <2>7, <2>8, Replaced
  <2>11. ItemIds' = ItemIds /\ JobIds' = JobIds
    BY <2>2, <2>4, <2>9 DEF Tables, ItemIds, JobIds
  <2>12. /\ overtaken \subseteq overtaken' /\ overtaken' \subseteq ItemIds
         /\ Holders(i) \ {j} # {} => i \in overtaken'
    BY <1>8, <2>2, <2>4, OvertakesMarks
  <2>13. Tables'
    BY <1>6, <2>2, <2>4, <2>9, <2>10, <2>11, <2>12 DEF Tables
  <2>14. Step({j})
    <3>1. i \in overtaken' \/ Holders(i) \subseteq {j}
      BY <2>12
    <3> QED BY <1>6, <1>8, <2>2, <2>3, <2>9, <2>10, <2>11, <2>12, <3>1 DEF Step
  <2>15. ItemFits(i)'
    <3>1. RowFits(i)'
      BY <1>6, <1>7, <2>3, <2>4, <2>9, SMTT(30) DEF ItemFits, RowFits
    <3>2. Shown(i)'
      BY <2>3, <2>9, <2>12 DEF Shown
    <3> QED BY <3>1, <3>2 DEF ItemFits
  <2>16. JobFits(j)'
    BY <1>8, <2>2, <2>3, <2>8, <2>9, <2>10, <2>11 DEF WorkFits, JobFits
  <2>17. RunFits(j)'
    <3>1. DOMAIN y.entries = jobs[j].targets /\ y.todo \subseteq jobs[j].targets
      BY <1>8, <2>8 DEF WorkFits, RunFits
    <3>2. ASSUME NEW u \in jobs[j].targets
          PROVE  LET f == y.entries[u] IN
                 /\ f.item \in ItemIds /\ items'[f.item].target = u
                 /\ jobs[j].mode = "regenerated" => f.item = jobs[j].item
                 /\ f.copy.current \in 0 .. Len(versions[f.item])
      <4>1. CASE u = t
        <5>1. v \in 0 .. Len(versions[i])
          BY <1>7, <2>4
        <5>2. jobs[j].mode = "regenerated" => i = jobs[j].item
          BY <1>2, <1>5, <1>8 DEF WorkFits, RunFits
        <5> QED BY <1>8, <2>3, <2>6, <2>8, <2>9, <4>1, <5>1, <5>2
      <4>2. CASE u # t
        <5>1. LET f == runs[j].entries[u] IN
              /\ f.item \in ItemIds /\ items[f.item].target = u
              /\ jobs[j].mode = "regenerated" => f.item = jobs[j].item
              /\ f.copy.current \in 0 .. Len(versions[f.item])
          BY <1>8 DEF WorkFits, RunFits
        <5>2. y.entries[u] = runs[j].entries[u] /\ runs[j].entries[u].item # i
          BY <1>8, <2>8, <4>2, <5>1
        <5> QED BY <2>9, <5>1, <5>2
      <4> QED BY <4>1, <4>2
    <3> QED BY <1>6, <2>2, <2>8, <2>10, <2>11, <3>1, <3>2 DEF RunFits
  <2>18. \A u \in jobs[j].targets : u # t => (Has(j, u)' <=> Has(j, u))
    BY <1>6, <2>8, <2>10 DEF Has, WrittenByJob
  <2>19. Has(j, t)'
    BY <1>6, <1>7, <2>3, <2>6, <2>8, <2>10 DEF Has, WrittenByJob
  <2>20. Covered(j)'
    BY <1>6, <1>8, <2>2, <2>8, <2>10, <2>18, <2>19 DEF WorkFits, Covered
  <2>21. Ahead(j)' /\ Whole(j)'
    BY <1>8, <2>2, <2>8, <2>10 DEF Ahead, Whole
  <2>22. \A k \in ItemIds' : Fresh(k, j)'
    <3> SUFFICES ASSUME NEW k \in ItemIds, k \notin overtaken', NEW u \in jobs[j].targets,
                        y.entries[u].item = k
                 PROVE  y.entries[u].copy = items'[k]
      BY <2>8, <2>10, <2>11 DEF Fresh
    <3>1. CASE u = t
      BY <2>6, <2>8, <2>9, <3>1
    <3>2. CASE u # t
      <4>1. runs[j].entries[u] = y.entries[u] /\ items[k].target = u
        BY <1>8, <2>8, <3>2 DEF WorkFits, RunFits
      <4>2. k # i /\ k \notin overtaken
        BY <1>8, <2>12, <3>2, <4>1
      <4>3. runs[j].entries[u].copy = items[k]
        BY <1>8, <4>1, <4>2 DEF WorkFits, Fresh
      <4> QED BY <2>9, <4>1, <4>2, <4>3
    <3> QED BY <3>1, <3>2
  <2>23. WorkFits(j)'
    BY <2>16, <2>17, <2>20, <2>21, <2>22 DEF WorkFits
  <2> QED BY <2>9, <2>11, <2>13, <2>14, <2>15, <2>23, BaseKept
<1> QED BY <1>9, <1>10

------------------------------------------------------------------------------
(* The base of the invariant, and what follows from it.                    *)

LEMMA InitBase == Init => Base
<1> SUFFICES ASSUME Init PROVE Base
  OBVIOUS
<1>1. jobs = <<>> /\ runs = <<>> /\ reviews = {} /\ overtaken = {}
  BY DEF Init
<1>2. JobIds = {} /\ Len(runs) = Len(jobs) /\ jobs \in Seq(JobRow) /\ runs \in Seq(RunRow)
  BY <1>1 DEF JobIds
<1>3. CASE items = <<>> /\ versions = <<>>
  <2>1. ItemIds = {} /\ Len(items) = Len(versions) /\ items \in Seq(ItemRow)
        /\ versions \in Seq(Seq(VersionRow))
    BY <1>3 DEF ItemIds
  <2> QED BY <1>1, <1>2, <2>1 DEF Base, Tables
<1>4. CASE \E t \in Targets :
             /\ items = <<[NewItem(t) EXCEPT !.state = "generated", !.current = 1]>>
             /\ versions = <<<<NewVersion(User, FALSE)>>>>
  <2>1. PICK t \in Targets :
             /\ items = <<[NewItem(t) EXCEPT !.state = "generated", !.current = 1]>>
             /\ versions = <<<<NewVersion(User, FALSE)>>>>
    BY <1>4
  <2> DEFINE row == [NewItem(t) EXCEPT !.state = "generated", !.current = 1]
             text == NewVersion(User, FALSE)
  <2>2. row \in ItemRow /\ row.current = 1 /\ row.approved = 0 /\ row.state = "generated"
    BY DEF NewItem, ItemRow, ContentState
  <2>3. text \in VersionRow
    BY DEF NewVersion, VersionRow, User, Reviewers
  <2>4. items = <<row>> /\ versions = <<<<text>>>>
    BY <2>1
  <2> HIDE DEF row, text
  <2>5. items \in Seq(ItemRow) /\ Len(items) = 1 /\ items[1] = row
    BY <2>2, <2>4
  <2>6. <<text>> \in Seq(VersionRow) /\ Len(<<text>>) = 1
    BY <2>3
  <2>7. versions \in Seq(Seq(VersionRow)) /\ Len(versions) = 1 /\ Len(versions[1]) = 1
    BY <2>4, <2>6
  <2>8. ItemIds = {1}
    BY <2>5 DEF ItemIds
  <2>9. ItemFits(1)
    BY <2>2, <2>5, <2>7 DEF ItemFits, RowFits, Shown
  <2> QED BY <1>1, <1>2, <2>5, <2>7, <2>8, <2>9 DEF Base, Tables
<1> QED BY <1>3, <1>4 DEF Init

LEMMA WorkBase ==
    ASSUME Base, NEW j \in JobIds, Work(j) \/ Crash(j)
    PROVE  Base' /\ Step({j})
<1>1. CASE Start(j)
  BY <1>1, StartBase
<1>2. CASE Refuse(j)
  BY <1>2, RefuseBase
<1>3. CASE Call(j) \/ Retry(j)
  BY <1>3, CallBase
<1>4. CASE CallFails(j) \/ Crash(j)
  BY <1>4, BreakBase
<1>5. CASE Keep(j)
  BY <1>5, KeepBase
<1>6. CASE WriteVersion(j)
  BY <1>6, WriteVersionBase
<1>7. CASE Advance(j)
  BY <1>7, AdvanceBase
<1>8. CASE Settle(j)
  BY <1>8, SettleBase
<1> QED BY <1>1, <1>2, <1>3, <1>4, <1>5, <1>6, <1>7, <1>8 DEF Work

LEMMA RouteBase ==
    ASSUME Base, Route
    PROVE  Base' /\ Step({})
<1>1. CASE \E targets \in SUBSET Targets : Generate(targets)
  BY <1>1, GenerateBase
<1>2. ASSUME NEW i \in ItemIds,
             \/ Regenerate(i) \/ Edit(i) \/ Approve(i) \/ Reject(i)
             \/ OpenReview(i) \/ Publish(i)
      PROVE  Base' /\ Step({})
  BY <1>2, RegenerateBase, EditBase, ApproveBase, MoveBase, OpenReviewBase
<1>3. ASSUME NEW r \in reviews,
             \/ \E risky \in BOOLEAN : CloseReview(r[1], r[2], risky)
             \/ AbandonReview(r[1], r[2])
      PROVE  Base' /\ Step({})
  BY <1>3, ReviewBase
<1> QED BY <1>1, <1>2, <1>3 DEF Route

LEMMA StutterBase ==
    ASSUME Base, UNCHANGED vars
    PROVE  Base' /\ Step({})
<1>1. UNCHANGED <<items, versions, jobs, runs, reviews, orphans, overtaken>>
  BY DEF vars
<1>2. ItemIds' = ItemIds /\ JobIds' = JobIds
  BY <1>1 DEF ItemIds, JobIds
<1>3. Tables'
  BY <1>1, <1>2 DEF Base, Tables
<1>4. Step({})
  BY <1>1, <1>2 DEF Step
<1> QED BY <1>1, <1>2, <1>3, <1>4, BaseKept

LEMMA BaseIsInvariant == Spec => []Base
<1>1. Init => Base
  BY InitBase
<1>2. Base /\ [Next]_vars => Base'
  <2> SUFFICES ASSUME Base, [Next]_vars PROVE Base'
    OBVIOUS
  <2>1. CASE Route
    BY <2>1, RouteBase
  <2>2. CASE \E j \in JobIds : Work(j) \/ Crash(j)
    BY <2>2, WorkBase
  <2>3. CASE UNCHANGED vars
    BY <2>3, StutterBase
  <2> QED BY <2>1, <2>2, <2>3 DEF Next
<1> QED BY <1>1, <1>2, PTL DEF Spec

\* Type correctness: the tables and the memory of the runs keep their types.
THEOREM TablesKeepTheirTypes == Spec => []TypeOK
<1>1. Base => TypeOK
  BY DEF Base, Tables, TypeOK, ItemFits, RowFits, WorkFits, JobFits
<1> QED BY <1>1, BaseIsInvariant, PTL

\* An approved item shows the text that the critic and the fact checker read,
\* through edits, reviews, rewritings and crashes.
THEOREM ApprovalStands == Spec => []ApprovalHolds
<1>1. Base => ApprovalHolds
  BY DEF Base, ItemFits, RowFits, Shown, ApprovalHolds, ApprovedIsCurrent, ApprovedWasReviewed
<1> QED BY <1>1, BaseIsInvariant, PTL

\* A job that ends well has a text of its own for every target of its lot.
THEOREM LotsAreWhole == Spec => []LotIsWhole
<1>1. Base => LotIsWhole
  BY DEF Base, WorkFits, Whole, LotIsWhole
<1> QED BY <1>1, BaseIsInvariant, PTL

------------------------------------------------------------------------------
(* The card of a content, on any row and any versions.                     *)

\* Only an archived item leads nowhere.
LEMMA ArchiveIsTheEnd ==
    ASSUME NEW state \in ContentState
    PROVE  /\ Transitions(state) = {} <=> state = "archived"
           /\ "archived" \in Transitions(state) \/ state \in {"archived", "publishing"}
BY DEF Transitions, ContentState

LEMMA NotesShownAreRead ==
    ASSUME NEW row \in ItemRow, NEW texts \in Seq(VersionRow), row.current \in 1 .. Len(texts)
    PROVE  NotesShown(Bundle(row, texts)) = Reviewers \cap texts[row.current].notes
<1>1. DOMAIN texts = 1 .. Len(texts)
  OBVIOUS
<1>2. \A n \in Bundle(row, texts).notes :
        n[1] \in DOMAIN texts /\ n[2] \in Reviewers /\ n[2] \in texts[n[1]].notes
  BY DEF Bundle
<1>3. \A a \in Reviewers : a \in texts[row.current].notes =>
        <<row.current, a>> \in Bundle(row, texts).notes
  BY <1>1 DEF Bundle
<1>4. Bundle(row, texts).item = row
  BY DEF Bundle
<1> HIDE DEF Bundle
<1>5. \A a \in NotesShown(Bundle(row, texts)) : a \in Reviewers /\ a \in texts[row.current].notes
  BY <1>2, <1>4 DEF NotesShown
<1>6. \A a \in Reviewers : a \in texts[row.current].notes => a \in NotesShown(Bundle(row, texts))
  <2> SUFFICES ASSUME NEW a \in Reviewers, a \in texts[row.current].notes
               PROVE  a \in NotesShown(Bundle(row, texts))
    OBVIOUS
  <2>1. PICK n : n = <<row.current, a>>
    OBVIOUS
  <2>2. n \in Bundle(row, texts).notes /\ n[1] = row.current /\ n[2] = a
    BY <1>3, <2>1
  <2> QED BY <1>4, <2>2 DEF NotesShown
<1> QED BY <1>5, <1>6

\* The buttons of a card, whatever the row and its versions.
LEMMA ButtonsAlwaysAgree ==
    ASSUME NEW row \in ItemRow, NEW texts \in Seq(VersionRow), row.current \in 0 .. Len(texts)
    PROVE  ButtonsAgree(Card(Bundle(row, texts)), row, texts)
<1> DEFINE card == Card(Bundle(row, texts))
           accepts == Accepts(row, texts)
<1>1. Bundle(row, texts).item = row
  BY DEF Bundle
<1>2. row.state \in ContentState /\ row.regen \in Nat /\ row.current \in Nat /\ MaxRegen \in Nat
  BY GenerationAssumption DEF ItemRow
<1>3. row.current # 0 => NotesShown(Bundle(row, texts)) = Reviewers \cap texts[row.current].notes
  BY <1>2, NotesShownAreRead
<1>4. /\ card.canApprove <=> CanApprove(Bundle(row, texts))
      /\ card.canRegenerate <=> CanRegenerate(Bundle(row, texts))
      /\ card.canEdit <=> ~Terminal(Bundle(row, texts))
      /\ card.canReject <=> ~Terminal(Bundle(row, texts))
  BY DEF Card
<1>5. /\ accepts.approve <=> MayMove(row.state, "approved") /\ Approvable(row, texts)
      /\ accepts.regenerate <=> MayRegenerate(row)
      /\ accepts.edit <=>
           row.state # "archived" /\ MayAdvance(row.state, DraftState(row, "edited"))
      /\ accepts.reject <=> MayMove(row.state, "archived")
  BY DEF Accepts
<1> HIDE DEF card, accepts
<1>6. Terminal(Bundle(row, texts)) <=> row.state = "archived"
  BY <1>1, <1>2, ArchiveIsTheEnd DEF Terminal
<1>7. CanApprove(Bundle(row, texts)) <=>
        "approved" \in Transitions(row.state) /\ row.current # 0
        /\ Reviewers \subseteq texts[row.current].notes
  BY <1>1, <1>3 DEF CanApprove
<1>8. CanRegenerate(Bundle(row, texts)) <=> MayRegenerate(row)
  BY <1>1, <1>2, <1>6 DEF CanRegenerate, RegenerationsLeft, MayRegenerate
<1>9. accepts.approve => card.canApprove \/ row.state = "approved"
  BY <1>4, <1>5, <1>7 DEF MayMove, Approvable
<1>10. card.canApprove => accepts.approve \/ texts[row.current].risky
  BY <1>4, <1>5, <1>7 DEF MayMove, Approvable
<1>11. card.canRegenerate <=> accepts.regenerate
  BY <1>4, <1>5, <1>8
<1>12. accepts.edit => card.canEdit
  BY <1>4, <1>5, <1>6
<1>13. accepts.reject => card.canReject \/ row.state = "archived"
  BY <1>4, <1>6
<1> QED BY <1>9, <1>10, <1>11, <1>12, <1>13 DEF ButtonsAgree, card, accepts

LEMMA ApprovalIsShown ==
    ASSUME NEW row \in ItemRow, NEW texts \in Seq(VersionRow),
           row.approved # 0 =>
             /\ row.approved = row.current /\ row.approved \in 1 .. Len(texts)
             /\ Reviewers \subseteq texts[row.approved].notes
    PROVE  ApprovalShown(Card(Bundle(row, texts)), row, texts)
<1> SUFFICES ASSUME row.approved # 0
             PROVE  ApprovalShown(Card(Bundle(row, texts)), row, texts)
  BY DEF ApprovalShown
<1>1. Card(Bundle(row, texts)).approvedNumber = row.approved
  BY DEF Card, Bundle
<1>2. DOMAIN texts = 1 .. Len(texts) /\ Len(texts) \in Nat
  OBVIOUS
<1>3. Compared(row, texts).approved = {row.approved}
  BY <1>2 DEF Compared
<1>4. PICK n \in DOMAIN texts : Len(texts) + 1 - n = row.approved
  <2>1. Len(texts) + 1 - row.approved \in DOMAIN texts
    BY <1>2
  <2>2. Len(texts) + 1 - (Len(texts) + 1 - row.approved) = row.approved
    BY <1>2
  <2> QED BY <2>1, <2>2
<1>5. History(row, texts)[n].isApproved /\ History(row, texts)[n].version = row.approved
  BY <1>4 DEF History
<1> QED BY <1>1, <1>3, <1>5 DEF ApprovalShown

\* The review screen tells the truth of every item.
THEOREM CardsAreHonest == Spec => []CardIsHonest
<1>1. Base => CardIsHonest
  <2> SUFFICES ASSUME Base, NEW i \in ItemIds
               PROVE  /\ ButtonsAgree(Card(Bundle(items[i], versions[i])), items[i], versions[i])
                      /\ i \notin overtaken =>
                           ApprovalShown(Card(Bundle(items[i], versions[i])), items[i], versions[i])
    BY DEF CardIsHonest
  <2>1. items[i] \in ItemRow /\ versions[i] \in Seq(VersionRow) /\ ItemFits(i)
    BY TablesAreTyped DEF Base
  <2>2. items[i].current \in 0 .. Len(versions[i])
    BY <2>1 DEF ItemFits, RowFits
  <2>3. i \notin overtaken /\ items[i].approved # 0 =>
          /\ items[i].approved = items[i].current /\ items[i].approved \in 1 .. Len(versions[i])
          /\ Reviewers \subseteq versions[i][items[i].approved].notes
    BY <2>1 DEF ItemFits, RowFits, Shown
  <2> QED BY <2>1, <2>2, <2>3, ButtonsAlwaysAgree, ApprovalIsShown
<1> QED BY <1>1, BaseIsInvariant, PTL

\* An archived item does not come back, unless a run had read it before.
THEOREM ArchiveStands == Spec => ArchivedIsFinal
<1> DEFINE Stays == \A i \in ItemIds \ overtaken :
                      items[i].state = "archived" => items'[i].state = "archived"
<1>1. ASSUME Base, Next PROVE Stays
  <2> SUFFICES ASSUME NEW i \in ItemIds, i \notin overtaken, items[i].state = "archived"
               PROVE  items'[i].state = "archived"
    OBVIOUS
  <2>1. items \in Seq(ItemRow) /\ ItemIds = DOMAIN items
    BY <1>1 DEF Base, Tables, ItemIds
  <2>2. ASSUME NEW s \in {"approved", "in_review"}
        PROVE  ~MayMove("archived", s)
    BY <2>2 DEF MayMove, Transitions
  <2>3. ASSUME NEW k \in ItemIds, NEW row, items' = [items EXCEPT ![k] = row],
               k = i => row.state = "archived"
        PROVE  items'[i].state = "archived"
    BY <2>1, <2>3
  <2>4. CASE UNCHANGED items
    BY <2>4
  <2>5. ASSUME NEW targets \in SUBSET Targets, Generate(targets)
        PROVE  items'[i].state = "archived"
    <3>1. NewItems(targets) \in Seq(ItemRow) /\ items' = items \o NewItems(targets)
      BY <2>5, NewItemsAreRows DEF Generate
    <3> QED BY <2>1, <3>1, Joined
  <2>6. ASSUME NEW k \in ItemIds, Edit(k)
        PROVE  items'[i].state = "archived"
    BY <2>3, <2>6 DEF Edit
  <2>7. ASSUME NEW k \in ItemIds, Approve(k) \/ OpenReview(k) \/ Publish(k)
        PROVE  items'[i].state = "archived"
    <3>1. k # i
      BY <2>2, <2>7 DEF Approve, OpenReview, Publish
    <3> QED BY <2>1, <2>7, <3>1 DEF Approve, OpenReview, Publish
  <2>8. ASSUME NEW k \in ItemIds, Reject(k)
        PROVE  items'[i].state = "archived"
    <3>1. items[k] \in ItemRow
      BY <2>1, <2>8
    <3> QED BY <2>1, <2>8, <3>1 DEF Reject, ItemRow
  <2>9. ASSUME NEW j \in JobIds, Advance(j)
        PROVE  items'[i].state = "archived"
    <3>1. PICK t : t = NextTarget(j)
      OBVIOUS
    <3>2. PICK e : e = runs[j].entries[t]
      OBVIOUS
    <3>3. CASE UNCHANGED items
      BY <3>3
    <3>4. CASE ~UNCHANGED items
      <4>1. MayAdvance(e.copy.state, DraftState(e.copy, Generation(j)))
        BY <2>9, <3>1, <3>2, <3>4, SMTT(30) DEF Advance
      <4>2. e.item \in ItemIds
        BY <1>1, <2>9, <3>1, <3>2, TextIsWaiting, TurnIsHeld, SMTT(30) DEF Advance
      <4>3. e.item # i
        <5>1. e.item \notin overtaken => e.copy = items[e.item]
          BY <1>1, <2>9, <3>1, <3>2, TextIsWaiting, SMTT(30) DEF Advance
        <5> QED BY <4>1, <5>1, DraftLeadsTo
      <4>4. PICK row : items' = [items EXCEPT ![e.item] = row]
        BY <2>9, <3>1, <3>2, <4>1 DEF Advance
      <4> QED BY <2>3, <4>2, <4>3, <4>4
    <3> QED BY <3>3, <3>4
  <2>10. CASE Route
    BY <2>4, <2>5, <2>6, <2>7, <2>8, <2>10 DEF Route, Regenerate, CloseReview, AbandonReview
  <2>11. CASE \E j \in JobIds : Work(j) \/ Crash(j)
    <3>1. PICK j \in JobIds : Work(j) \/ Crash(j)
      BY <2>11
    <3>2. CASE Advance(j)
      BY <2>9, <3>2
    <3>3. CASE Start(j) \/ Refuse(j)
      BY <2>4, <3>3 DEF Start, Refuse
    <3>4. CASE CallFails(j) \/ Crash(j)
      BY <2>4, <3>4 DEF CallFails, Crash
    <3>5. CASE Call(j) \/ Retry(j)
      BY <2>4, <3>5 DEF Call, Retry
    <3>6. CASE Keep(j) \/ WriteVersion(j) \/ Settle(j)
      BY <2>4, <3>6 DEF Keep, WriteVersion, Settle
    <3> QED BY <3>1, <3>2, <3>3, <3>4, <3>5, <3>6 DEF Work
  <2> QED BY <1>1, <2>10, <2>11 DEF Next
<1>2. Base /\ [Next]_vars => [Stays]_vars
  BY <1>1, SMTT(30)
<1> QED BY <1>2, BaseIsInvariant, PTL DEF Spec, ArchivedIsFinal

------------------------------------------------------------------------------
(* The rewritings of an item are counted.                                  *)

\* A run that holds what it held, of an item whose count has not changed.
LEMMA WithinStays ==
    ASSUME Base, Base', NEW A, Step(A), NEW k \in JobIds, Within(k),
           jobs'[k] = jobs[k],
           \A t \in DOMAIN runs[k].entries :
               /\ runs'[k].entries[t].item = runs[k].entries[t].item
               /\ runs'[k].entries[t].copy = runs[k].entries[t].copy,
           Rewrites(k) => items'[jobs[k].item].regen = items[jobs[k].item].regen
    PROVE  Within(k)'
<1> SUFFICES ASSUME Rewrites(k)
             PROVE  Within(k)'
  BY DEF Within, Rewrites, Active
<1>1. PICK i : i = jobs[k].item
  OBVIOUS
<1>2. i \in ItemIds /\ jobs[k].targets = {items[i].target} /\ WorkFits(k)
  BY <1>1 DEF Base, WorkFits, JobFits, Rewrites
<1>3. PICK t : t = items[i].target
  OBVIOUS
<1>4. items'[i].target = t /\ items'[i].regen = items[i].regen
  BY <1>1, <1>2, <1>3 DEF Step
<1>5. jobs[k].status = "running" => t \in DOMAIN runs[k].entries
  BY <1>2, <1>3 DEF WorkFits, JobFits, RunFits
<1>6. PICK e : e = runs[k].entries[t]
  OBVIOUS
<1>7. PICK f : f = runs'[k].entries[t]
  OBVIOUS
<1>8. ASSUME jobs[k].status = "running"
      PROVE  f.copy = e.copy /\ (WrittenByJob(k, f)' <=> WrittenByJob(k, e))
  <2>1. f.copy = e.copy /\ f.item = e.item
    BY <1>5, <1>6, <1>7, <1>8
  <2>2. e.item \in ItemIds /\ e.copy.current \in 0 .. Len(versions[e.item])
    BY <1>2, <1>5, <1>6, <1>8 DEF WorkFits, RunFits
  <2>3. WrittenByJob(k, e)' <=> WrittenByJob(k, e)
    BY <2>2, TextsStay, SMTT(30)
  <2> QED BY <2>1, <2>3 DEF WrittenByJob
<1>9. /\ items[i].regen < MaxRegen + jobs[k].attempt
      /\ jobs[k].status = "running" /\ ~WrittenByJob(k, e) =>
           /\ e.copy.regen = items[i].regen
           /\ items[i].regen + 1 < MaxRegen + jobs[k].attempt
  BY <1>1, <1>3, <1>6 DEF Within
<1>10. /\ items'[i].regen < MaxRegen + jobs'[k].attempt
       /\ jobs'[k].status = "running" /\ ~WrittenByJob(k, f)' =>
            /\ f.copy.regen = items'[i].regen
            /\ items'[i].regen + 1 < MaxRegen + jobs'[k].attempt
  BY <1>4, <1>8, <1>9
<1> QED BY <1>1, <1>4, <1>7, <1>10, ZenonT(30) DEF Within, WrittenByJob

\* The executions of a job are counted and stay counted.
LEMMA StartedOverStays ==
    ASSUME Base, Base', NEW A \in SUBSET JobIds, Step(A), NEW i \in ItemIds,
           items'[i].regen = items[i].regen, StartedOver(i),
           \A j \in A : jobs[j].attempt <= jobs'[j].attempt
    PROVE  StartedOver(i)'
<1>1. PICK j \in JobIds : /\ jobs[j].mode = "regenerated" /\ jobs[j].item = i
                         /\ items[i].regen < MaxRegen + jobs[j].attempt
  BY DEF StartedOver
<1>2. j \in JobIds' /\ jobs'[j].mode = "regenerated" /\ jobs'[j].item = i
  BY <1>1 DEF Step
<1>3. jobs[j].attempt \in Nat /\ items[i].regen \in Nat
  <2>1. jobs[j] \in JobRow /\ items[i] \in ItemRow
    BY <1>1, TablesAreTyped DEF Base
  <2> QED BY <2>1 DEF JobRow, ItemRow
<1>4. jobs'[j].attempt \in Nat
  <2>1. jobs'[j] \in JobRow
    BY <1>2, NextTablesAreTyped DEF Base
  <2> QED BY <2>1 DEF JobRow
<1>5. jobs[j].attempt <= jobs'[j].attempt
  BY <1>1, <1>3 DEF Step
<1>6. items'[i].regen < MaxRegen + jobs'[j].attempt
  BY <1>1, <1>3, <1>4, <1>5, GenerationAssumption
<1> QED BY <1>2, <1>6 DEF StartedOver

\* A step that starts no rewriting and writes no count.
LEMMA CountedKept ==
    ASSUME Base, Base', Counted, NEW A \in SUBSET JobIds, Step(A),
           \A i \in ItemIds : items'[i].regen = items[i].regen,
           \A i \in ItemIds' \ ItemIds : items'[i].regen = 0,
           \A j \in A : /\ Within(j)' /\ (Active(j)' => Active(j))
                       /\ jobs[j].attempt <= jobs'[j].attempt,
           \A j \in JobIds' \ JobIds : jobs'[j].mode = "initial"
    PROVE  Counted'
<1>1. ASSUME NEW i \in ItemIds'
      PROVE  items'[i].regen <= MaxRegen \/ StartedOver(i)'
  <2>1. CASE i \in ItemIds /\ items[i].regen <= MaxRegen
    BY <2>1
  <2>2. CASE i \in ItemIds /\ ~(items[i].regen <= MaxRegen)
    <3>1. StartedOver(i) /\ items'[i].regen = items[i].regen
      BY <2>2 DEF Counted, RegenBounded
    <3>2. \A j \in A : jobs[j].attempt <= jobs'[j].attempt
      OBVIOUS
    <3> QED BY <2>2, <3>1, <3>2, StartedOverStays
  <2>3. CASE i \notin ItemIds
    BY <2>3, GenerationAssumption
  <2> QED BY <2>1, <2>2, <2>3
<1>2. ASSUME NEW j \in JobIds', Rewrites(j)'
      PROVE  j \in JobIds /\ Rewrites(j) /\ jobs'[j].item = jobs[j].item
  <2>1. j \in JobIds
    BY <1>2 DEF Rewrites
  <2>2. Active(j)
    BY <1>2, <2>1 DEF Rewrites, Active, Step
  <2> QED BY <1>2, <2>1, <2>2 DEF Rewrites, Step
<1>3. OneRewriting'
  BY <1>2 DEF Counted, OneRewriting
<1>4. ASSUME NEW j \in JobIds'
      PROVE  Within(j)'
  <2>1. CASE j \in A
    BY <2>1
  <2>2. CASE j \in JobIds /\ j \notin A
    <3>1. jobs'[j] = jobs[j] /\ runs'[j] = runs[j]
      BY <2>2 DEF Step
    <3>2. Rewrites(j) => items'[jobs[j].item].regen = items[jobs[j].item].regen
      BY <2>2 DEF Base, WorkFits, JobFits, Rewrites
    <3>3. Within(j)
      BY <2>2, Zenon DEF Counted
    <3> QED BY <2>2, <3>1, <3>2, <3>3, WithinStays
  <2>3. CASE j \notin JobIds
    <3>1. ~Rewrites(j)'
      BY <2>3 DEF Rewrites
    <3> QED BY <3>1 DEF Within
  <2> QED BY <2>1, <2>2, <2>3
<1> QED BY <1>1, <1>3, <1>4 DEF Counted, RegenBounded

LEMMA RowCounts ==
    ASSUME Base, Counted, NEW i \in ItemIds,
           OpenReview(i) \/ Approve(i) \/ Reject(i) \/ Publish(i) \/ Edit(i)
    PROVE  Counted'
<1>1. Base' /\ Step({})
  BY OpenReviewBase, ApproveBase, MoveBase, EditBase
<1>2. /\ items \in Seq(ItemRow) /\ items[i] \in ItemRow /\ ItemIds = DOMAIN items
      /\ versions[i] \in Seq(VersionRow)
  BY TablesAreTyped DEF Base, Tables, ItemIds
<1>3. PICK row : /\ items' = [items EXCEPT ![i] = row] \/ items' = items
                 /\ row.regen = items[i].regen
  <2>1. CASE OpenReview(i) \/ Reject(i) \/ Publish(i)
    <3>1. PICK s : items' = [items EXCEPT ![i].state = s]
      BY <2>1 DEF OpenReview, Reject, Publish
    <3>2. [items[i] EXCEPT !.state = s].regen = items[i].regen
      BY <1>2 DEF ItemRow
    <3> QED BY <3>1, <3>2
  <2>2. CASE Approve(i)
    <3>1. [items[i] EXCEPT !.state = "approved", !.approved = items[i].current].regen = items[i].regen
      BY <1>2 DEF ItemRow
    <3>2. items' = [items EXCEPT ![i] =
            [items[i] EXCEPT !.state = "approved", !.approved = items[i].current]]
      BY <1>2, <2>2 DEF Approve
    <3> QED BY <3>1, <3>2
  <2>3. CASE Edit(i)
    <3>1. Len(versions[i]) + 1 \in Nat
      BY <1>2
    <3>2. RecordDraft(items[i], items[i], "edited", Len(versions[i]) + 1).regen = items[i].regen
      BY <1>2, <3>1, DraftIsRow
    <3>3. \/ items' = items
          \/ items' = [items EXCEPT ![i] =
                         RecordDraft(items[i], items[i], "edited", Len(versions[i]) + 1)]
      BY <2>3 DEF Edit
    <3> QED BY <3>2, <3>3
  <2> QED BY <2>1, <2>2, <2>3
<1>4. \A k \in ItemIds : items'[k].regen = items[k].regen
  BY <1>2, <1>3
<1>5. ItemIds' = ItemIds
  BY <1>2, <1>3 DEF ItemIds
<1>6. JobIds' = JobIds
  BY DEF OpenReview, Approve, Reject, Publish, Edit, JobIds
<1> QED BY <1>1, <1>4, <1>5, <1>6, CountedKept

LEMMA ReviewCounts ==
    ASSUME Base, Counted, NEW r \in reviews,
           (\E risky \in BOOLEAN : CloseReview(r[1], r[2], risky)) \/ AbandonReview(r[1], r[2])
    PROVE  Counted'
<1>1. Base' /\ Step({})
  BY ReviewBase
<1>2. UNCHANGED items /\ ItemIds' = ItemIds /\ JobIds' = JobIds
  BY DEF CloseReview, AbandonReview, ItemIds, JobIds
<1> QED BY <1>1, <1>2, CountedKept

LEMMA GenerateCounts ==
    ASSUME Base, Counted, NEW targets \in SUBSET Targets, Generate(targets)
    PROVE  Counted'
<1>1. /\ Base' /\ Step({})
      /\ \A i \in ItemIds : items'[i] = items[i]
      /\ \A i \in ItemIds' \ ItemIds : items'[i].regen = 0
      /\ \A j \in JobIds' \ JobIds : jobs'[j].mode = "initial"
  BY GenerateBase
<1> QED BY <1>1, CountedKept

LEMMA RegenerateCounts ==
    ASSUME Base, Counted, NEW i \in ItemIds, Regenerate(i)
    PROVE  Counted'
<1>1. Base' /\ Step({})
  BY RegenerateBase
<1>2. /\ Tables /\ items[i] \in ItemRow /\ i \in Nat \ {0} /\ ItemIds' = ItemIds
      /\ UNCHANGED items /\ items[i].regen < MaxRegen /\ items[i].regen \in Nat
  <2>1. Tables /\ items[i] \in ItemRow /\ ItemIds = 1 .. Len(items)
    BY TablesAreTyped DEF Base
  <2>2. UNCHANGED items /\ items[i].regen < MaxRegen
    BY DEF Regenerate, MayRegenerate
  <2> QED BY <2>1, <2>2 DEF ItemIds, ItemRow
<1>3. {items[i].target} \in SUBSET Targets
  BY <1>2 DEF ItemRow
<1>4. /\ JobIds \subseteq JobIds' /\ \A j \in JobIds : jobs'[j] = jobs[j] /\ runs'[j] = runs[j]
      /\ \A j \in JobIds' \ JobIds :
           /\ jobs'[j].status = "queued" /\ jobs'[j].attempt = 0
           /\ jobs'[j].mode = "regenerated" /\ jobs'[j].item = i
  BY <1>2, <1>3, Enqueued DEF Regenerate
<1>5. /\ \A j, k \in JobIds' \ JobIds : j = k
      /\ JobIds' # JobIds =>
           ~ \E j \in JobIds : Active(j) /\ KeyOf(jobs[j]) = Key("regenerated", i, {items[i].target})
  <2>1. CASE UNCHANGED <<jobs, runs>>
    BY <2>1 DEF JobIds
  <2>2. CASE ~ UNCHANGED <<jobs, runs>>
    <3>1. PICK new : jobs' = Append(jobs, new)
      BY <2>2 DEF Regenerate, Enqueue
    <3>2. ~ \E j \in JobIds : Active(j) /\ KeyOf(jobs[j]) = Key("regenerated", i, {items[i].target})
      BY <2>2 DEF Regenerate, Enqueue
    <3>3. JobIds = 1 .. Len(jobs) /\ Len(jobs) \in Nat /\ jobs \in Seq(JobRow)
      BY <1>2, TablesAreTyped DEF Tables
    <3>4. JobIds' = 1 .. Len(jobs) + 1
      BY <3>1, <3>3 DEF JobIds
    <3>5. \A j \in JobIds' \ JobIds : j = Len(jobs) + 1
      BY <3>3, <3>4
    <3> QED BY <3>2, <3>5
  <2> QED BY <2>1, <2>2
<1>6. ASSUME NEW j \in JobIds, Rewrites(j), jobs[j].item = i
      PROVE  JobIds' = JobIds
  <2>1. KeyOf(jobs[j]) = Key("regenerated", i, {items[i].target})
    BY <1>2, <1>6 DEF KeyOf, Key, Rewrites
  <2> QED BY <1>5, <1>6, <2>1 DEF Rewrites
<1>7. OneRewriting'
  <2> SUFFICES ASSUME NEW j \in JobIds', NEW k \in JobIds', Rewrites(j)', Rewrites(k)',
                      jobs'[j].item = jobs'[k].item
               PROVE  j = k
    BY DEF OneRewriting
  <2>1. \A l \in JobIds : Rewrites(l)' <=> Rewrites(l)
    BY <1>4 DEF Rewrites, Active
  <2>2. CASE j \in JobIds /\ k \in JobIds
    BY <1>4, <2>1, <2>2 DEF Counted, OneRewriting
  <2>3. CASE j \notin JobIds \/ k \notin JobIds
    BY <1>4, <1>5, <1>6, <2>1, <2>3
  <2> QED BY <2>2, <2>3
<1>8. ASSUME NEW j \in JobIds'
      PROVE  Within(j)'
  <2>1. CASE j \in JobIds
    <3>1. jobs'[j] = jobs[j] /\ runs'[j] = runs[j] /\ Within(j)
      BY <1>4, <2>1 DEF Counted
    <3> QED BY <1>1, <1>2, <2>1, <3>1, WithinStays
  <2>2. CASE j \notin JobIds
    <3>1. items'[i].regen < MaxRegen + jobs'[j].attempt
      BY <1>2, <1>4, <2>2, GenerationAssumption
    <3> QED BY <1>4, <2>2, <3>1 DEF Within
  <2> QED BY <2>1, <2>2
<1>9. RegenBounded'
  <2> SUFFICES ASSUME NEW k \in ItemIds', ~(items'[k].regen <= MaxRegen)
               PROVE  StartedOver(k)'
    BY DEF RegenBounded
  <2>1. k \in ItemIds /\ items'[k].regen = items[k].regen /\ StartedOver(k)
    BY <1>2 DEF Counted, RegenBounded
  <2> QED BY <1>1, <2>1, StartedOverStays
<1> QED BY <1>7, <1>8, <1>9 DEF Counted

\* The run of one job moves, and no count is written.
LEMMA MoveCounts ==
    ASSUME Base, Base', Counted, NEW j \in JobIds, Step({j}), Active(j), Within(j)',
           UNCHANGED items, JobIds' = JobIds, jobs[j].attempt <= jobs'[j].attempt
    PROVE  Counted'
<1>1. ItemIds' = ItemIds
  BY DEF ItemIds
<1> QED BY <1>1, CountedKept

\* A run that is over gives its attempt back to nobody.
LEMMA EndCounts ==
    ASSUME Base, Base', Counted, NEW j \in JobIds, Step({j}), jobs[j].status = "running",
           NEW outcome \in Outcomes, End(j, outcome), UNCHANGED items
    PROVE  Counted'
<1>1. jobs \in Seq(JobRow) /\ j \in DOMAIN jobs /\ jobs[j] \in JobRow
  BY TablesAreTyped DEF Base, Tables, JobIds
<1>2. jobs'[j].attempt = jobs[j].attempt /\ jobs'[j].status # "running" /\ JobIds' = JobIds
  <2>1. PICK over : over = Left(j, outcome)
    OBVIOUS
  <2>2. jobs' = [jobs EXCEPT ![j].status = over] /\ over # "running"
    BY <2>1, LeftIsOver DEF End
  <2> QED BY <1>1, <2>2, SMTT(30) DEF JobIds, JobRow
<1>3. Active(j)
  BY DEF Active
<1>4. Within(j)'
  <2>1. jobs'[j].mode = jobs[j].mode /\ jobs'[j].item = jobs[j].item
    BY DEF Step
  <2>2. Within(j)
    BY DEF Counted
  <2> QED BY <1>2, <1>3, <2>1, <2>2 DEF Within, Rewrites
<1>5. jobs[j].attempt <= jobs'[j].attempt
  BY <1>1, <1>2 DEF JobRow
<1> QED BY <1>2, <1>3, <1>4, <1>5, MoveCounts

\* A run that keeps the copies it holds.
LEMMA HeldCounts ==
    ASSUME Base, Base', Counted, NEW j \in JobIds, Step({j}), jobs[j].status = "running",
           UNCHANGED <<items, jobs>>,
           \A t \in DOMAIN runs[j].entries :
               /\ runs'[j].entries[t].item = runs[j].entries[t].item
               /\ runs'[j].entries[t].copy = runs[j].entries[t].copy
    PROVE  Counted'
<1>1. Within(j) /\ Active(j) /\ JobIds' = JobIds /\ jobs'[j] = jobs[j]
  BY DEF Counted, Active, JobIds
<1>2. Within(j)'
  BY <1>1, WithinStays
<1>3. jobs[j].attempt <= jobs'[j].attempt
  <2>1. jobs[j] \in JobRow
    BY TablesAreTyped DEF Base
  <2> QED BY <1>1, <2>1 DEF JobRow
<1> QED BY <1>1, <1>2, <1>3, MoveCounts

LEMMA StartCounts ==
    ASSUME Base, Counted, NEW j \in JobIds, Start(j)
    PROVE  Counted'
<1>1. Base' /\ Step({j})
  BY StartBase
<1>2. /\ jobs \in Seq(JobRow) /\ j \in DOMAIN jobs /\ jobs[j] \in JobRow
      /\ runs \in Seq(RunRow) /\ j \in DOMAIN runs /\ WorkFits(j)
  BY TablesAreTyped DEF Base, Tables
<1>3. PICK n \in Nat : n = jobs[j].attempt
  BY <1>2 DEF JobRow
<1>4. /\ jobs'[j].attempt = n + 1 /\ jobs'[j].mode = jobs[j].mode /\ jobs'[j].item = jobs[j].item
      /\ JobIds' = JobIds /\ UNCHANGED items /\ Active(j)
  <2>1. jobs' = [jobs EXCEPT ![j].status = "running", ![j].attempt = @ + 1]
    BY DEF Start
  <2>2. jobs'[j].attempt = n + 1 /\ JobIds' = JobIds
    BY <1>2, <1>3, <2>1 DEF JobIds, JobRow
  <2> QED BY <1>1, <2>2 DEF Step, Start, Active
<1>5. runs'[j].entries = Entries(j)
  BY <1>2 DEF Start, Idle
<1>6. Within(j)'
  <2> SUFFICES ASSUME jobs[j].mode = "regenerated"
               PROVE  Within(j)'
    BY <1>4 DEF Within, Rewrites
  <2>1. PICK i : i = jobs[j].item
    OBVIOUS
  <2>2. i \in ItemIds /\ jobs[j].targets = {items[i].target} /\ items[i] \in ItemRow
    BY <1>2, <2>1, TablesAreTyped DEF WorkFits, JobFits, Base
  <2>3. Entries(j)[items[i].target].copy = items[i]
    BY <2>1, <2>2 DEF Entries, Entry
  <2>4. items[i].regen < MaxRegen + n
    BY <1>3, <1>4, <2>1 DEF Counted, Within, Rewrites
  <2>5. items[i].regen < MaxRegen + (n + 1) /\ items[i].regen + 1 < MaxRegen + (n + 1)
    BY <1>3, <2>2, <2>4, GenerationAssumption DEF ItemRow
  <2> QED BY <1>4, <1>5, <2>1, <2>3, <2>5 DEF Within
<1>7. jobs[j].attempt <= jobs'[j].attempt
  BY <1>3, <1>4
<1> QED BY <1>1, <1>4, <1>6, <1>7, MoveCounts

LEMMA RefuseCounts ==
    ASSUME Base, Counted, NEW j \in JobIds, Refuse(j)
    PROVE  Counted'
<1>1. Base' /\ Step({j})
  BY RefuseBase
<1>2. jobs \in Seq(JobRow) /\ j \in DOMAIN jobs /\ jobs[j] \in JobRow
  BY TablesAreTyped DEF Base, Tables, JobIds
<1>3. jobs' = [jobs EXCEPT ![j].status = "failed", ![j].attempt = @ + 1] /\ UNCHANGED items
  BY DEF Refuse
<1>4. jobs'[j].status = "failed" /\ JobIds' = JobIds
  BY <1>2, <1>3 DEF JobIds, JobRow
<1>5. Active(j) /\ Within(j)'
  BY <1>4 DEF Refuse, Active, Within, Rewrites
<1>6. jobs[j].attempt <= jobs'[j].attempt
  <2>1. PICK n \in Nat : n = jobs[j].attempt
    BY <1>2 DEF JobRow
  <2>2. jobs'[j].attempt = n + 1
    BY <1>2, <1>3, <2>1 DEF JobRow
  <2> QED BY <2>1, <2>2
<1> QED BY <1>1, <1>3, <1>4, <1>5, <1>6, MoveCounts

\* The calls, their answers, their failures, and the death of the worker.
LEMMA CallCounts ==
    ASSUME Base, Counted, NEW j \in JobIds,
           Call(j) \/ Retry(j) \/ CallFails(j) \/ Crash(j)
    PROVE  Counted'
<1>1. Base' /\ Step({j})
  BY CallBase, BreakBase
<1>2. /\ jobs[j].status = "running" /\ UNCHANGED items
      /\ runs \in Seq(RunRow) /\ j \in DOMAIN runs /\ runs[j] \in RunRow
  <2>1. jobs[j].status = "running" /\ UNCHANGED items
    BY DEF Call, Retry, CallFails, Crash, Base, WorkFits, JobFits
  <2> QED BY <2>1, TablesAreTyped DEF Base, Tables
<1>3. CASE \E outcome \in Outcomes : End(j, outcome)
  BY <1>1, <1>2, <1>3, EndCounts
<1>4. CASE ~ \E outcome \in Outcomes : End(j, outcome)
  <2>1. PICK targets, answer : Answered(j, targets, answer)
    BY <1>4 DEF Call, Retry, CallFails, Crash, Outcomes
  <2>2. /\ runs' = [runs EXCEPT ![j].pc = "write", ![j].pass = @ + 1, ![j].todo = targets,
                                ![j].bad = {t \in targets : answer[t] = "bad"}]
        /\ UNCHANGED jobs
    BY <1>4, <2>1 DEF Answered, Outcomes
  <2>3. runs'[j].entries = runs[j].entries
    BY <1>2, <2>2 DEF RunRow
  <2> QED BY <1>1, <1>2, <2>2, <2>3, HeldCounts
<1> QED BY <1>3, <1>4

LEMMA HoldCounts ==
    ASSUME Base, Counted, NEW j \in JobIds, Keep(j) \/ WriteVersion(j) \/ Settle(j)
    PROVE  Counted'
<1>1. Base' /\ Step({j})
  BY KeepBase, WriteVersionBase, SettleBase
<1>2. /\ jobs[j].status = "running" /\ UNCHANGED items
      /\ runs \in Seq(RunRow) /\ j \in DOMAIN runs /\ runs[j] \in RunRow
  <2>1. jobs[j].status = "running" /\ UNCHANGED items
    BY DEF Keep, WriteVersion, Settle, Base, WorkFits, JobFits
  <2>2. Tables
    BY DEF Base
  <2>3. runs \in Seq(RunRow)
    BY <2>2 DEF Tables
  <2>4. j \in DOMAIN runs /\ runs[j] \in RunRow
    BY <2>2, TablesAreTyped
  <2> QED BY <2>1, <2>3, <2>4
<1>3. CASE Keep(j)
  <2>1. PICK t, bad : /\ runs' = [runs EXCEPT ![j].todo = @ \ {t}, ![j].entries[t].bad = bad]
                      /\ UNCHANGED jobs /\ t \in DOMAIN runs[j].entries
    <3>1. NextTarget(j) \in DOMAIN runs[j].entries
      <4>1. runs[j].pc = "write" /\ runs[j].todo # {}
        BY <1>3 DEF Keep
      <4>2. NextTarget(j) \in jobs[j].targets /\ DOMAIN runs[j].entries = jobs[j].targets
        BY <4>1, TurnIsHeld, Zenon
      <4> QED BY <4>2
    <3> QED BY <1>3, <3>1 DEF Keep
  <2>2. runs[j].entries \in [DOMAIN runs[j].entries -> EntryRow]
    BY <1>2 DEF RunRow
  <2>3. runs'[j].entries = [runs[j].entries EXCEPT ![t].bad = bad]
    BY <1>2, <2>1 DEF RunRow
  <2>4. \A u \in DOMAIN runs[j].entries :
           /\ runs'[j].entries[u].item = runs[j].entries[u].item
           /\ runs'[j].entries[u].copy = runs[j].entries[u].copy
    BY <2>1, <2>2, <2>3 DEF EntryRow
  <2> QED BY <1>1, <1>2, <2>1, <2>4, HeldCounts, ZenonT(30)
<1>4. CASE WriteVersion(j)
  <2>1. runs'[j].entries = runs[j].entries /\ UNCHANGED jobs
    BY <1>2, <1>4 DEF WriteVersion, RunRow
  <2> QED BY <1>1, <1>2, <2>1, HeldCounts
<1>5. CASE Settle(j) /\ MorePasses(j)
  <2>1. runs'[j].entries = runs[j].entries /\ UNCHANGED jobs
    BY <1>2, <1>5 DEF Settle, RunRow
  <2> QED BY <1>1, <1>2, <2>1, HeldCounts
<1>6. CASE Settle(j) /\ ~MorePasses(j)
  <2>1. End(j, "done")
    BY <1>6 DEF Settle
  <2> QED BY <1>1, <1>2, <2>1, EndCounts DEF Outcomes
<1> QED BY <1>3, <1>4, <1>5, <1>6

\* A rewriting is counted from the copy, which nobody else has counted.
LEMMA AdvanceCounts ==
    ASSUME Base, Counted, NEW j \in JobIds, Advance(j)
    PROVE  Counted'
<1>1. Base' /\ Step({j})
  BY AdvanceBase
<1>2. PICK t : t = NextTarget(j)
  OBVIOUS
<1>3. PICK e : e = runs[j].entries[t]
  OBVIOUS
<1>4. PICK v : v = Written(j, e.item)
  OBVIOUS
<1>5. PICK row : row = RecordDraft(items[e.item], e.copy, Generation(j), v)
  OBVIOUS
<1>6. PICK i : i = e.item
  OBVIOUS
<1>7. runs[j].pc = "advance" /\ runs[j].todo # {} /\ ~Has(j, t) /\ v \in Nat \ {0}
      /\ v \in DOMAIN versions[i] /\ versions[i][v].by = j
  BY <1>2, <1>3, <1>4, <1>6, TextIsWaiting, SMTT(30) DEF Advance
<1>8. /\ jobs[j] \in JobRow /\ WorkFits(j) /\ DOMAIN runs[j].entries = jobs[j].targets
      /\ jobs[j].status = "running" /\ t \in jobs[j].targets /\ i \in ItemIds
      /\ items[i].target = t /\ e \in EntryRow
  BY <1>2, <1>3, <1>6, <1>7, TurnIsHeld
<1>9. runs \in Seq(RunRow) /\ j \in DOMAIN runs /\ runs[j] \in RunRow /\ items \in Seq(ItemRow)
  BY TablesAreTyped DEF Base, Tables
<1>10. CASE ~MayAdvance(e.copy.state, DraftState(e.copy, Generation(j)))
  <2>1. End(j, "failed") /\ UNCHANGED items
    BY <1>2, <1>3, <1>10 DEF Advance
  <2> QED BY <1>1, <1>8, <2>1, EndCounts DEF Outcomes
<1>11. CASE MayAdvance(e.copy.state, DraftState(e.copy, Generation(j)))
  <2>1. /\ items' = [items EXCEPT ![i] = row] /\ UNCHANGED jobs
        /\ runs' = [runs EXCEPT ![j].pc = "write", ![j].todo = @ \ {t},
                      ![j].entries[t] = [@ EXCEPT !.copy = row, !.bad = versions[i][v].bad]]
    BY <1>2, <1>3, <1>4, <1>5, <1>6, <1>11, ZenonT(30) DEF Advance
  <2>2. /\ row \in ItemRow /\ row.current = v
        /\ row.regen = IF Generation(j) = "regenerated" THEN e.copy.regen + 1 ELSE items[i].regen
    BY <1>2, <1>3, <1>4, <1>5, <1>6, <1>7, RowIsWritten, SMTT(30)
  <2>3. /\ items'[i] = row /\ \A k \in ItemIds : k # i => items'[k] = items[k]
        /\ ItemIds' = ItemIds /\ JobIds' = JobIds
    BY <1>8, <1>9, <2>1, <2>2 DEF ItemIds, JobIds
  <2>4. Generation(j) = jobs[j].mode
    <3>1. runs[j].pass = 1
      BY <1>7, <1>8 DEF WorkFits, Covered
    <3> QED BY <3>1 DEF Generation
  <2>5. CASE jobs[j].mode # "regenerated"
    <3>1. ASSUME NEW k \in ItemIds
          PROVE  items'[k].regen = items[k].regen
      <4>1. row.regen = items[i].regen
        BY <2>2, <2>4, <2>5
      <4>2. CASE k = i
        BY <2>3, <4>1, <4>2
      <4>3. CASE k # i
        BY <2>3, <4>3
      <4> QED BY <4>2, <4>3
    <3>2. Within(j)' /\ Active(j)
      BY <1>8, <2>1, <2>5 DEF Within, Rewrites, Active
    <3>3. jobs[j].attempt <= jobs'[j].attempt
      BY <1>8, <2>1 DEF JobRow
    <3> QED BY <1>1, <2>3, <3>1, <3>2, <3>3, CountedKept
  <2>6. CASE jobs[j].mode = "regenerated"
    <3>1. /\ Rewrites(j) /\ jobs[j].item = i
      BY <1>3, <1>6, <1>8, <2>6 DEF Rewrites, Active, WorkFits, RunFits
    <3>2. /\ e.copy.regen = items[i].regen /\ items[i].regen + 1 < MaxRegen + jobs[j].attempt
      BY <1>3, <1>7, <1>8, <3>1 DEF Counted, Within, Has
    <3>3. row.regen = items[i].regen + 1
      BY <2>2, <2>4, <2>6, <3>2
    <3>4. row.regen < MaxRegen + jobs[j].attempt
      BY <3>2, <3>3
    <3>5. StartedOver(i)'
      <4>1. jobs'[j].mode = "regenerated" /\ jobs'[j].item = i /\ jobs'[j].attempt = jobs[j].attempt
        BY <2>1, <2>6, <3>1
      <4> QED BY <2>3, <3>4, <4>1 DEF StartedOver
    <3>6. RegenBounded'
      <4> SUFFICES ASSUME NEW k \in ItemIds', k # i, ~(items'[k].regen <= MaxRegen)
                   PROVE  StartedOver(k)'
        BY <3>5 DEF RegenBounded
      <4>1. k \in ItemIds /\ items'[k].regen = items[k].regen /\ StartedOver(k)
        BY <2>3 DEF Counted, RegenBounded
      <4>2. jobs[j].attempt <= jobs'[j].attempt
        BY <1>8, <2>1 DEF JobRow
      <4> QED BY <1>1, <4>1, <4>2, StartedOverStays
    <3>7. OneRewriting'
      <4>1. jobs' = jobs /\ JobIds' = JobIds
        BY <2>1, <2>3
      <4>2. OneRewriting
        BY DEF Counted
      <4> QED BY <4>1, <4>2 DEF OneRewriting, Rewrites, Active
    <3>8. Within(j)'
      <4>1. runs'[j].entries[t].copy = row /\ runs'[j].entries[t].item = i
        <5>1. runs[j].entries \in [DOMAIN runs[j].entries -> EntryRow]
          BY <1>9 DEF RunRow
        <5>2. runs'[j].entries = [runs[j].entries EXCEPT
                 ![t] = [@ EXCEPT !.copy = row, !.bad = versions[i][v].bad]]
          BY <1>9, <2>1 DEF RunRow
        <5> QED BY <1>3, <1>6, <1>8, <5>1, <5>2 DEF EntryRow
      <4>2. UNCHANGED versions
        BY DEF Advance
      <4>3. PICK f : f = runs'[j].entries[t]
        OBVIOUS
      <4>4. WrittenByJob(j, f)'
        BY <1>7, <2>2, <4>1, <4>2, <4>3 DEF WrittenByJob
      <4>5. items'[i].target = t
        BY <1>1, <1>8 DEF Step
      <4>6. jobs'[j].item = i /\ jobs'[j].attempt = jobs[j].attempt
        BY <2>1, <3>1
      <4> QED BY <2>3, <3>4, <4>3, <4>4, <4>5, <4>6 DEF Within, WrittenByJob
    <3>9. ASSUME NEW k \in JobIds, k # j
          PROVE  Within(k)'
      <4>1. jobs'[k] = jobs[k] /\ runs'[k] = runs[k] /\ Within(k)
        BY <1>1, <3>9 DEF Step, Counted
      <4>2. Rewrites(k) => jobs[k].item \in ItemIds /\ jobs[k].item # i
        BY <3>1, <3>9 DEF Counted, OneRewriting, Base, WorkFits, JobFits, Rewrites
      <4> QED BY <1>1, <2>3, <4>1, <4>2, WithinStays
    <3> QED BY <2>3, <3>6, <3>7, <3>8, <3>9 DEF Counted
  <2> QED BY <2>5, <2>6, SMTT(30)
<1> QED BY <1>10, <1>11

LEMMA InitCounts == Init => Counted
<1> SUFFICES ASSUME Init PROVE Counted
  OBVIOUS
<1>1. JobIds = {}
  <2>1. jobs = <<>>
    BY DEF Init
  <2> QED BY <2>1 DEF JobIds
<1>2. ASSUME NEW i \in ItemIds
      PROVE  items[i].regen = 0
  <2>1. CASE items = <<>>
    <3>1. ItemIds = {}
      BY <2>1 DEF ItemIds
    <3> QED BY <1>2, <3>1
  <2>2. CASE items # <<>>
    <3>1. PICK t \in Targets : items = <<[NewItem(t) EXCEPT !.state = "generated", !.current = 1]>>
      BY <2>2 DEF Init
    <3>2. [NewItem(t) EXCEPT !.state = "generated", !.current = 1].regen = 0
      BY DEF NewItem
    <3>3. PICK row : items = <<row>> /\ row.regen = 0
      BY <3>1, <3>2
    <3> QED BY <1>2, <3>3 DEF ItemIds
  <2> QED BY <2>1, <2>2
<1>3. RegenBounded
  BY <1>2, GenerationAssumption DEF RegenBounded
<1>4. OneRewriting /\ \A j \in JobIds : Within(j)
  BY <1>1 DEF OneRewriting
<1> QED BY <1>3, <1>4 DEF Counted

LEMMA CountsAreKept ==
    ASSUME Base, Counted, [Next]_vars
    PROVE  Counted'
<1>1. CASE Route
  <2>1. CASE \E targets \in SUBSET Targets : Generate(targets)
    BY <2>1, GenerateCounts
  <2>2. ASSUME NEW i \in ItemIds,
               \/ Regenerate(i) \/ Edit(i) \/ Approve(i) \/ Reject(i)
               \/ OpenReview(i) \/ Publish(i)
        PROVE  Counted'
    BY <2>2, RegenerateCounts, RowCounts
  <2>3. ASSUME NEW r \in reviews,
               \/ \E risky \in BOOLEAN : CloseReview(r[1], r[2], risky)
               \/ AbandonReview(r[1], r[2])
        PROVE  Counted'
    BY <2>3, ReviewCounts
  <2> QED BY <1>1, <2>1, <2>2, <2>3 DEF Route
<1>2. ASSUME NEW j \in JobIds, Work(j) \/ Crash(j)
      PROVE  Counted'
  <2>1. CASE Start(j) \/ Refuse(j)
    BY <2>1, StartCounts, RefuseCounts
  <2>2. CASE Call(j) \/ Retry(j) \/ CallFails(j) \/ Crash(j)
    BY <2>2, CallCounts
  <2>3. CASE Keep(j) \/ WriteVersion(j) \/ Settle(j)
    BY <2>3, HoldCounts
  <2>4. CASE Advance(j)
    BY <2>4, AdvanceCounts
  <2> QED BY <1>2, <2>1, <2>2, <2>3, <2>4 DEF Work
<1>3. CASE UNCHANGED vars
  <2>1. UNCHANGED items /\ ItemIds' = ItemIds /\ JobIds' = JobIds
    BY <1>3 DEF vars, ItemIds, JobIds
  <2>2. Base' /\ Step({})
    BY <1>3, StutterBase
  <2> QED BY <2>1, <2>2, CountedKept
<1> QED BY <1>1, <1>2, <1>3 DEF Next

------------------------------------------------------------------------------
(* Each text reaches its item, or is left behind.                          *)

\* An item without a new text, which no run of A turns away from.
LEMMA TextsArePlaced ==
    ASSUME Base, Base', Placed, NEW A, Step(A), NEW i \in ItemIds,
           Len(versions'[i]) = Len(versions[i]),
           i \notin overtaken' => items'[i].current = items[i].current,
           \A j \in A \cap JobIds : Waits(j, i) => <<i, Written(j, i)>> \in orphans'
    PROVE  LastPlaced(i)' /\ Authored(i)' /\ Once(i)'
<1>1. PICK n \in Nat : n = Len(versions[i])
  BY TablesAreTyped DEF Base
<1>2. /\ DOMAIN versions[i] = 1 .. n /\ DOMAIN versions'[i] = 1 .. n /\ i \in ItemIds'
      /\ \A v \in 1 .. n : versions'[i][v].by = versions[i][v].by
      /\ JobIds \subseteq JobIds' /\ orphans \subseteq orphans' /\ overtaken \subseteq overtaken'
  <2>1. i \in ItemIds' /\ versions[i] \in Seq(VersionRow)
    BY TablesAreTyped DEF Base, Step
  <2>2. versions'[i] \in Seq(VersionRow)
    BY <2>1, NextTablesAreTyped DEF Base
  <2> QED BY <1>1, <2>1, <2>2 DEF Step
<1>3. Authored(i)'
  BY <1>2 DEF Placed, Authored, User
<1>4. Once(i)'
  <2> SUFFICES ASSUME i \notin overtaken', NEW j \in JobIds', NEW v \in 2 .. n,
                      versions'[i][v - 1].by = j, versions'[i][v].by = j
               PROVE  <<i, v - 1>> \in orphans'
    BY <1>1 DEF Once
  <2>1. v \in 1 .. n /\ v - 1 \in 1 .. n
    BY <1>1
  <2>2. versions[i][v - 1].by = j /\ versions[i][v].by = j
    BY <1>2, <2>1
  <2>3. j # User
    BY NextTablesAreTyped DEF Base, User
  <2>4. j \in JobIds
    BY <1>2, <2>1, <2>2, <2>3 DEF Placed, Authored
  <2> QED BY <1>1, <1>2, <2>2, <2>4 DEF Placed, Once
<1>5. LastPlaced(i)'
  <2> SUFFICES ASSUME i \notin overtaken', n # 0
               PROVE  \/ items'[i].current = n \/ <<i, n>> \in orphans'
                      \/ \E j \in JobIds' : Waits(j, i)' /\ versions'[i][n].by = j
    BY <1>1 DEF LastPlaced
  <2>1. \/ items[i].current = n \/ <<i, n>> \in orphans
        \/ \E j \in JobIds : Waits(j, i) /\ versions[i][n].by = j
    BY <1>1, <1>2 DEF Placed, LastPlaced
  <2>2. ASSUME NEW j \in JobIds, Waits(j, i), versions[i][n].by = j
        PROVE  \/ <<i, n>> \in orphans'
               \/ \E k \in JobIds' : Waits(k, i)' /\ versions'[i][n].by = k
    <3>1. CASE j \in A
      <4>1. n \in DOMAIN versions[i]
        BY <1>1, <1>2
      <4>2. PICK w : w = Written(j, i)
        OBVIOUS
      <4>3. /\ w \in DOMAIN versions[i]
            /\ \A u \in DOMAIN versions[i] : versions[i][u].by = j => u <= w
        BY <2>2, <4>1, <4>2, WrittenIsLast DEF Base
      <4>4. w = n
        BY <1>1, <1>2, <2>2, <4>1, <4>3
      <4> QED BY <2>2, <3>1, <4>2, <4>4
    <3>2. CASE j \notin A
      <4>1. runs'[j] = runs[j] /\ j \in JobIds'
        BY <2>2, <3>2 DEF Step
      <4>2. Waits(j, i)'
        BY <2>2, <4>1 DEF Waits, NextTarget
      <4>3. versions'[i][n].by = j
        BY <1>1, <1>2, <2>2
      <4> QED BY <4>1, <4>2, <4>3
    <3> QED BY <3>1, <3>2
  <2> QED BY <1>2, <2>1, <2>2
<1> QED BY <1>3, <1>4, <1>5

\* A text more, by somebody who has not written the last one or has left it behind.
LEMMA NewTextIsPlaced ==
    ASSUME Base, Base', Placed, NEW A, Step(A), NEW i \in ItemIds,
           NEW author \in Nat, author = User \/ author \in JobIds,
           Len(versions'[i]) = Len(versions[i]) + 1,
           versions'[i][Len(versions[i]) + 1].by = author,
           LastPlaced(i)',
           i \notin overtaken' /\ Len(versions[i]) # 0 /\ author \in JobIds
               /\ versions[i][Len(versions[i])].by = author =>
             <<i, Len(versions[i])>> \in orphans
    PROVE  LastPlaced(i)' /\ Authored(i)' /\ Once(i)'
<1>1. PICK n \in Nat : n = Len(versions[i])
  BY TablesAreTyped DEF Base
<1>2. /\ DOMAIN versions[i] = 1 .. n /\ DOMAIN versions'[i] = 1 .. n + 1 /\ i \in ItemIds'
      /\ \A v \in 1 .. n : versions'[i][v].by = versions[i][v].by
      /\ JobIds \subseteq JobIds' /\ orphans \subseteq orphans' /\ overtaken \subseteq overtaken'
  <2>1. i \in ItemIds' /\ versions[i] \in Seq(VersionRow)
    BY TablesAreTyped DEF Base, Step
  <2>2. versions'[i] \in Seq(VersionRow)
    BY <2>1, NextTablesAreTyped DEF Base
  <2> QED BY <1>1, <2>1, <2>2 DEF Step
<1>3. Authored(i)'
  <2>1. \A v \in 1 .. n + 1 : v \in 1 .. n \/ v = n + 1
    BY <1>1
  <2> QED BY <1>1, <1>2, <2>1 DEF Placed, Authored, User
<1>4. Once(i)'
  <2> SUFFICES ASSUME i \notin overtaken', NEW j \in JobIds', NEW v \in 2 .. n + 1,
                      versions'[i][v - 1].by = j, versions'[i][v].by = j
               PROVE  <<i, v - 1>> \in orphans'
    BY <1>1 DEF Once
  <2>1. v - 1 \in 1 .. n /\ (v \in 2 .. n \/ v = n + 1)
    BY <1>1
  <2>2. versions[i][v - 1].by = j
    BY <1>2, <2>1
  <2>3. j # User
    BY NextTablesAreTyped DEF Base, User
  <2>4. j \in JobIds
    BY <1>2, <2>1, <2>2, <2>3 DEF Placed, Authored
  <2>5. CASE v \in 2 .. n
    <3>1. versions[i][v].by = j
      BY <1>1, <1>2, <2>5
    <3> QED BY <1>1, <1>2, <2>2, <2>4, <2>5, <3>1 DEF Placed, Once
  <2>6. CASE v = n + 1
    <3>1. v - 1 = n /\ n # 0 /\ author = j
      BY <1>1, <2>6
    <3> QED BY <1>1, <1>2, <2>2, <2>4, <3>1
  <2> QED BY <2>1, <2>5, <2>6
<1> QED BY <1>3, <1>4

\* A step that adds no text and turns no item to another.
LEMMA PlacedKept ==
    ASSUME Base, Base', Placed, NEW A, Step(A),
           \A i \in ItemIds : /\ Len(versions'[i]) = Len(versions[i])
                              /\ items'[i].current = items[i].current
                              /\ \A j \in A \cap JobIds :
                                   Waits(j, i) => <<i, Written(j, i)>> \in orphans',
           \A i \in ItemIds' \ ItemIds : versions'[i] = <<>>
    PROVE  Placed'
<1>1. ASSUME NEW i \in ItemIds
      PROVE  LastPlaced(i)' /\ Authored(i)' /\ Once(i)'
  BY TextsArePlaced
<1>2. ASSUME NEW i \in ItemIds', i \notin ItemIds
      PROVE  LastPlaced(i)' /\ Authored(i)' /\ Once(i)'
  <2>1. versions'[i] = <<>>
    BY <1>2
  <2>2. Len(versions'[i]) = 0 /\ DOMAIN versions'[i] = {}
    <3>1. versions'[i] \in Seq(VersionRow)
      BY NextTablesAreTyped DEF Base
    <3>2. Len(versions'[i]) = 0
      BY <2>1, <3>1
    <3> QED BY <3>1, <3>2
  <2>3. 2 .. Len(versions'[i]) = {}
    BY <2>2
  <2> QED BY <2>2, <2>3 DEF LastPlaced, Authored, Once
<1> QED BY <1>1, <1>2 DEF Placed

LEMMA RoutesPlace ==
    ASSUME Base, Placed, Route, \A i \in ItemIds : ~Edit(i)
    PROVE  Placed'
<1>1. ASSUME NEW targets \in SUBSET Targets, Generate(targets)
      PROVE  Placed'
  <2>1. /\ Base' /\ Step({})
        /\ \A i \in ItemIds : items'[i] = items[i] /\ versions'[i] = versions[i]
        /\ \A i \in ItemIds' \ ItemIds : versions'[i] = <<>>
    BY <1>1, GenerateBase
  <2> QED BY <2>1, PlacedKept
<1>2. ASSUME NEW r \in reviews,
             \/ \E risky \in BOOLEAN : CloseReview(r[1], r[2], risky)
             \/ AbandonReview(r[1], r[2])
      PROVE  Placed'
  <2>1. /\ Base' /\ Step({}) /\ \A k \in ItemIds : Len(versions'[k]) = Len(versions[k])
    BY <1>2, ReviewBase
  <2>2. UNCHANGED items /\ ItemIds' = ItemIds
    BY <1>2 DEF CloseReview, AbandonReview, ItemIds
  <2> QED BY <2>1, <2>2, PlacedKept
<1>3. ASSUME NEW i \in ItemIds,
             Regenerate(i) \/ OpenReview(i) \/ Approve(i) \/ Reject(i) \/ Publish(i)
      PROVE  Placed'
  <2>1. Base' /\ Step({})
    BY <1>3, RegenerateBase, OpenReviewBase, ApproveBase, MoveBase
  <2>2. items \in Seq(ItemRow) /\ i \in DOMAIN items /\ items[i] \in ItemRow
    BY TablesAreTyped DEF Base, Tables, ItemIds
  <2>3. UNCHANGED versions
    BY <1>3 DEF Regenerate, OpenReview, Approve, Reject, Publish
  <2>4. PICK row : /\ items' = [items EXCEPT ![i] = row] \/ UNCHANGED items
                   /\ row.current = items[i].current
    <3>1. CASE Regenerate(i)
      BY <3>1 DEF Regenerate
    <3>2. CASE OpenReview(i) \/ Reject(i) \/ Publish(i)
      <4>1. PICK s : items' = [items EXCEPT ![i].state = s]
        BY <3>2 DEF OpenReview, Reject, Publish
      <4>2. [items[i] EXCEPT !.state = s].current = items[i].current
        BY <2>2 DEF ItemRow
      <4> QED BY <4>1, <4>2
    <3>3. CASE Approve(i)
      <4>1. [items[i] EXCEPT !.state = "approved", !.approved = items[i].current].current
              = items[i].current
        BY <2>2 DEF ItemRow
      <4>2. items' = [items EXCEPT ![i] =
              [items[i] EXCEPT !.state = "approved", !.approved = items[i].current]]
        BY <2>2, <3>3 DEF Approve
      <4> QED BY <4>1, <4>2
    <3> QED BY <1>3, <3>1, <3>2, <3>3
  <2>5. ItemIds' = ItemIds /\ \A k \in ItemIds : items'[k].current = items[k].current
    BY <2>2, <2>4 DEF ItemIds
  <2> QED BY <2>1, <2>3, <2>5, PlacedKept
<1> QED BY <1>1, <1>2, <1>3 DEF Route

LEMMA EditPlaces ==
    ASSUME Base, Placed, NEW i \in ItemIds, Edit(i)
    PROVE  Placed'
<1>1. Base' /\ Step({})
  BY EditBase
<1>2. /\ Tables /\ items \in Seq(ItemRow) /\ i \in DOMAIN items /\ items[i] \in ItemRow
      /\ versions[i] \in Seq(VersionRow)
  BY TablesAreTyped DEF Base, Tables, ItemIds
<1>3. PICK n \in Nat : n = Len(versions[i])
  BY <1>2
<1>4. /\ Len(versions'[i]) = n + 1 /\ versions'[i][n + 1].by = User
      /\ \A k \in ItemIds : k # i => versions'[k] = versions[k]
  <2>1. PICK bad \in BOOLEAN : versions' = AddVersion(versions, i, User, bad)
    BY DEF Edit
  <2>2. User \in Nat
    BY DEF User
  <2> QED BY <1>2, <1>3, <2>1, <2>2, AddedVersion
<1>5. /\ ItemIds' = ItemIds /\ \A k \in ItemIds : k # i => items'[k] = items[k]
      /\ items'[i].current = n + 1 \/ <<i, n + 1>> \in orphans'
  <2>1. CASE MayAdvance(items[i].state, DraftState(items[i], "edited"))
    <3>1. PICK row : row = RecordDraft(items[i], items[i], "edited", n + 1)
      OBVIOUS
    <3>2. row.current = n + 1
      BY <1>2, <1>3, <3>1, DraftIsRow
    <3>3. items' = [items EXCEPT ![i] = row]
      BY <1>3, <2>1, <3>1 DEF Edit
    <3> QED BY <1>2, <3>2, <3>3 DEF ItemIds
  <2>2. CASE ~MayAdvance(items[i].state, DraftState(items[i], "edited"))
    <3>1. UNCHANGED items /\ orphans' = orphans \cup {<<i, Len(versions'[i])>>}
      BY <2>2 DEF Edit
    <3> QED BY <1>4, <3>1 DEF ItemIds
  <2> QED BY <2>1, <2>2
<1>6. LastPlaced(i)'
  BY <1>4, <1>5 DEF LastPlaced
<1>7. LastPlaced(i)' /\ Authored(i)' /\ Once(i)'
  <2>1. User \in Nat /\ User \notin JobIds
    BY TablesAreTyped DEF Base, User
  <2> QED BY <1>1, <1>3, <1>4, <1>6, <2>1, NewTextIsPlaced
<1>8. ASSUME NEW k \in ItemIds, k # i
      PROVE  LastPlaced(k)' /\ Authored(k)' /\ Once(k)'
  BY <1>1, <1>4, <1>5, <1>8, TextsArePlaced
<1> QED BY <1>5, <1>7, <1>8 DEF Placed

\* The steps of a job but the writing of a version and of its row.
LEMMA JobPlaces ==
    ASSUME Base, Placed, NEW j \in JobIds, Work(j) \/ Crash(j),
           ~WriteVersion(j), ~Advance(j)
    PROVE  Placed'
<1>1. Base' /\ Step({j})
  BY WorkBase, Zenon
<1>2. UNCHANGED <<items, versions>>
  <2>1. CASE Start(j) \/ Refuse(j) \/ CallFails(j)
    BY <2>1 DEF Start, Refuse, CallFails
  <2>2. CASE Call(j)
    BY <2>2 DEF Call
  <2>3. CASE Retry(j)
    BY <2>3 DEF Retry
  <2>4. CASE Keep(j)
    BY <2>4 DEF Keep
  <2>5. CASE Settle(j)
    BY <2>5 DEF Settle
  <2>6. CASE Crash(j)
    BY <2>6 DEF Crash
  <2> QED BY <2>1, <2>2, <2>3, <2>4, <2>5, <2>6 DEF Work
<1>3. UNCHANGED <<items, versions>> /\ ItemIds' = ItemIds
  BY <1>2 DEF ItemIds
<1>4. runs[j].pc # "advance" \/ Crash(j)
  BY DEF Base, WorkFits, JobFits, Work, Start, Refuse, Call, CallFails, Keep, Settle, Retry
<1>5. ASSUME NEW i \in ItemIds, Waits(j, i)
      PROVE  <<i, Written(j, i)>> \in orphans'
  BY <1>4, <1>5 DEF Waits, Crash
<1> QED BY <1>1, <1>3, <1>5, PlacedKept

\* A job only writes where it has not written, but for what a crash left behind.
LEMMA WriteVersionPlaces ==
    ASSUME Base, Placed, NEW j \in JobIds, WriteVersion(j)
    PROVE  Placed'
<1>1. Base' /\ Step({j})
  BY WriteVersionBase
<1>2. PICK t : t = NextTarget(j)
  OBVIOUS
<1>3. PICK e : e = runs[j].entries[t]
  OBVIOUS
<1>4. PICK i : i = e.item
  OBVIOUS
<1>5. runs[j].pc = "write" /\ runs[j].todo # {}
  BY DEF WriteVersion
<1>6. /\ WorkFits(j) /\ t \in DOMAIN runs[j].entries /\ i \in ItemIds
  BY <1>2, <1>3, <1>4, <1>5, TurnIsHeld
<1>7. PICK bad \in BOOLEAN : versions' = AddVersion(versions, i, j, bad)
  <2>1. versions' = AddVersion(versions, i, j, t \in runs[j].bad)
    BY <1>2, <1>3, <1>4 DEF WriteVersion
  <2> WITNESS (t \in runs[j].bad) \in BOOLEAN
  <2> QED BY <2>1
<1>8. /\ ~WrittenByJob(j, e) /\ UNCHANGED items /\ ItemIds' = ItemIds
      /\ runs' = [runs EXCEPT ![j].pc = "advance"]
  BY <1>2, <1>3 DEF WriteVersion, ItemIds
<1>9. /\ Tables /\ j \in Nat /\ runs \in Seq(RunRow) /\ j \in DOMAIN runs /\ runs[j] \in RunRow
      /\ versions[i] \in Seq(VersionRow)
  BY <1>6, TablesAreTyped DEF Base, Tables
<1>10. PICK n \in Nat : n = Len(versions[i])
  BY <1>9
<1>11. /\ Len(versions'[i]) = n + 1 /\ versions'[i][n + 1].by = j
       /\ \A k \in ItemIds : k # i => versions'[k] = versions[k]
  BY <1>6, <1>7, <1>9, <1>10, AddedVersion
<1>12. Waits(j, i)' /\ j \in JobIds'
  <2>1. /\ runs'[j].pc = "advance" /\ runs'[j].entries = runs[j].entries
        /\ runs'[j].todo = runs[j].todo
    BY <1>8, <1>9 DEF RunRow
  <2>2. NextTarget(j)' = t
    BY <1>2, <2>1 DEF NextTarget
  <2> QED BY <1>1, <1>3, <1>4, <2>1, <2>2 DEF Waits, Step
<1>13. LastPlaced(i)'
  BY <1>11, <1>12 DEF LastPlaced
<1>14. ASSUME i \notin overtaken, n # 0, versions[i][n].by = j
       PROVE  <<i, n>> \in orphans
  <2>1. e.copy = items[i]
    BY <1>3, <1>4, <1>6, <1>14 DEF WorkFits, Fresh
  <2>2. items[i].current # n
    BY <1>4, <1>8, <1>14, <2>1 DEF WrittenByJob
  <2>3. \A k \in JobIds : Waits(k, i) => k # j
    BY <1>5 DEF Waits
  <2> QED BY <1>6, <1>10, <1>14, <2>2, <2>3 DEF Placed, LastPlaced
<1>15. LastPlaced(i)' /\ Authored(i)' /\ Once(i)'
  <2>1. i \notin overtaken' => i \notin overtaken
    BY <1>1 DEF Step
  <2> QED BY <1>1, <1>6, <1>9, <1>10, <1>11, <1>13, <1>14, <2>1, NewTextIsPlaced
<1>16. ASSUME NEW k \in ItemIds, k # i
       PROVE  LastPlaced(k)' /\ Authored(k)' /\ Once(k)'
  <2>1. ~Waits(j, k)
    BY <1>5 DEF Waits
  <2> QED BY <1>1, <1>8, <1>11, <1>16, <2>1, TextsArePlaced
<1> QED BY <1>8, <1>15, <1>16 DEF Placed

\* The row of an item shows the text just written, or the text is left behind.
LEMMA AdvancePlaces ==
    ASSUME Base, Placed, NEW j \in JobIds, Advance(j)
    PROVE  Placed'
<1>1. Base' /\ Step({j})
  BY AdvanceBase
<1>2. PICK t : t = NextTarget(j)
  OBVIOUS
<1>3. PICK e : e = runs[j].entries[t]
  OBVIOUS
<1>4. PICK v : v = Written(j, e.item)
  OBVIOUS
<1>5. PICK row : row = RecordDraft(items[e.item], e.copy, Generation(j), v)
  OBVIOUS
<1>6. PICK i : i = e.item
  OBVIOUS
<1>7. runs[j].pc = "advance" /\ UNCHANGED versions
  BY DEF Advance
<1>8. /\ runs[j].todo # {} /\ v \in Nat \ {0} /\ v <= Len(versions[i])
      /\ \A u \in DOMAIN versions[i] : versions[i][u].by = j => u <= v
      /\ i \notin overtaken => items[i].current < v
  <2>1. /\ runs[j].todo # {} /\ v \in Nat \ {0} /\ v <= Len(versions[e.item])
        /\ \A u \in DOMAIN versions[e.item] : versions[e.item][u].by = j => u <= v
        /\ e.item \notin overtaken => items[e.item].current < v
    BY <1>2, <1>3, <1>4, <1>7, TextIsWaiting, SMTT(30)
  <2> QED BY <1>6, <2>1
<1>9. i \in ItemIds /\ \A k \in ItemIds : Waits(j, k) => k = i
  BY <1>2, <1>3, <1>6, <1>7, <1>8, TurnIsHeld DEF Waits
<1>10. CASE ~MayAdvance(e.copy.state, DraftState(e.copy, Generation(j)))
  <2>1. orphans' = orphans \cup {<<i, v>>} /\ UNCHANGED items
    BY <1>2, <1>3, <1>4, <1>6, <1>10 DEF Advance
  <2>2. ItemIds' = ItemIds
    BY <2>1 DEF ItemIds
  <2> QED BY <1>1, <1>4, <1>6, <1>7, <1>9, <2>1, <2>2, PlacedKept
<1>11. CASE MayAdvance(e.copy.state, DraftState(e.copy, Generation(j)))
  <2>1. items' = [items EXCEPT ![i] = row] /\ Overtakes(i, Holders(i) \ {j})
    BY <1>2, <1>3, <1>4, <1>5, <1>6, <1>11, ZenonT(30) DEF Advance
  <2>2. row \in ItemRow /\ row.current = v
    BY <1>2, <1>3, <1>4, <1>5, <1>7, RowIsWritten
  <2>3. /\ items'[i] = row /\ \A k \in ItemIds : k # i => items'[k] = items[k]
        /\ ItemIds' = ItemIds
    <3>1. items \in Seq(ItemRow) /\ i \in DOMAIN items
      BY <1>9 DEF Base, Tables, ItemIds
    <3> QED BY <2>1, <2>2, <3>1 DEF ItemIds
  <2>4. PICK n \in Nat : n = Len(versions[i]) /\ DOMAIN versions[i] = 1 .. n
    BY <1>9, TablesAreTyped DEF Base
  <2>5. ASSUME i \notin overtaken'
        PROVE  v = n \/ <<i, n>> \in orphans'
    <3>1. i \notin overtaken /\ Holders(i) \ {j} = {}
      BY <2>1, <2>5 DEF Overtakes
    <3>2. n # 0 /\ n \in 1 .. n /\ items[i].current # n
      <4>1. items[i].current \in Nat
        BY <1>9, TablesAreTyped DEF Base, ItemRow
      <4> QED BY <1>8, <2>4, <3>1, <4>1
    <3>3. CASE <<i, n>> \in orphans
      BY <1>1, <3>3 DEF Step
    <3>4. ASSUME NEW k \in JobIds, Waits(k, i), versions[i][n].by = k
          PROVE  v = n
      <4>1. runs[k].todo # {}
        BY <3>4 DEF Waits, Base, WorkFits, RunFits
      <4>2. k \in Holders(i)
        BY <3>4, <4>1, TurnIsHeld DEF Waits
      <4>3. k = j
        BY <3>1, <4>2
      <4>4. n <= v
        BY <1>8, <2>4, <3>2, <3>4, <4>3
      <4> QED BY <1>8, <2>4, <4>4
    <3> QED BY <1>9, <2>4, <3>1, <3>2, <3>3, <3>4 DEF Placed, LastPlaced
  <2>6. LastPlaced(i)'
    BY <1>7, <2>2, <2>3, <2>4, <2>5 DEF LastPlaced
  <2>7. Authored(i)' /\ Once(i)'
    <3>1. /\ JobIds' = JobIds /\ UNCHANGED <<versions, orphans>>
          /\ overtaken \subseteq overtaken'
      BY <1>2, <1>3, <1>7, <1>11, <2>1 DEF Advance, JobIds, Overtakes
    <3> QED BY <1>9, <3>1 DEF Placed, Authored, Once
  <2>8. ASSUME NEW k \in ItemIds, k # i
        PROVE  LastPlaced(k)' /\ Authored(k)' /\ Once(k)'
    BY <1>1, <1>7, <1>9, <2>3, <2>8, TextsArePlaced
  <2> QED BY <2>3, <2>6, <2>7, <2>8 DEF Placed
<1> QED BY <1>10, <1>11

LEMMA InitPlaces == Init => Placed
<1> SUFFICES ASSUME Init PROVE Placed
  OBVIOUS
<1>1. CASE items = <<>>
  <2>1. ItemIds = {}
    BY <1>1 DEF ItemIds
  <2> QED BY <2>1 DEF Placed
<1>2. CASE items # <<>>
  <2>1. PICK row, text : /\ items = <<row>> /\ row.current = 1
                         /\ versions = <<<<text>>>> /\ text.by = User
    <3>1. PICK t \in Targets :
               /\ items = <<[NewItem(t) EXCEPT !.state = "generated", !.current = 1]>>
               /\ versions = <<<<NewVersion(User, FALSE)>>>>
      BY <1>2 DEF Init
    <3>2. [NewItem(t) EXCEPT !.state = "generated", !.current = 1].current = 1
      BY DEF NewItem
    <3>3. NewVersion(User, FALSE).by = User
      BY DEF NewVersion
    <3> QED BY <3>1, <3>2, <3>3
  <2>2. /\ ItemIds = {1} /\ items[1].current = 1
        /\ Len(versions[1]) = 1 /\ DOMAIN versions[1] = {1} /\ versions[1][1].by = User
    BY <2>1 DEF ItemIds
  <2>3. 2 .. Len(versions[1]) = {}
    BY <2>2
  <2> QED BY <2>2, <2>3 DEF Placed, LastPlaced, Authored, Once
<1> QED BY <1>1, <1>2

LEMMA PlacesAreKept ==
    ASSUME Base, Placed, [Next]_vars
    PROVE  Placed'
<1>1. CASE Route
  BY <1>1, RoutesPlace, EditPlaces
<1>2. ASSUME NEW j \in JobIds, Work(j) \/ Crash(j)
      PROVE  Placed'
  BY <1>2, JobPlaces, WriteVersionPlaces, AdvancePlaces
<1>3. CASE UNCHANGED vars
  <2>1. UNCHANGED <<items, versions>> /\ ItemIds' = ItemIds
    BY <1>3 DEF vars, ItemIds
  <2>2. Base' /\ Step({})
    BY <1>3, StutterBase
  <2> QED BY <2>1, <2>2, PlacedKept
<1> QED BY <1>1, <1>2, <1>3 DEF Next

\* Through crashes, resumptions and clicks, a job follows one of its texts with
\* another only when the first was left behind, and the rewritings of an item
\* exceed their limit only by the further executions of one job of that item.
THEOREM WritingStaysBounded == Spec => []WritingIsBounded
<1>1. Init => IInv
  BY InitBase, InitCounts, InitPlaces DEF IInv
<1>2. IInv /\ [Next]_vars => IInv'
  <2> SUFFICES ASSUME IInv, [Next]_vars PROVE IInv'
    OBVIOUS
  <2>1. Base'
    BY RouteBase, WorkBase, StutterBase DEF IInv, Next
  <2> QED BY <2>1, CountsAreKept, PlacesAreKept DEF IInv
<1>3. IInv => WritingIsBounded
  BY DEF IInv, Counted, Placed, Once, WritingIsBounded, ResumedWritesOnce
<1> QED BY <1>1, <1>2, <1>3, PTL DEF Spec

------------------------------------------------------------------------------
(* The contract of a content.                                              *)

\* A text that was never shown has never been read, and nobody is reading it.
Unread(i) ==
    i \notin overtaken =>
        \A v \in DOMAIN versions[i] : v > items[i].current =>
            versions[i][v].notes = {} /\ ~versions[i][v].risky /\ <<i, v>> \notin reviews

AllUnread == \A i \in ItemIds : Unread(i)

\* Nothing but the item i moves.
Only(i) ==
    /\ ItemIds' = ItemIds /\ overtaken \subseteq overtaken'
    /\ \A k \in ItemIds : k # i =>
         /\ items'[k] = items[k] /\ versions'[k] = versions[k]
         /\ k \in overtaken' => k \in overtaken
         /\ \A v : <<k, v>> \in reviews' => <<k, v>> \in reviews

LEMMA OnlyKeeps ==
    ASSUME AllUnread, NEW i \in ItemIds, Only(i), Unread(i)'
    PROVE  AllUnread'
<1> SUFFICES ASSUME NEW k \in ItemIds, k # i, k \notin overtaken'
             PROVE  Unread(k)'
  BY DEF AllUnread, Only, Unread
<1>1. Unread(k) /\ k \notin overtaken
  BY DEF AllUnread, Only
<1>2. /\ items'[k] = items[k] /\ versions'[k] = versions[k]
      /\ \A v : <<k, v>> \in reviews' => <<k, v>> \in reviews
  BY DEF Only
<1> QED BY <1>1, <1>2 DEF Unread

LEMMA Seen ==
    /\ DOMAIN Contents = ItemIds
    /\ \A i \in ItemIds : Contents[i] = ContentOf(i)
    /\ DOMAIN Contents' = ItemIds'
    /\ \A i \in ItemIds' : Contents'[i] = ContentOf(i)'
BY DEF Contents

LEMMA OnlyBecomes ==
    ASSUME NEW i \in ItemIds, Only(i)
    PROVE  Contract!Becomes(i, ContentOf(i)')
<1>1. ASSUME NEW k \in ItemIds, k # i
      PROVE  ContentOf(k)' = ContentOf(k)
  <2>1. /\ items'[k] = items[k] /\ versions'[k] = versions[k]
        /\ k \in overtaken' <=> k \in overtaken
    BY <1>1 DEF Only
  <2> QED BY <2>1 DEF ContentOf
<1>2. ItemIds' = ItemIds
  BY DEF Only
<1>3. Contents' = [k \in ItemIds |-> ContentOf(k)']
  BY <1>2 DEF Contents
<1>4. [Contents EXCEPT ![i] = ContentOf(i)'] =
        [k \in ItemIds |-> IF k = i THEN ContentOf(i)' ELSE ContentOf(k)]
  BY Seen DEF Contents
<1> QED BY <1>1, <1>3, <1>4 DEF Contract!Becomes

\* An item that was overtaken owes nothing, and one that reads the same is the
\* same to whoever looks at it.
LEMMA OnlyRaced ==
    ASSUME NEW i \in ItemIds, Only(i), i \in overtaken'
    PROVE  Contract!Next /\ Unread(i)'
<1>1. Contract!Becomes(i, ContentOf(i)')
  BY OnlyBecomes
<1>2. i \in ItemIds' /\ Contents'[i] = ContentOf(i)'
  BY Seen DEF Only
<1>3. ContentOf(i)'.stage = "raced"
  BY DEF ContentOf
<1>4. Contract!Race(i)
  BY <1>1, <1>2, <1>3 DEF Contract!Race
<1> QED BY <1>4, Seen DEF Contract!Next, Unread

LEMMA OnlyStays ==
    ASSUME NEW i \in ItemIds, Only(i), ContentOf(i)' = ContentOf(i)
    PROVE  Contents' = Contents
<1>1. Contract!Becomes(i, ContentOf(i))
  BY OnlyBecomes
<1> QED BY <1>1, Seen DEF Contract!Becomes, Contents

\* A content, by its fields.
As(stage, shown, approved, read, risky) ==
    [stage |-> stage, shown |-> shown, approved |-> approved, read |-> read, risky |-> risky]

ReadOf(i) == {v \in DOMAIN versions[i] : Reviewers \subseteq versions[i][v].notes}
RiskyOf(i) == {v \in DOMAIN versions[i] : versions[i][v].risky}

LEMMA ContentIs ==
    ASSUME NEW i
    PROVE  /\ i \notin overtaken =>
                ContentOf(i) = As(Stage(items[i].state), items[i].current, items[i].approved,
                                  ReadOf(i), RiskyOf(i))
           /\ i \notin overtaken' =>
                ContentOf(i)' = As(Stage(items'[i].state), items'[i].current,
                                   items'[i].approved, ReadOf(i)', RiskyOf(i)')
           /\ versions'[i] = versions[i] => ReadOf(i)' = ReadOf(i) /\ RiskyOf(i)' = RiskyOf(i)
<1>1. i \notin overtaken =>
        ContentOf(i) = As(Stage(items[i].state), items[i].current, items[i].approved,
                          ReadOf(i), RiskyOf(i))
  BY DEF ContentOf, As, ReadOf, RiskyOf
<1>2. i \notin overtaken' =>
        ContentOf(i)' = As(Stage(items'[i].state), items'[i].current,
                           items'[i].approved, ReadOf(i)', RiskyOf(i)')
  BY DEF ContentOf, As, ReadOf, RiskyOf, Stage
<1>3. versions'[i] = versions[i] => ReadOf(i)' = ReadOf(i) /\ RiskyOf(i)' = RiskyOf(i)
  BY DEF ReadOf, RiskyOf
<1> QED BY <1>1, <1>2, <1>3

\* The state alone is written, over versions that stay.
LEMMA MovedIs ==
    ASSUME NEW i \in ItemIds, i \notin overtaken, i \notin overtaken',
           items'[i].current = items[i].current, versions'[i] = versions[i]
    PROVE  /\ ContentOf(i) = As(Stage(items[i].state), items[i].current, items[i].approved,
                                ReadOf(i), RiskyOf(i))
           /\ ContentOf(i)' = As(Stage(items'[i].state), items[i].current, items'[i].approved,
                                 ReadOf(i), RiskyOf(i))
BY ContentIs

\* The row of an item is written, over versions that stay.
LEMMA RowMoves ==
    ASSUME Base, AllUnread, NEW i \in ItemIds, NEW row \in ItemRow, NEW others,
           items' = [items EXCEPT ![i] = row], row.current = items[i].current,
           versions' = versions, Overtakes(i, others),
           reviews' \subseteq reviews \cup {<<i, items[i].current>>}
    PROVE  Only(i) /\ AllUnread' /\ items'[i] = row
<1>1. /\ Tables /\ items \in Seq(ItemRow) /\ versions[i] \in Seq(VersionRow)
      /\ items[i] \in ItemRow
  BY TablesAreTyped DEF Base, Tables
<1>2. /\ items' \in Seq(ItemRow) /\ Len(items') = Len(items) /\ items'[i] = row
      /\ \A k \in DOMAIN items : k # i => items'[k] = items[k]
  BY <1>1, Replaced DEF ItemIds
<1>3. ItemIds' = ItemIds
  BY <1>1, <1>2 DEF ItemIds
<1>4. /\ overtaken \subseteq overtaken'
      /\ \A k \in ItemIds : k # i /\ k \notin overtaken => k \notin overtaken'
  BY <1>1, OvertakesMarks
<1>5. ASSUME NEW k \in ItemIds, k # i, NEW v, <<k, v>> \in reviews'
      PROVE  <<k, v>> \in reviews
  BY <1>5
<1>6. Only(i)
  BY <1>2, <1>3, <1>4, <1>5 DEF Only, ItemIds
<1>7. Unread(i)'
  <2> SUFFICES ASSUME i \notin overtaken', NEW v \in DOMAIN versions[i], v > items[i].current
               PROVE  versions[i][v].notes = {} /\ ~versions[i][v].risky /\ <<i, v>> \notin reviews'
    BY <1>2 DEF Unread
  <2>1. versions[i][v].notes = {} /\ ~versions[i][v].risky /\ <<i, v>> \notin reviews
    BY <1>4 DEF AllUnread, Unread
  <2>2. v # items[i].current
    BY <1>1 DEF ItemRow
  <2> QED BY <2>1, <2>2
<1> QED BY <1>2, <1>6, <1>7, OnlyKeeps

\* An approval is of the text shown, which both controls have read.
LEMMA ApproveIsContract ==
    ASSUME Base, AllUnread, NEW i \in ItemIds, Approve(i)
    PROVE  AllUnread' /\ (Contract!Next \/ Contents' = Contents)
<1> DEFINE row == [items[i] EXCEPT !.state = "approved", !.approved = items[i].current]
<1>1. /\ Tables /\ items[i] \in ItemRow /\ ItemFits(i) /\ versions[i] \in Seq(VersionRow)
  BY TablesAreTyped DEF Base
<1>2. /\ row \in ItemRow /\ row.current = items[i].current
      /\ row.state = "approved" /\ row.approved = items[i].current
  BY <1>1 DEF ItemRow, ContentState
<1>3. /\ items' = [items EXCEPT ![i] = row] /\ versions' = versions /\ reviews' = reviews
      /\ Overtakes(i, Holders(i)) /\ MayMove(items[i].state, "approved")
      /\ Approvable(items[i], versions[i])
  BY <1>1 DEF Approve, Tables, ItemIds
<1> HIDE DEF row
<1>4. Only(i) /\ AllUnread' /\ items'[i] = row
  BY <1>2, <1>3, RowMoves
<1>5. CASE i \in overtaken'
  BY <1>4, <1>5, OnlyRaced
<1>6. CASE i \notin overtaken'
  <2>1. i \notin overtaken
    BY <1>4, <1>6 DEF Only
  <2>2. PICK c : c = ContentOf(i)
    OBVIOUS
  <2>3. PICK d : d = ContentOf(i)'
    OBVIOUS
  <2>4. /\ c = As(Stage(items[i].state), items[i].current, items[i].approved,
                ReadOf(i), RiskyOf(i))
        /\ d = As(Stage(row.state), items[i].current, row.approved, ReadOf(i), RiskyOf(i))
    BY <1>2, <1>3, <1>4, <1>6, <2>1, <2>2, <2>3, MovedIs
  <2>5. Contract!Becomes(i, d) /\ (d = c => Contents' = Contents)
    BY <1>4, <2>2, <2>3, OnlyBecomes, OnlyStays, ZenonT(30)
  <2>6. Contents[i] = c /\ DOMAIN Contents = ItemIds
    BY <2>2, Seen
  <2>7. /\ items[i].current # 0 /\ items[i].current \in DOMAIN versions[i]
        /\ items[i].current \in ReadOf(i) \ RiskyOf(i)
    BY <1>1, <1>3 DEF Approvable, ItemFits, RowFits, ReadOf, RiskyOf
  <2>8. CASE items[i].state = "approved"
    <3>1. items[i].approved = items[i].current
      BY <1>1, <2>1, <2>8 DEF ItemFits, Shown
    <3> QED BY <1>2, <1>4, <2>4, <2>5, <2>8, <3>1
  <2>9. CASE items[i].state # "approved"
    <3>1. items[i].state \notin {"archived", "published"}
      BY <1>3 DEF MayMove, Transitions
    <3>2. Stage(items[i].state) = "open" /\ Stage(row.state) = "approved"
      BY <1>2, <2>9, <3>1 DEF Stage
    <3>3. c.stage = "open" /\ c.shown \in c.read \ c.risky
      BY <2>4, <2>7, <3>2 DEF As
    <3>4. d = [c EXCEPT !.stage = "approved", !.approved = c.shown]
      <4>1. PICK m : m = [c EXCEPT !.stage = "approved"]
        OBVIOUS
      <4>2. /\ c.shown = items[i].current
            /\ m = As("approved", items[i].current, items[i].approved, ReadOf(i), RiskyOf(i))
        BY <2>4, <4>1 DEF As
      <4>3. d = [m EXCEPT !.approved = c.shown]
        BY <1>2, <2>4, <3>2, <4>2 DEF As
      <4> QED BY <4>1, <4>3, Zenon
    <3>5. Contract!Approve(i)
      BY <2>5, <2>6, <3>3, <3>4 DEF Contract!Approve
    <3> QED BY <1>4, <2>6, <3>5 DEF Contract!Next
  <2> QED BY <1>4, <2>8, <2>9
<1> QED BY <1>4, <1>5, <1>6

LEMMA OpenReviewIsContract ==
    ASSUME Base, AllUnread, NEW i \in ItemIds, OpenReview(i)
    PROVE  AllUnread' /\ (Contract!Next \/ Contents' = Contents)
<1> DEFINE row == [items[i] EXCEPT !.state = "in_review"]
<1>1. /\ Tables /\ items[i] \in ItemRow /\ ItemFits(i) /\ versions[i] \in Seq(VersionRow)
  BY TablesAreTyped DEF Base
<1>2. /\ row \in ItemRow /\ row.current = items[i].current
      /\ row.state = "in_review" /\ row.approved = items[i].approved
  BY <1>1 DEF ItemRow, ContentState
<1> DEFINE others == IF items[i].state = "in_review" THEN {} ELSE Holders(i)
<1>3. /\ items' = [items EXCEPT ![i] = row] /\ versions' = versions
      /\ reviews' \subseteq reviews \cup {<<i, items[i].current>>}
      /\ Overtakes(i, others) /\ MayMove(items[i].state, "in_review")
  BY DEF OpenReview
<1> HIDE DEF others
<1> HIDE DEF row
<1>4. Only(i) /\ AllUnread' /\ items'[i] = row
  BY <1>2, <1>3, RowMoves
<1>5. CASE i \in overtaken'
  BY <1>4, <1>5, OnlyRaced
<1>6. CASE i \notin overtaken'
  <2>1. i \notin overtaken
    BY <1>4, <1>6 DEF Only
  <2>2. PICK c : c = ContentOf(i)
    OBVIOUS
  <2>3. PICK d : d = ContentOf(i)'
    OBVIOUS
  <2>4. /\ c = As(Stage(items[i].state), items[i].current, items[i].approved,
                ReadOf(i), RiskyOf(i))
        /\ d = As(Stage(row.state), items[i].current, row.approved, ReadOf(i), RiskyOf(i))
    BY <1>2, <1>3, <1>4, <1>6, <2>1, <2>2, <2>3, MovedIs
  <2>5. Contract!Becomes(i, d) /\ (d = c => Contents' = Contents)
    BY <1>4, <2>2, <2>3, OnlyBecomes, OnlyStays, ZenonT(30)
  <2>6. Contents[i] = c /\ DOMAIN Contents = ItemIds
    BY <2>2, Seen
  <2>7. Stage(row.state) = "open"
    BY <1>2 DEF Stage
  <2>8. CASE items[i].state = "approved"
    <3>1. c.stage = "approved" /\ d = [c EXCEPT !.stage = "open"]
      BY <1>2, <2>4, <2>7, <2>8 DEF Stage, As
    <3>2. Contract!Reopen(i)
      BY <2>5, <2>6, <3>1 DEF Contract!Reopen
    <3> QED BY <1>4, <2>6, <3>2 DEF Contract!Next
  <2>9. CASE items[i].state # "approved"
    <3>1. items[i].state \notin {"archived", "published"}
      BY <1>3 DEF MayMove, Transitions
    <3>2. Stage(items[i].state) = "open"
      BY <2>9, <3>1 DEF Stage
    <3> QED BY <1>2, <1>4, <2>4, <2>5, <2>7, <3>2
  <2> QED BY <1>4, <2>8, <2>9
<1> QED BY <1>4, <1>5, <1>6

LEMMA RejectIsContract ==
    ASSUME Base, AllUnread, NEW i \in ItemIds, Reject(i)
    PROVE  AllUnread' /\ (Contract!Next \/ Contents' = Contents)
<1> DEFINE row == [items[i] EXCEPT !.state = "archived"]
<1>1. /\ Tables /\ items[i] \in ItemRow /\ ItemFits(i) /\ versions[i] \in Seq(VersionRow)
  BY TablesAreTyped DEF Base
<1>2. /\ row \in ItemRow /\ row.current = items[i].current
      /\ row.state = "archived" /\ row.approved = items[i].approved
  BY <1>1 DEF ItemRow, ContentState
<1>3. /\ items' = [items EXCEPT ![i] = row] /\ versions' = versions /\ reviews' = reviews
      /\ Overtakes(i, Holders(i))
  BY DEF Reject
<1> HIDE DEF row
<1>4. Only(i) /\ AllUnread' /\ items'[i] = row
  BY <1>2, <1>3, RowMoves
<1>5. CASE i \in overtaken'
  BY <1>4, <1>5, OnlyRaced
<1>6. CASE i \notin overtaken'
  <2>1. i \notin overtaken
    BY <1>4, <1>6 DEF Only
  <2>2. PICK c : c = ContentOf(i)
    OBVIOUS
  <2>3. PICK d : d = ContentOf(i)'
    OBVIOUS
  <2>4. /\ c = As(Stage(items[i].state), items[i].current, items[i].approved,
                ReadOf(i), RiskyOf(i))
        /\ d = As(Stage(row.state), items[i].current, row.approved, ReadOf(i), RiskyOf(i))
    BY <1>2, <1>3, <1>4, <1>6, <2>1, <2>2, <2>3, MovedIs
  <2>5. Contract!Becomes(i, d) /\ (d = c => Contents' = Contents)
    BY <1>4, <2>2, <2>3, OnlyBecomes, OnlyStays, ZenonT(30)
  <2>6. Contents[i] = c /\ DOMAIN Contents = ItemIds
    BY <2>2, Seen
  <2>7. Stage(row.state) = "archived"
    BY <1>2 DEF Stage
  <2>8. CASE items[i].state = "archived"
    BY <1>2, <1>4, <2>4, <2>5, <2>7, <2>8
  <2>9. CASE items[i].state # "archived"
    <3>1. Stage(items[i].state) \in {"open", "approved", "published"}
      BY <2>9 DEF Stage
    <3>2. c.stage \in {"open", "approved", "published"} /\ d = [c EXCEPT !.stage = "archived"]
      BY <1>2, <2>4, <2>7, <3>1 DEF As
    <3>3. Contract!Archive(i)
      BY <2>5, <2>6, <3>2 DEF Contract!Archive
    <3> QED BY <1>4, <2>6, <3>3 DEF Contract!Next
  <2> QED BY <1>4, <2>8, <2>9
<1> QED BY <1>4, <1>5, <1>6

\* What is published is what was approved and is shown.
LEMMA PublishIsContract ==
    ASSUME Base, AllUnread, NEW i \in ItemIds, Publish(i)
    PROVE  AllUnread' /\ (Contract!Next \/ Contents' = Contents)
<1> DEFINE row == [items[i] EXCEPT !.state = "published"]
<1>1. /\ Tables /\ items[i] \in ItemRow /\ ItemFits(i) /\ versions[i] \in Seq(VersionRow)
  BY TablesAreTyped DEF Base
<1>2. /\ row \in ItemRow /\ row.current = items[i].current
      /\ row.state = "published" /\ row.approved = items[i].approved
  BY <1>1 DEF ItemRow, ContentState
<1>3. /\ items' = [items EXCEPT ![i] = row] /\ versions' = versions /\ reviews' = reviews
      /\ Overtakes(i, Holders(i)) /\ items[i].state = "approved"
  BY DEF Publish
<1> HIDE DEF row
<1>4. Only(i) /\ AllUnread' /\ items'[i] = row
  BY <1>2, <1>3, RowMoves
<1>5. CASE i \in overtaken'
  BY <1>4, <1>5, OnlyRaced
<1>6. CASE i \notin overtaken'
  <2>1. i \notin overtaken
    BY <1>4, <1>6 DEF Only
  <2>2. PICK c : c = ContentOf(i)
    OBVIOUS
  <2>3. PICK d : d = ContentOf(i)'
    OBVIOUS
  <2>4. /\ c = As(Stage(items[i].state), items[i].current, items[i].approved,
                ReadOf(i), RiskyOf(i))
        /\ d = As(Stage(row.state), items[i].current, row.approved, ReadOf(i), RiskyOf(i))
    BY <1>2, <1>3, <1>4, <1>6, <2>1, <2>2, <2>3, MovedIs
  <2>5. Contract!Becomes(i, d) /\ (d = c => Contents' = Contents)
    BY <1>4, <2>2, <2>3, OnlyBecomes, OnlyStays, ZenonT(30)
  <2>6. Contents[i] = c /\ DOMAIN Contents = ItemIds
    BY <2>2, Seen
  <2>7. /\ items[i].approved # 0 /\ items[i].approved = items[i].current
        /\ items[i].approved \in ReadOf(i)
    BY <1>1, <1>3, <2>1 DEF ItemFits, RowFits, Shown, ReadOf
  <2>8. Stage(items[i].state) = "approved" /\ Stage(row.state) = "published"
    BY <1>2, <1>3 DEF Stage
  <2>9. /\ c.stage = "approved" /\ c.approved = c.shown /\ c.shown \in c.read
        /\ d = [c EXCEPT !.stage = "published"]
    BY <1>2, <2>4, <2>7, <2>8 DEF As
  <2>10. Contract!Publish(i)
    BY <2>5, <2>6, <2>9 DEF Contract!Publish
  <2> QED BY <1>4, <2>6, <2>10 DEF Contract!Next
<1> QED BY <1>4, <1>5, <1>6


\* A text added at the end changes nothing of what was read.
LEMMA AddedIsUnread ==
    ASSUME Base, AllUnread, NEW i \in ItemIds, NEW author \in Nat, NEW bad \in BOOLEAN,
           versions' = AddVersion(versions, i, author, bad)
    PROVE  /\ ReadOf(i)' = ReadOf(i) /\ RiskyOf(i)' = RiskyOf(i)
           /\ versions'[i] \in Seq(VersionRow) /\ Len(versions[i]) \in Nat
           /\ Len(versions'[i]) = Len(versions[i]) + 1
           /\ \A k \in ItemIds : k # i => versions'[k] = versions[k]
           /\ Len(versions[i]) + 1 \notin ReadOf(i)
           /\ reviews' = reviews => \A v \in DOMAIN versions'[i] :
                (\/ v \in DOMAIN versions[i] /\ versions'[i][v] = versions[i][v]
                 \/ /\ v = Len(versions[i]) + 1 /\ versions'[i][v].notes = {}
                    /\ ~versions'[i][v].risky /\ <<i, v>> \notin reviews')
<1>1. /\ Tables /\ versions[i] \in Seq(VersionRow) /\ Len(versions[i]) \in Nat
  BY TablesAreTyped DEF Base
<1> DEFINE n == Len(versions[i]) + 1
<1>2. /\ \A k \in ItemIds : k # i => versions'[k] = versions[k]
      /\ Len(versions'[i]) = n
      /\ \A v \in DOMAIN versions[i] : versions'[i][v] = versions[i][v]
      /\ versions' \in Seq(Seq(VersionRow)) /\ Len(versions') = Len(versions)
  BY <1>1, AddedVersion
<1>3. versions'[i] = Append(versions[i], NewVersion(author, bad))
  BY <1>1, TablesAreTyped DEF AddVersion
<1>4. versions'[i][n].notes = {} /\ versions'[i][n].risky = FALSE
  <2>1. versions'[i][n] = NewVersion(author, bad)
    BY <1>1, <1>3, VersionIsRow, Appended
  <2> QED BY <2>1 DEF NewVersion
<1>5. versions'[i] \in Seq(VersionRow)
  BY <1>1, <1>2, TablesAreTyped DEF Tables, ItemIds
<1>6. DOMAIN versions[i] = 1 .. Len(versions[i]) /\ DOMAIN versions'[i] = 1 .. n
  BY <1>1, <1>2, <1>5
<1>7. /\ n \notin DOMAIN versions[i]
      /\ \A v \in DOMAIN versions'[i] : v \in DOMAIN versions[i] \/ v = n
      /\ \A v \in DOMAIN versions[i] : v \in DOMAIN versions'[i]
  BY <1>1, <1>6
<1>8. <<i, n>> \notin reviews
  BY <1>1, <1>7 DEF Tables
<1>9. \E a \in Reviewers : a \notin {}
  BY DEF Reviewers
<1> HIDE DEF n
<1>10. ReadOf(i)' = ReadOf(i)
  BY <1>2, <1>4, <1>7, <1>9 DEF ReadOf, Reviewers
<1>11. RiskyOf(i)' = RiskyOf(i)
  BY <1>2, <1>4, <1>7 DEF RiskyOf
<1>12. n \notin ReadOf(i)
  BY <1>7 DEF ReadOf
<1> QED BY <1>1, <1>2, <1>4, <1>5, <1>7, <1>8, <1>10, <1>11, <1>12 DEF n

\* The row of an item is left alone, and a text waits at its end.
LEMMA AddedKeepsUnread ==
    ASSUME Base, AllUnread, NEW i \in ItemIds, NEW author \in Nat, NEW bad \in BOOLEAN,
           versions' = AddVersion(versions, i, author, bad),
           UNCHANGED <<items, reviews, overtaken>>
    PROVE  AllUnread' /\ Contents' = Contents
<1>1. /\ ReadOf(i)' = ReadOf(i) /\ RiskyOf(i)' = RiskyOf(i)
      /\ \A k \in ItemIds : k # i => versions'[k] = versions[k]
      /\ \A v \in DOMAIN versions'[i] :
           (\/ v \in DOMAIN versions[i] /\ versions'[i][v] = versions[i][v]
            \/ /\ v = Len(versions[i]) + 1 /\ versions'[i][v].notes = {}
               /\ ~versions'[i][v].risky /\ <<i, v>> \notin reviews')
  BY AddedIsUnread
<1>2. Only(i)
  BY <1>1 DEF Only, ItemIds
<1>3. Unread(i)'
  BY <1>1 DEF AllUnread, Unread
<1>4. ContentOf(i)' = ContentOf(i)
  BY <1>1 DEF ContentOf, ReadOf, RiskyOf
<1> QED BY <1>2, <1>3, <1>4, OnlyKeeps, OnlyStays

\* Another text is shown: later than the one before, and read by nobody.
LEMMA ShownIsContract ==
    ASSUME NEW i \in ItemIds, Only(i), AllUnread',
           i \notin overtaken' =>
             /\ items[i].state \notin {"archived", "published"}
             /\ items'[i].state \in {"generated", "in_review"} /\ items'[i].approved = 0
             /\ items'[i].current > items[i].current /\ items'[i].current \notin ReadOf(i)
             /\ ReadOf(i)' = ReadOf(i) /\ RiskyOf(i)' = RiskyOf(i)
    PROVE  Contract!Next
<1>1. CASE i \in overtaken'
  BY <1>1, OnlyRaced
<1>2. CASE i \notin overtaken'
  <2>1. i \notin overtaken
    BY <1>2 DEF Only
  <2>2. PICK c : c = ContentOf(i)
    OBVIOUS
  <2>3. PICK d : d = ContentOf(i)'
    OBVIOUS
  <2>4. PICK n : n = items'[i].current
    OBVIOUS
  <2>5. Stage(items[i].state) \in {"open", "approved"} /\ Stage(items'[i].state) = "open"
    BY <1>2 DEF Stage
  <2>6. /\ c = As(Stage(items[i].state), items[i].current, items[i].approved,
                  ReadOf(i), RiskyOf(i))
        /\ d = As("open", n, 0, ReadOf(i), RiskyOf(i))
    BY <1>2, <2>1, <2>2, <2>3, <2>4, <2>5, ContentIs
  <2>7. /\ c.stage \in {"open", "approved"} /\ d.shown > c.shown /\ d.shown \notin c.read
    BY <1>2, <2>4, <2>5, <2>6 DEF As
  <2>8. d = [c EXCEPT !.stage = "open", !.approved = 0, !.shown = d.shown]
    <3>1. PICK m : m = [c EXCEPT !.stage = "open"]
      OBVIOUS
    <3>2. PICK p : p = [m EXCEPT !.approved = 0]
      OBVIOUS
    <3>3. m = As("open", items[i].current, items[i].approved, ReadOf(i), RiskyOf(i))
      BY <2>6, <3>1 DEF As
    <3>4. p = As("open", items[i].current, 0, ReadOf(i), RiskyOf(i))
      BY <3>2, <3>3 DEF As
    <3>5. d = [p EXCEPT !.shown = d.shown]
      BY <2>6, <3>4 DEF As
    <3> QED BY <3>1, <3>2, <3>5, Zenon
  <2>9. Contract!Becomes(i, d)
    BY <2>3, OnlyBecomes, Zenon
  <2>10. Contents[i] = c /\ Contents'[i] = d /\ i \in DOMAIN Contents
    BY <2>2, <2>3, Seen DEF Only
  <2>11. Contract!Write(i)
    BY <2>7, <2>8, <2>9, <2>10 DEF Contract!Write
  <2> QED BY <2>10, <2>11 DEF Contract!Next
<1> QED BY <1>1, <1>2

LEMMA EditIsContract ==
    ASSUME Base, AllUnread, NEW i \in ItemIds, Edit(i)
    PROVE  AllUnread' /\ (Contract!Next \/ Contents' = Contents)
<1> DEFINE n == Len(versions[i]) + 1
           row == RecordDraft(items[i], items[i], "edited", n)
<1>1. /\ Tables /\ items[i] \in ItemRow /\ ItemFits(i) /\ User \in Nat /\ items \in Seq(ItemRow)
  BY TablesAreTyped DEF Base, Tables, User
<1>2. PICK bad \in BOOLEAN : versions' = AddVersion(versions, i, User, bad)
  BY DEF Edit
<1>3. CASE ~MayAdvance(items[i].state, DraftState(items[i], "edited"))
  <2>1. UNCHANGED <<items, reviews, overtaken>>
    BY <1>3 DEF Edit
  <2> QED BY <1>1, <1>2, <2>1, AddedKeepsUnread
<1>4. CASE MayAdvance(items[i].state, DraftState(items[i], "edited"))
  <2>1. /\ items' = [items EXCEPT ![i] = row] /\ Overtakes(i, Holders(i)) /\ reviews' = reviews
    BY <1>4 DEF Edit
  <2>2. /\ ReadOf(i)' = ReadOf(i) /\ RiskyOf(i)' = RiskyOf(i)
        /\ versions'[i] \in Seq(VersionRow) /\ Len(versions[i]) \in Nat
        /\ \A k \in ItemIds : k # i => versions'[k] = versions[k]
        /\ n \notin ReadOf(i) /\ Len(versions'[i]) = n
    BY <1>1, <1>2, AddedIsUnread
  <2>3. n \in Nat /\ items[i].current \in Nat /\ items[i].current < n
    BY <1>1, <2>2 DEF ItemFits, RowFits
  <2>4. /\ row \in ItemRow /\ row.current = n /\ row.approved = 0
        /\ row.state \in {"generated", "in_review"}
    BY <1>1, <2>3, DraftIsNew
  <2>5. items[i].state \notin {"archived", "published"}
    BY <1>4, DraftLeadsTo
  <2> HIDE DEF row, n
  <2>6. /\ items' \in Seq(ItemRow) /\ Len(items') = Len(items) /\ items'[i] = row
        /\ \A k \in DOMAIN items : k # i => items'[k] = items[k]
    BY <1>1, <2>1, <2>4, Replaced DEF ItemIds
  <2>7. /\ overtaken \subseteq overtaken'
        /\ \A k \in ItemIds : k # i /\ k \notin overtaken => k \notin overtaken'
    BY <1>1, <2>1, OvertakesMarks
  <2>8. Only(i)
    BY <1>1, <2>1, <2>2, <2>6, <2>7 DEF Only, ItemIds
  <2>9. Unread(i)'
    <3>1. \A v \in DOMAIN versions'[i] : ~(v > n)
      BY <2>2, <2>3
    <3> QED BY <2>4, <2>6, <3>1 DEF Unread
  <2>10. AllUnread'
    BY <2>8, <2>9, OnlyKeeps
  <2>11. Contract!Next
    BY <2>2, <2>3, <2>4, <2>5, <2>6, <2>8, <2>10, ShownIsContract
  <2> QED BY <2>10, <2>11
<1> QED BY <1>3, <1>4

\* What the humans see is left alone.
LEMMA StillIsContract ==
    ASSUME AllUnread, UNCHANGED <<items, versions, overtaken>>, reviews' \subseteq reviews
    PROVE  AllUnread' /\ Contents' = Contents
<1>1. ItemIds' = ItemIds
  BY DEF ItemIds
<1>2. AllUnread'
  BY <1>1 DEF AllUnread, Unread
<1>3. \A i \in ItemIds : ContentOf(i)' = ContentOf(i)
  BY DEF ContentOf
<1> QED BY <1>1, <1>2, <1>3 DEF Contents

\* The row a run writes, where nobody came between its reading and its writing,
\* shows a text that nobody has read.
LEMMA AdvanceIsContract ==
    ASSUME Base, AllUnread, NEW j \in JobIds, Advance(j)
    PROVE  AllUnread' /\ (Contract!Next \/ Contents' = Contents)
<1>1. PICK t : t = NextTarget(j)
  OBVIOUS
<1>2. PICK e : e = runs[j].entries[t]
  OBVIOUS
<1>3. PICK v : v = Written(j, e.item)
  OBVIOUS
<1>4. PICK row : row = RecordDraft(items[e.item], e.copy, Generation(j), v)
  OBVIOUS
<1>5. PICK i : i = e.item
  OBVIOUS
<1>6. /\ runs[j].pc = "advance" /\ UNCHANGED <<versions, reviews>>
  BY DEF Advance
<1>7. /\ runs[j].todo # {} /\ v \in DOMAIN versions[i] /\ v \in Nat
      /\ i \notin overtaken => items[i].current < v /\ e.copy = items[i]
  BY <1>1, <1>2, <1>3, <1>5, <1>6, TextIsWaiting
<1>8. i \in ItemIds
  BY <1>1, <1>2, <1>5, <1>6, <1>7, TurnIsHeld
<1>9. CASE ~MayAdvance(e.copy.state, DraftState(e.copy, Generation(j)))
  <2>1. UNCHANGED <<items, overtaken>>
    BY <1>1, <1>2, <1>3, <1>5, <1>9 DEF Advance
  <2> QED BY <1>6, <2>1, StillIsContract
<1>10. CASE MayAdvance(e.copy.state, DraftState(e.copy, Generation(j)))
  <2>1. items' = [items EXCEPT ![i] = row] /\ Overtakes(i, Holders(i) \ {j})
    BY <1>1, <1>2, <1>3, <1>4, <1>5, <1>10, ZenonT(30) DEF Advance
  <2>2. /\ row \in ItemRow /\ row.current = v
        /\ i \notin overtaken => row.approved = 0 /\ row.state \in {"generated", "in_review"}
    BY <1>1, <1>2, <1>3, <1>4, <1>5, <1>6, RowIsWritten, SMTT(30)
  <2>3. PICK g : g = Generation(j)
    OBVIOUS
  <2>4. i \notin overtaken => items[i].state \notin {"archived", "published"}
    <3>1. MayAdvance(e.copy.state, DraftState(e.copy, g))
      BY <1>10, <2>3
    <3>2. e.copy.state \notin {"archived", "published"}
      BY <3>1, DraftLeadsTo
    <3> QED BY <1>7, <3>2
  <2>5. /\ Tables /\ items \in Seq(ItemRow) /\ i \in DOMAIN items
    BY <1>8 DEF Base, Tables, ItemIds
  <2>6. /\ items' \in Seq(ItemRow) /\ Len(items') = Len(items) /\ items'[i] = row
        /\ \A k \in DOMAIN items : k # i => items'[k] = items[k]
    BY <2>1, <2>2, <2>5, Replaced
  <2>7. /\ overtaken \subseteq overtaken'
        /\ \A k \in ItemIds : k # i /\ k \notin overtaken => k \notin overtaken'
    BY <1>8, <2>1, <2>5, OvertakesMarks
  <2>8. ItemIds' = ItemIds
    BY <2>5, <2>6 DEF ItemIds
  <2>9. Only(i)
    BY <1>6, <2>6, <2>7, <2>8 DEF Only, ItemIds
  <2>10. i \notin overtaken =>
           /\ items[i].current \in Nat
           /\ \A u \in DOMAIN versions[i] : u > items[i].current =>
                versions[i][u].notes = {} /\ ~versions[i][u].risky /\ <<i, u>> \notin reviews
    BY <1>8, TablesAreTyped DEF AllUnread, Unread, Base, ItemRow
  <2>11. \A u \in DOMAIN versions[i] : u \in Nat
    BY <1>8, TablesAreTyped DEF Base
  <2>12. Unread(i)'
    <3> SUFFICES ASSUME i \notin overtaken, NEW u \in DOMAIN versions[i], u > v
                 PROVE  versions[i][u].notes = {} /\ ~versions[i][u].risky /\ <<i, u>> \notin reviews
      BY <1>6, <2>2, <2>6, <2>7 DEF Unread
    <3> QED BY <1>7, <2>10, <2>11
  <2>13. AllUnread'
    BY <1>8, <2>9, <2>12, OnlyKeeps
  <2>14. i \notin overtaken => v \notin ReadOf(i)
    BY <1>7, <2>10 DEF ReadOf, Reviewers
  <2>15. ReadOf(i)' = ReadOf(i) /\ RiskyOf(i)' = RiskyOf(i)
    BY <1>6 DEF ReadOf, RiskyOf
  <2>16. i \notin overtaken' => i \notin overtaken
    BY <2>7
  <2>17. Contract!Next
    BY <1>7, <1>8, <2>2, <2>4, <2>6, <2>9, <2>10, <2>13, <2>14, <2>15, <2>16, ShownIsContract
  <2> QED BY <2>13, <2>17
<1> QED BY <1>9, <1>10

\* Both agents have read a text: one that is or was shown, unless the item was
\* overtaken.
LEMMA CloseReviewIsContract ==
    ASSUME Base, AllUnread, NEW i, NEW v, NEW risky \in BOOLEAN, CloseReview(i, v, risky)
    PROVE  AllUnread' /\ (Contract!Next \/ Contents' = Contents)
<1> DEFINE noted == Noted(versions[i][v], risky)
           new == [versions[i] EXCEPT ![v] = noted]
<1>1. /\ <<i, v>> \in reviews /\ reviews' = reviews \ {<<i, v>>}
      /\ versions' = [versions EXCEPT ![i] = new] /\ UNCHANGED <<items, overtaken>>
  BY DEF CloseReview
<1>2. /\ Tables /\ i \in ItemIds /\ v \in DOMAIN versions[i]
      /\ versions[i] \in Seq(VersionRow) /\ versions \in Seq(Seq(VersionRow))
      /\ ItemIds = DOMAIN versions /\ ItemIds' = ItemIds
  BY <1>1, TablesAreTyped DEF Base, Tables, ItemIds
<1>3. /\ noted \in VersionRow /\ noted.notes = versions[i][v].notes \cup Reviewers
      /\ noted.risky = risky
  <2>1. ASSUME NEW text \in VersionRow
        PROVE  /\ Noted(text, risky) \in VersionRow /\ Noted(text, risky).risky = risky
               /\ Noted(text, risky).notes = text.notes \cup Reviewers
    BY DEF Noted, VersionRow
  <2>2. versions[i][v] \in VersionRow
    BY <1>2
  <2> QED BY <2>1, <2>2
<1> HIDE DEF noted
<1>4. /\ new \in Seq(VersionRow) /\ Len(new) = Len(versions[i]) /\ new[v] = noted
      /\ \A u \in DOMAIN versions[i] : u # v => new[u] = versions[i][u]
  BY <1>2, <1>3, Replaced
<1>5. DOMAIN new = DOMAIN versions[i]
  BY <1>2, <1>4
<1> HIDE DEF new
<1>6. /\ versions'[i] = new /\ \A k \in ItemIds : k # i => versions'[k] = versions[k]
  BY <1>1, <1>2, <1>4, Replaced
<1>7. Only(i)
  BY <1>1, <1>2, <1>6 DEF Only
<1>8. CASE i \in overtaken
  BY <1>1, <1>2, <1>7, <1>8, OnlyRaced, OnlyKeeps
<1>9. CASE i \notin overtaken
  <2>1. ~(v > items[i].current)
    BY <1>1, <1>2, <1>9 DEF AllUnread, Unread
  <2>2. items[i].current \in Nat /\ v \in Nat \ {0}
    BY <1>2, TablesAreTyped DEF ItemRow
  <2>3. AllUnread'
    <3>1. Unread(i)'
      BY <1>1, <1>2, <1>4, <1>5, <1>6, <2>1 DEF AllUnread, Unread
    <3> QED BY <1>2, <1>7, <3>1, OnlyKeeps
  <2>4. ReadOf(i)' = ReadOf(i) \cup {v}
    BY <1>2, <1>3, <1>4, <1>5, <1>6 DEF ReadOf
  <2>5. RiskyOf(i)' = IF risky THEN RiskyOf(i) \cup {v} ELSE RiskyOf(i) \ {v}
    BY <1>2, <1>3, <1>4, <1>5, <1>6 DEF RiskyOf
  <2>6. PICK c : c = ContentOf(i)
    OBVIOUS
  <2>7. PICK d : d = ContentOf(i)'
    OBVIOUS
  <2>8. /\ c = As(Stage(items[i].state), items[i].current, items[i].approved,
                  ReadOf(i), RiskyOf(i))
        /\ d = As(Stage(items[i].state), items[i].current, items[i].approved,
                  ReadOf(i)', RiskyOf(i)')
    BY <1>1, <1>9, <2>6, <2>7, ContentIs
  <2>9. /\ c.stage # "raced" /\ v \in 1 .. c.shown
    <3>1. c.stage = Stage(items[i].state) /\ c.shown = items[i].current
      BY <2>8 DEF As
    <3>2. Stage(items[i].state) # "raced"
      BY DEF Stage
    <3> QED BY <2>1, <2>2, <3>1, <3>2
  <2>10. d = [c EXCEPT !.read = @ \cup {v}, !.risky = IF risky THEN @ \cup {v} ELSE @ \ {v}]
    <3>1. PICK m : m = [c EXCEPT !.read = @ \cup {v}]
      OBVIOUS
    <3>2. m = As(Stage(items[i].state), items[i].current, items[i].approved,
                 ReadOf(i)', RiskyOf(i))
      BY <2>4, <2>8, <3>1 DEF As
    <3>3. d = [m EXCEPT !.risky = IF risky THEN @ \cup {v} ELSE @ \ {v}]
      BY <2>5, <2>8, <3>2 DEF As
    <3> QED BY <3>1, <3>3, Zenon
  <2>11. Contract!Becomes(i, d) /\ Contents[i] = c /\ i \in DOMAIN Contents
    BY <1>2, <1>7, <2>6, <2>7, Seen, OnlyBecomes
  <2>12. Contract!Control(i)
    BY <2>9, <2>10, <2>11 DEF Contract!Control
  <2> QED BY <2>3, <2>11, <2>12 DEF Contract!Next
<1> QED BY <1>8, <1>9

\* A lot adds contents without a text.
LEMMA GenerateIsContract ==
    ASSUME Base, AllUnread, NEW targets \in SUBSET Targets, Generate(targets)
    PROVE  AllUnread' /\ (Contract!Next \/ Contents' = Contents)
<1> DEFINE fresh == NewItems(targets)
<1>1. /\ Base' /\ ItemIds \subseteq ItemIds'
      /\ \A i \in ItemIds : items'[i] = items[i] /\ versions'[i] = versions[i]
      /\ \A i \in ItemIds' \ ItemIds : versions'[i] = <<>>
  BY GenerateBase DEF Step
<1>2. /\ UNCHANGED <<reviews, overtaken>> /\ overtaken \subseteq ItemIds
      /\ items' = items \o fresh /\ items \in Seq(ItemRow)
  BY DEF Generate, Base, Tables
<1>3. /\ fresh \in Seq(ItemRow) /\ Len(fresh) = Cardinality(targets)
      /\ Cardinality(targets) \in Nat
      /\ \A k \in 1 .. Cardinality(targets) :
           fresh[k].state = "draft" /\ fresh[k].current = 0 /\ fresh[k].approved = 0
  BY NewItemsAreRows
<1> HIDE DEF fresh
<1>4. /\ Len(items \o fresh) = Len(items) + Len(fresh)
      /\ \A k \in 1 .. Len(items \o fresh) :
           k > Len(items) => (items \o fresh)[k] = fresh[k - Len(items)]
  BY <1>2, <1>3, Joined
<1>5. ItemIds' = 1 .. Len(items) + Cardinality(targets) /\ ItemIds = 1 .. Len(items)
      /\ Len(items) \in Nat
  BY <1>2, <1>3, <1>4 DEF ItemIds
<1>6. ASSUME NEW i \in ItemIds' \ ItemIds
      PROVE  /\ items'[i].state = "draft" /\ items'[i].current = 0 /\ items'[i].approved = 0
  <2>1. i > Len(items) /\ i - Len(items) \in 1 .. Cardinality(targets)
    BY <1>3, <1>5
  <2> QED BY <1>2, <1>3, <1>4, <1>5, <2>1
<1>7. ASSUME NEW i \in ItemIds' \ ItemIds
      PROVE  ContentOf(i)' = Contract!Blank
  <2>1. i \notin overtaken'
    BY <1>2
  <2>2. ReadOf(i)' = {} /\ RiskyOf(i)' = {}
    BY <1>1 DEF ReadOf, RiskyOf
  <2>3. ContentOf(i)' = As(Stage(items'[i].state), 0, 0, {}, {})
    BY <1>6, <2>1, <2>2, ContentIs
  <2>4. Stage(items'[i].state) = "open"
    BY <1>6 DEF Stage
  <2> QED BY <2>3, <2>4 DEF As, Contract!Blank
<1>8. ASSUME NEW i \in ItemIds
      PROVE  ContentOf(i)' = ContentOf(i)
  BY <1>1, <1>2 DEF ContentOf
<1>9. Contents' = [i \in ItemIds' |-> IF i \in ItemIds THEN Contents[i] ELSE Contract!Blank]
  <2>1. Contents' = [i \in ItemIds' |-> ContentOf(i)']
    BY DEF Contents
  <2> QED BY <1>7, <1>8, <2>1, Seen
<1>10. Contract!Create
  BY <1>1, <1>9, Seen DEF Contract!Create
<1>11. AllUnread'
  <2>1. ASSUME NEW i \in ItemIds PROVE Unread(i)'
    <3>1. Unread(i) /\ items'[i] = items[i] /\ versions'[i] = versions[i]
      BY <1>1 DEF AllUnread
    <3> QED BY <1>2, <3>1 DEF Unread
  <2>2. ASSUME NEW i \in ItemIds' \ ItemIds PROVE Unread(i)'
    <3>1. DOMAIN versions'[i] = {}
      BY <1>1
    <3> QED BY <3>1 DEF Unread
  <2> QED BY <2>1, <2>2 DEF AllUnread
<1> QED BY <1>10, <1>11 DEF Contract!Next

LEMMA WriteVersionIsContract ==
    ASSUME Base, AllUnread, NEW j \in JobIds, WriteVersion(j)
    PROVE  AllUnread' /\ Contents' = Contents
<1>1. PICK t : t = NextTarget(j)
  OBVIOUS
<1>2. PICK e : e = runs[j].entries[t]
  OBVIOUS
<1>3. /\ runs[j].pc = "write" /\ runs[j].todo # {} /\ UNCHANGED <<items, reviews, overtaken>>
      /\ versions' = AddVersion(versions, e.item, j, t \in runs[j].bad)
  BY <1>1, <1>2 DEF WriteVersion
<1>4. e.item \in ItemIds /\ j \in Nat
  <2>1. j \in Nat
    BY DEF Base, Tables, JobIds
  <2> QED BY <1>1, <1>2, <1>3, <2>1, TurnIsHeld
<1>5. (t \in runs[j].bad) \in BOOLEAN
  OBVIOUS
<1>6. PICK bad \in BOOLEAN : versions' = AddVersion(versions, e.item, j, bad)
  BY <1>3, <1>5
<1> QED BY <1>3, <1>4, <1>6, AddedKeepsUnread

LEMMA InitIsContract == Init => Contract!Init /\ AllUnread
<1> SUFFICES ASSUME Init PROVE Contract!Init /\ AllUnread
  OBVIOUS
<1>1. reviews = {} /\ overtaken = {}
  BY DEF Init
<1>2. Contents = [i \in DOMAIN Contents |-> Contents[i]]
  BY Seen DEF Contents
<1>3. CASE items = <<>> /\ versions = <<>>
  <2>1. ItemIds = {}
    BY <1>3 DEF ItemIds
  <2> QED BY <1>2, <2>1, Seen DEF Contract!Init, AllUnread
<1>4. CASE \E t \in Targets :
             /\ items = <<[NewItem(t) EXCEPT !.state = "generated", !.current = 1]>>
             /\ versions = <<<<NewVersion(User, FALSE)>>>>
  <2>1. PICK t \in Targets :
             /\ items = <<[NewItem(t) EXCEPT !.state = "generated", !.current = 1]>>
             /\ versions = <<<<NewVersion(User, FALSE)>>>>
    BY <1>4
  <2> DEFINE row == [NewItem(t) EXCEPT !.state = "generated", !.current = 1]
             text == NewVersion(User, FALSE)
  <2>2. row.current = 1 /\ row.approved = 0 /\ row.state = "generated"
    BY DEF NewItem
  <2>3. text.notes = {} /\ text.risky = FALSE
    BY DEF NewVersion
  <2>4. items = <<row>> /\ versions = <<<<text>>>>
    BY <2>1
  <2> HIDE DEF row, text
  <2>5. ItemIds = {1} /\ items[1] = row /\ versions[1] = <<text>>
    BY <2>4 DEF ItemIds
  <2>6. DOMAIN versions[1] = {1} /\ versions[1][1] = text
    BY <2>5
  <2>7. ReadOf(1) = {} /\ RiskyOf(1) = {}
    BY <2>3, <2>6 DEF ReadOf, RiskyOf, Reviewers
  <2>8. ContentOf(1) = As("open", 1, 0, {}, {})
    BY <1>1, <2>2, <2>5, <2>7, ContentIs DEF Stage
  <2>9. As("open", 1, 0, {}, {}) = [Contract!Blank EXCEPT !.shown = 1]
    BY DEF As, Contract!Blank
  <2>10. Contract!Init
    BY <1>2, <2>5, <2>8, <2>9, Seen DEF Contract!Init
  <2>11. AllUnread
    BY <1>1, <2>3, <2>5, <2>6 DEF AllUnread, Unread
  <2> QED BY <2>10, <2>11
<1> QED BY <1>3, <1>4 DEF Init

LEMMA StepIsContract ==
    ASSUME Base, AllUnread, [Next]_vars
    PROVE  AllUnread' /\ [Contract!Next]_Contents
<1> SUFFICES AllUnread' /\ (Contract!Next \/ Contents' = Contents)
  OBVIOUS
<1>1. CASE \E targets \in SUBSET Targets : Generate(targets)
  BY <1>1, GenerateIsContract
<1>2. ASSUME NEW i \in ItemIds,
             \/ Regenerate(i) \/ Edit(i) \/ Approve(i) \/ Reject(i)
             \/ OpenReview(i) \/ Publish(i)
      PROVE  AllUnread' /\ (Contract!Next \/ Contents' = Contents)
  <2>1. CASE Regenerate(i)
    BY <2>1, StillIsContract DEF Regenerate
  <2>2. CASE Edit(i)
    BY <2>2, EditIsContract
  <2>3. CASE Approve(i)
    BY <2>3, ApproveIsContract
  <2>4. CASE Reject(i)
    BY <2>4, RejectIsContract
  <2>5. CASE OpenReview(i)
    BY <2>5, OpenReviewIsContract
  <2>6. CASE Publish(i)
    BY <2>6, PublishIsContract
  <2> QED BY <1>2, <2>1, <2>2, <2>3, <2>4, <2>5, <2>6
<1>3. ASSUME NEW r \in reviews,
             \/ \E risky \in BOOLEAN : CloseReview(r[1], r[2], risky)
             \/ AbandonReview(r[1], r[2])
      PROVE  AllUnread' /\ (Contract!Next \/ Contents' = Contents)
  <2>1. CASE AbandonReview(r[1], r[2])
    BY <2>1, StillIsContract DEF AbandonReview
  <2>2. CASE \E risky \in BOOLEAN : CloseReview(r[1], r[2], risky)
    BY <2>2, CloseReviewIsContract
  <2> QED BY <1>3, <2>1, <2>2
<1>4. ASSUME NEW j \in JobIds, Work(j) \/ Crash(j)
      PROVE  AllUnread' /\ (Contract!Next \/ Contents' = Contents)
  <2>1. CASE Advance(j)
    BY <2>1, AdvanceIsContract
  <2>2. CASE WriteVersion(j)
    BY <2>2, WriteVersionIsContract
  <2>3. CASE ~Advance(j) /\ ~WriteVersion(j)
    <3>1. UNCHANGED <<items, versions, overtaken, reviews>>
      BY <1>4, <2>3 DEF Work, Crash, Start, Refuse, Call, CallFails, Keep, Settle, Retry
    <3> QED BY <3>1, StillIsContract
  <2> QED BY <2>1, <2>2, <2>3
<1>5. CASE UNCHANGED vars
  BY <1>5, StillIsContract DEF vars
<1> QED BY <1>1, <1>2, <1>3, <1>4, <1>5 DEF Next, Route

\* The routes and the job, with their crashes, resumptions and stale copies,
\* keep the contract of a content: only a text that both controls have read is
\* approved, and only the text approved and shown is published.
THEOREM ContentImplementsContract == Spec => ImplementsContract
<1>1. Init => Contract!Init /\ AllUnread
  BY InitIsContract
<1>2. Base /\ AllUnread /\ [Next]_vars => AllUnread' /\ [Contract!Next]_Contents
  BY StepIsContract
<1> QED BY <1>1, <1>2, BaseIsInvariant, PTL DEF Spec, ImplementsContract, Contract!Spec
==============================================================================
