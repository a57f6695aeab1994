--------------------------- MODULE PlatformAccounts --------------------------
(***************************************************************************)
(* The accounts of the projects and the publication by hand                *)
(* (apps/api/src/routes/publishing.ts, the rows of platform_accounts,      *)
(* project_platforms, manual_packages and publications of                  *)
(* packages/database/src/repositories/publishing.ts): an account becomes   *)
(* the default one of its place, a package is built from the approved      *)
(* version of one content, and the human says on which account the text of *)
(* a package was posted.                                                   *)
(*                                                                         *)
(* A place is a project and a platform; the content belongs to `Home'.  A  *)
(* package is named by its version: uq_manual_version_platform, and the    *)
(* platform is the one of the content.  Building one waits for the         *)
(* connector, so that anything may happen to the content meanwhile; and    *)
(* the worker, one run at a time, reads the content, awaits the model, and *)
(* writes over the content what follows from what it read (recordDraft,    *)
(* packages/core/src/editorial/content.ts).  A process may die between two *)
(* statements that no transaction joins.                                   *)
(***************************************************************************)
EXTENDS ContentStates, Sequences, FiniteSets

CONSTANTS
    Places,        \* a project and a platform
    Home,          \* the one of the content
    Remotes,       \* identifiers of accounts on the platforms
    Requests,      \* requests that build a package
    MaxAccounts,   \* bound on the accounts
    MaxVersions,   \* bound on the versions of the content
    MaxDeaths,     \* bound on the deaths of the API
    None           \* no identifier

AccountsAssumption ==
    /\ Home \in Places /\ None \notin Remotes
    /\ MaxAccounts \in Nat /\ MaxVersions \in Nat \ {0} /\ MaxDeaths \in Nat

VARIABLES
    accounts,                 \* platform_accounts in their order: place and identifier
    default,                  \* default_account_id of each place, 0 without one
    state, current, approved, \* the content: approved_version_id is 0 without one
    written,                  \* the number of versions of the content
    draft,                    \* what the worker read, and the version it has written
    overtaken,                \* a draft was written on a content that was no longer its copy
    packages,                 \* versions that have a manual package
    building,                 \* the version that a request read, 0 without one
    posted,                   \* rows of publications: <<version, account>>
    deaths                    \* deaths of the API so far

rowVars == <<state, current, approved>>
workVars == <<draft, overtaken>>
itemVars == <<rowVars, written, workVars>>
vars == <<accounts, default, itemVars, packages, building, posted, deaths>>

Versions == 1 .. MaxVersions

\* The columns of the content a run judges by, and the version it has written.
CopyRow ==
    [state : ContentState, current : {0} \cup Versions, approved : BOOLEAN,
     generation : {"initial", "regenerated"}, version : {0} \cup Versions]

CopyOf(generation) ==
    [state |-> state, current |-> current, approved |-> approved # 0,
     generation |-> generation, version |-> 0]

TypeOK ==
    /\ accounts \in UNION {[1 .. n -> [place : Places, remote : Remotes \cup {None}]] : n \in 0 .. MaxAccounts}
    /\ default \in [Places -> 0 .. Len(accounts)]
    /\ state \in ContentState /\ current \in Versions /\ approved \in {0} \cup Versions
    /\ written \in Versions /\ draft \subseteq CopyRow /\ overtaken \in BOOLEAN
    /\ packages \subseteq Versions
    /\ building \in [Requests -> {0} \cup Versions]
    /\ posted \subseteq Versions \X DOMAIN accounts
    /\ deaths \in 0 .. MaxDeaths

\* A human wrote the first version, or did so while the worker was still
\* awaiting the model for the draft.
Init ==
    /\ accounts = <<>> /\ default = [p \in Places |-> 0]
    /\ state = "in_review" /\ current = 1 /\ approved = 0 /\ written = 1
    /\ \/ draft = {}
       \/ draft = {[state |-> "draft", current |-> 0, approved |-> FALSE,
                    generation |-> "initial", version |-> 0]}
    /\ overtaken = FALSE
    /\ packages = {} /\ building = [r \in Requests |-> 0] /\ posted = {} /\ deaths = 0

------------------------------------------------------------------------------
(* Accounts.                                                               *)

\* uq_platform_account: two rows without an identifier do not meet.
Free(place, remote) ==
    remote = None \/ \A n \in DOMAIN accounts : accounts[n] # [place |-> place, remote |-> remote]

\* The first account of a place stays its default: a mutant of Preferred.
Preferred_First(place, id) ==
    IF default[place] # 0 THEN default ELSE [default EXCEPT ![place] = id]

\* createAccount: the row of project_platforms takes the new account.
Preferred(place, id) == [default EXCEPT ![place] = id]

\* POST /projects/:id/platform-accounts.
CreateAccount(place, remote) ==
    /\ Len(accounts) < MaxAccounts /\ Free(place, remote)
    /\ accounts' = Append(accounts, [place |-> place, remote |-> remote])
    /\ default' = Preferred(place, Len(accounts) + 1)
    /\ UNCHANGED <<itemVars, packages, building, posted, deaths>>

\* The API dies between the two rows.
CreateHalf(place, remote) ==
    /\ Len(accounts) < MaxAccounts /\ Free(place, remote) /\ deaths < MaxDeaths
    /\ accounts' = Append(accounts, [place |-> place, remote |-> remote])
    /\ deaths' = deaths + 1
    /\ building' = [r \in Requests |-> 0]
    /\ UNCHANGED <<default, itemVars, packages, posted>>

------------------------------------------------------------------------------
(* The content.                                                            *)

\* stateAfterWrite, on a copy of the content.
Leads(copy) ==
    IF copy.generation = "initial" THEN "generated" ELSE AfterRewrite(copy.state, copy.approved)

\* advanceThrough: judged on the copy, written on the row unless the copy is
\* already there.
MayRecord(copy) == MayAdvance(copy.state, Leads(copy))
Advanced(copy) == state' = IF copy.state = Leads(copy) THEN state ELSE Leads(copy)

\* The other columns: the approval is cleared when the copy carried one.
Columns(copy, version) ==
    /\ current' = version
    /\ approved' = IF copy.approved THEN 0 ELSE approved

\* editContent: a new version, and its row unless the state forbids it.
Edit ==
    /\ state # "archived" /\ written < MaxVersions
    /\ written' = written + 1
    /\ IF MayRecord(CopyOf("regenerated"))
       THEN Advanced(CopyOf("regenerated")) /\ Columns(CopyOf("regenerated"), written + 1)
       ELSE UNCHANGED rowVars
    /\ UNCHANGED <<workVars, accounts, default, packages, building, posted, deaths>>

\* The API dies after the version, or after the state.
EditHalf ==
    /\ state # "archived" /\ written < MaxVersions /\ deaths < MaxDeaths
    /\ written' = written + 1 /\ deaths' = deaths + 1
    /\ \/ UNCHANGED state
       \/ MayRecord(CopyOf("regenerated")) /\ Advanced(CopyOf("regenerated"))
    /\ building' = [r \in Requests |-> 0]
    /\ UNCHANGED <<current, approved, workVars, accounts, default, packages, posted>>

\* approveContent, of a version whose notes and claims let it.
Approve ==
    /\ MayMove(state, "approved")
    /\ state' = "approved" /\ approved' = current
    /\ UNCHANGED <<current, written, workVars, accounts, default, packages, building, posted, deaths>>

\* archiveContent.
Archive ==
    /\ MayMove(state, "archived") /\ state # "archived"
    /\ state' = "archived"
    /\ UNCHANGED <<current, approved, written, workVars, accounts, default, packages, building,
                   posted, deaths>>

------------------------------------------------------------------------------
(* The worker.                                                             *)

\* A rewriting reads the content, whatever it has become since it was asked
\* for, and awaits the model.
Read ==
    /\ draft = {}
    /\ draft' = {CopyOf("regenerated")}
    /\ UNCHANGED <<rowVars, written, overtaken, accounts, default, packages, building, posted, deaths>>

\* The model fails, or the worker dies before it writes the row.
Abandon ==
    /\ draft # {} /\ draft' = {}
    /\ UNCHANGED <<rowVars, written, overtaken, accounts, default, packages, building, posted, deaths>>

\* recordDraft: the version.
WriteVersion(copy) ==
    /\ copy.version = 0 /\ written < MaxVersions
    /\ written' = written + 1
    /\ draft' = {[copy EXCEPT !.version = written + 1]}
    /\ UNCHANGED <<rowVars, overtaken, accounts, default, packages, building, posted, deaths>>

\* The content is not what the run read.
Stale(copy) ==
    state # copy.state \/ current # copy.current \/ (approved # 0) # copy.approved

\* recordDraft: the row, if its move is one of the copy; the worker may die
\* between its state and its other columns.
WriteRow(copy) ==
    /\ copy.version # 0
    /\ IF MayRecord(copy)
       THEN /\ Advanced(copy)
            /\ Columns(copy, copy.version) \/ UNCHANGED <<current, approved>>
            /\ overtaken' = (overtaken \/ Stale(copy))
       ELSE UNCHANGED <<rowVars, overtaken>>
    /\ draft' = {}
    /\ UNCHANGED <<written, accounts, default, packages, building, posted, deaths>>

Rewriting == Read \/ Abandon \/ \E copy \in draft : WriteVersion(copy) \/ WriteRow(copy)

------------------------------------------------------------------------------
(* The package and its publication.                                        *)

\* POST /content/:contentId/manual-package, up to the connector.
Ask(r) ==
    /\ building[r] = 0 /\ state = "approved" /\ approved = current
    /\ building' = [building EXCEPT ![r] = current]
    /\ UNCHANGED <<accounts, default, itemVars, packages, posted, deaths>>

\* The connector refuses the content.
Refuse(r) ==
    /\ building[r] # 0
    /\ building' = [building EXCEPT ![r] = 0]
    /\ UNCHANGED <<accounts, default, itemVars, packages, posted, deaths>>

\* upsertManualPackage: the package that exists is returned as it is, and the
\* content is not read again.
Build(r) ==
    /\ building[r] # 0
    /\ packages' = packages \cup {building[r]}
    /\ building' = [building EXCEPT ![r] = 0]
    /\ UNCHANGED <<accounts, default, itemVars, posted, deaths>>

\* Any package of a content that is approved: a mutant of Confirmable.
Confirmable_AnyVersion(v, a) == v \in packages /\ accounts[a].place = Home /\ state = "approved"

\* POST /manual-packages/:packageId/published: what it asks of the account and
\* of the content.
Confirmable(v, a) ==
    /\ v \in packages /\ accounts[a].place = Home
    /\ state = "approved" /\ approved = v

\* The row, then the content: "publishing" and "published" are two updates.
Confirm(v, a) ==
    /\ Confirmable(v, a)
    /\ posted' = posted \cup {<<v, a>>} /\ state' = "published"
    /\ UNCHANGED <<current, approved, written, workVars, accounts, default, packages, building, deaths>>

\* The API dies after the row, or after the first update.
ConfirmHalf(v, a) ==
    /\ Confirmable(v, a) /\ deaths < MaxDeaths
    /\ posted' = posted \cup {<<v, a>>} /\ state' \in {"approved", "publishing"}
    /\ deaths' = deaths + 1 /\ building' = [r \in Requests |-> 0]
    /\ UNCHANGED <<current, approved, written, workVars, accounts, default, packages>>

Next ==
    \/ \E p \in Places, i \in Remotes \cup {None} : CreateAccount(p, i) \/ CreateHalf(p, i)
    \/ Edit \/ EditHalf \/ Approve \/ Archive \/ Rewriting
    \/ \E r \in Requests : Ask(r) \/ Refuse(r) \/ Build(r)
    \/ \E v \in packages, a \in DOMAIN accounts : Confirm(v, a) \/ ConfirmHalf(v, a)

Spec == Init /\ [][Next]_vars

------------------------------------------------------------------------------
\* The default account of a place is one of the place, and the last one that
\* was created there unless the API died meanwhile.
DefaultIsTheLast ==
    \A p \in Places :
        LET ofPlace == {n \in DOMAIN accounts : accounts[n].place = p}
        IN /\ default[p] # 0 => default[p] \in ofPlace
           /\ deaths = 0 /\ ofPlace # {} => \A n \in ofPlace : n <= default[p]

\* A package outlives the approval of its version; what is said to be published
\* is nevertheless the text that was approved, once, and the content is
\* published with it.  Two things break it, and nothing else: the API dies
\* between the statements of a request, or the worker writes a draft on a
\* content that is no longer the one it read, be it published since.
PostedIsApproved ==
    /\ \A row \in posted : accounts[row[2]].place = Home
    /\ deaths = 0 /\ ~overtaken /\ posted # {} =>
           /\ Cardinality(posted) = 1 /\ state \in {"published", "archived"}
           /\ \A row \in posted : row[1] = approved

\* The same whatever happens.  The code does not promise it: a content left
\* "approved" by a death is confirmed again on another account.
PostedOnce == Cardinality(posted) <= 1
==============================================================================
