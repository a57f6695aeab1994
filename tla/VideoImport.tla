------------------------------- MODULE VideoImport ----------------------------
(***************************************************************************)
(* The import of a source video (uploadVideo of                            *)
(* apps/api/src/features/media.ts, createVideoAsset of                     *)
(* repositories/media.ts): the bytes are written apart, measured by        *)
(* ffprobe, given their name, and only then a row.  Two requests may carry *)
(* the same bytes, and the API may die between any two of these.           *)
(* One project; a video is what its hash says.                             *)
(***************************************************************************)
EXTENDS Naturals, FiniteSets

CONSTANTS
    Films,     \* the videos, by hash
    Unfit,     \* those that ffprobe does not read or that are not supported
    Uploaders, \* the requests
    MaxTries   \* bound: imports begun

ImportAssumption == Unfit \subseteq Films /\ MaxTries \in Nat

VARIABLES
    known,    \* rows of media_assets, with the storage key of each
    stored,   \* files: storage keys, numbered by the import that made them
    parts,    \* files *.part
    imports,  \* what each request is doing, with which film, under which number
    begun,    \* imports begun
    told      \* the assets the requests were answered with

importVars == <<known, stored, parts, imports, begun, told>>

NoImport == [pc |-> "idle", film |-> CHOOSE f \in Films : TRUE, key |-> 0]
Doing(u, pc) == imports[u].pc = pc
MoveTo(u, pc) == imports' = [imports EXCEPT ![u].pc = pc]

\* A row of media_assets.
Row == [film : Films, key : Nat]

Init ==
    /\ known = {} /\ stored = {} /\ parts = {}
    /\ imports = [u \in Uploaders |-> NoImport]
    /\ begun = 0 /\ told = {}

------------------------------------------------------------------------------
RowOf(film) == {row \in known : row.film = film}

\* The bytes are recognised and hashed; a film that is known is measured again
\* where it lies, and answered.
Receive(u, film) ==
    /\ Doing(u, "idle") /\ begun < MaxTries
    /\ begun' = begun + 1
    /\ IF RowOf(film) # {}
       THEN told' = told \cup RowOf(film) /\ UNCHANGED imports
       ELSE /\ imports' = [imports EXCEPT ![u] = [pc |-> "write", film |-> film, key |-> begun']]
            /\ UNCHANGED told
    /\ UNCHANGED <<known, stored, parts>>

\* writeFile, to a name of its own.
WritePart(u) ==
    /\ Doing(u, "write")
    /\ parts' = parts \cup {imports[u].key}
    /\ MoveTo(u, "probe")
    /\ UNCHANGED <<known, stored, begun, told>>

\* ffprobe, and assertSupportedVideoProbe: a film refused leaves nothing.
Probe(u) ==
    /\ Doing(u, "probe")
    /\ IF imports[u].film \in Unfit
       THEN parts' = parts \ {imports[u].key} /\ MoveTo(u, "idle")
       ELSE MoveTo(u, "rename") /\ UNCHANGED parts
    /\ UNCHANGED <<known, stored, begun, told>>

\* The row is written while the file has no name yet: a mutant of Rename.
Rename_Late(u) ==
    /\ Doing(u, "rename")
    /\ MoveTo(u, "row")
    /\ UNCHANGED <<known, stored, parts, begun, told>>

\* rename: the file has its name.
Rename(u) ==
    /\ Doing(u, "rename")
    /\ parts' = parts \ {imports[u].key} /\ stored' = stored \cup {imports[u].key}
    /\ MoveTo(u, "row")
    /\ UNCHANGED <<known, begun, told>>

\* Nothing keeps two rows apart: a mutant of Taken.
Taken_Never(film) == FALSE

\* uq_asset_hash.
Taken(film) == RowOf(film) # {}

\* createVideoAsset; the index refuses the second of two requests, whose file
\* stays under its name.
Record(u) ==
    /\ Doing(u, "row")
    /\ LET row == [film |-> imports[u].film, key |-> imports[u].key]
       IN IF Taken(row.film) THEN UNCHANGED <<known, told>>
          ELSE known' = known \cup {row} /\ told' = told \cup {row}
    /\ MoveTo(u, "idle")
    /\ UNCHANGED <<stored, parts, begun>>

\* The API dies: every request with it, and what it was writing stays.
Die ==
    /\ \E u \in Uploaders : ~Doing(u, "idle")
    /\ imports' = [u \in Uploaders |-> NoImport]
    /\ UNCHANGED <<known, stored, parts, begun, told>>

------------------------------------------------------------------------------
Serves(u) == WritePart(u) \/ Probe(u) \/ Rename(u) \/ Record(u)

Next == Die \/ \E u \in Uploaders : Serves(u) \/ \E film \in Films : Receive(u, film)

Spec == Init /\ [][Next]_importVars

------------------------------------------------------------------------------
TypeOK ==
    /\ known \subseteq Row /\ stored \subseteq 1 .. begun /\ parts \subseteq 1 .. begun
    /\ \A u \in Uploaders : imports[u].key \in 0 .. begun

\* "Aucun asset fantome": a video that is listed has its file, of bytes that
\* were measured, wherever the API died before.
RowHasFile == \A row \in known : row.key \in stored /\ row.film \notin Unfit

\* "Envoyer deux fois la meme video ne la stocke qu'une fois": two requests
\* that did not see each other's row end with one, and what was answered is it.
OneRowPerFilm ==
    /\ told \subseteq known
    /\ \A a, b \in known : a.film = b.film => a = b

------------------------------------------------------------------------------
(* What the code says of itself and does not do.                           *)

\* ... "ne la stocke qu'une fois": the file of the request that lost stays, and
\* so do the files of a request whose API died.
OneFilePerRow ==
    (\A u \in Uploaders : Doing(u, "idle")) =>
        parts = {} /\ stored = {row.key : row \in known}
==============================================================================
