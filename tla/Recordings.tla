------------------------------ MODULE Recordings -----------------------------
(***************************************************************************)
(* The voice recordings: their upload, their transcription, their sending  *)
(* as a message, their deletion by hand and by the retention sweep         *)
(* (apps/api/src/routes/media.ts, repositories/media.ts,                   *)
(* handlers/transcribe-media.ts, packages/media/src/retention.ts,          *)
(* scripts/media-purge.ts).  The file and the row of a recording are       *)
(* written and deleted one after the other, and a message is sent over an  *)
(* awaited model call, between which the other processes come.             *)
(* One project; a recording is what its hash says.                         *)
(***************************************************************************)
EXTENDS Naturals, FiniteSets

CONSTANTS
    Sounds,     \* the recordings, by hash
    Senders,    \* requests that upload, send or delete
    MaxAssets,  \* bound: rows of media_assets
    MaxMessages \* bound: messages sent by voice

RecordingsAssumption == MaxAssets \in Nat

VARIABLES
    assets,   \* media_assets: sound, usage count, age, by identifier
    keys,     \* the storage keys under which a file lies, named by their asset
    texts,    \* the assets that have a transcript
    messages, \* the messages sent by voice: the asset, and whether it is attached
    steps,    \* what each request is in the middle of
    sweep,    \* the candidates the sweep has read, and the one it is deleting
    made,     \* identifiers given to assets
    doomed    \* assets somebody decided to delete while no message used them

vars == <<assets, keys, texts, messages, steps, sweep, made, doomed>>

Known == DOMAIN assets

\* A row of media_assets: its hash, whether usage_count counts, its age.
AssetRow == [sound : Sounds, used : BOOLEAN, old : BOOLEAN]

Idle == [kind |-> "idle", asset |-> 0, sound |-> "none"]
Still == [todo |-> {}, row |-> 0]
Busy(s) == steps[s].kind

Init ==
    /\ assets = [a \in {} |-> {}]
    /\ keys = {} /\ texts = {} /\ messages = {}
    /\ steps = [s \in Senders |-> Idle]
    /\ sweep = Still
    /\ made = 0 /\ doomed = {}

Begin(s, kind, a, sound) == steps' = [steps EXCEPT ![s] = [kind |-> kind, asset |-> a, sound |-> sound]]
End(s) == steps' = [steps EXCEPT ![s] = Idle]

\* assetByHash.
ByHash(sound) == {a \in Known : assets[a].sound = sound}

------------------------------------------------------------------------------
(* POST /conversations/:id/voice.                                          *)

\* An unknown recording: its file is written under a key of its own.
UploadFile(s, sound) ==
    /\ Busy(s) = "idle" /\ ByHash(sound) = {} /\ made < MaxAssets
    /\ made' = made + 1
    /\ keys' = keys \cup {made'}
    /\ Begin(s, "upload", made', sound)
    /\ UNCHANGED <<assets, texts, messages, sweep, doomed>>

\* Each upload has its row: a mutant of Stored.
Stored_Twice(a, sound) ==
    [b \in Known \cup {a} |-> IF b = a THEN [sound |-> sound, used |-> FALSE, old |-> FALSE]
                             ELSE assets[b]]

\* createAudioAsset: the row, unless another upload of the same bytes was
\* faster, whose row answers; the file of this one then keeps no name.
Stored(a, sound) ==
    IF ByHash(sound) # {} THEN assets
    ELSE [b \in Known \cup {a} |-> IF b = a THEN [sound |-> sound, used |-> FALSE, old |-> FALSE]
                                  ELSE assets[b]]

\* The row, and the job of its transcription, whose enqueue does not fail.
UploadRow(s) ==
    /\ Busy(s) = "upload"
    /\ assets' = Stored(steps[s].asset, steps[s].sound)
    /\ End(s)
    /\ UNCHANGED <<keys, texts, messages, sweep, made, doomed>>

\* A known recording: its file is put back when it is missing.
UploadAgain(s, sound) ==
    /\ Busy(s) = "idle" /\ ByHash(sound) # {}
    /\ keys' = keys \cup ByHash(sound)
    /\ UNCHANGED <<assets, texts, messages, steps, sweep, made, doomed>>

------------------------------------------------------------------------------
(* The job transcribe_media.                                               *)

\* The file is read and the transcript saved, once for an asset; a deleted
\* row refuses it (the foreign key), a missing file fails the job.
Transcribe(a) ==
    /\ a \in Known \cap keys /\ a \notin texts
    /\ texts' = texts \cup {a}
    /\ UNCHANGED <<assets, keys, messages, steps, sweep, made, doomed>>

------------------------------------------------------------------------------
(* POST /conversations/:id/voice/:assetId/send.                            *)

\* The turn of the conversation stores the message of the user, which names
\* its recording, then awaits the agent.
Send(s, a) ==
    /\ Busy(s) = "idle" /\ a \in Known \cap texts
    /\ Cardinality(messages) < MaxMessages
    /\ messages' = messages \cup {[by |-> s, asset |-> a, attached |-> FALSE]}
    /\ Begin(s, "send", a, "none")
    /\ UNCHANGED <<assets, keys, texts, sweep, made, doomed>>

Mine(s) == [by |-> s, asset |-> steps[s].asset, attached |-> FALSE]

\* The agent has answered: attachToMessage, which the foreign key refuses when
\* the row is gone.
Attach(s) ==
    /\ Busy(s) = "send"
    /\ IF steps[s].asset \in Known
       THEN /\ assets' = [assets EXCEPT ![steps[s].asset].used = TRUE]
            /\ messages' = (messages \ {Mine(s)}) \cup {[Mine(s) EXCEPT !.attached = TRUE]}
       ELSE UNCHANGED <<assets, messages>>
    /\ End(s)
    /\ UNCHANGED <<keys, texts, sweep, made, doomed>>

\* The agent fails: the message stays, and nothing is attached to it.
SendFails(s) ==
    /\ Busy(s) = "send"
    /\ End(s)
    /\ UNCHANGED <<assets, keys, texts, messages, sweep, made, doomed>>

------------------------------------------------------------------------------
(* Deletions: the file, then the row.                                      *)

\* Any recording may be deleted by hand: a mutant of Deletable.
Deletable_Any(a) == TRUE

Deletable(a) == ~assets[a].used

\* DELETE /conversations/:id/voice/:assetId: the usage is read, the file goes.
DeleteFile(s, a) ==
    /\ Busy(s) = "idle" /\ a \in Known /\ Deletable(a)
    /\ keys' = keys \ {a}
    /\ Begin(s, "delete", a, "none")
    /\ doomed' = doomed \cup (IF assets[a].used THEN {} ELSE {a})
    /\ UNCHANGED <<assets, texts, messages, sweep, made>>

\* deleteAsset: the attachments, the transcripts and the row, in one
\* transaction that looks at nothing.
Remove(a) ==
    /\ assets' = [b \in Known \ {a} |-> assets[b]]
    /\ texts' = texts \ {a}
    /\ messages' = {[m EXCEPT !.attached = m.attached /\ m.asset # a] : m \in messages}

DeleteRow(s) ==
    /\ Busy(s) = "delete"
    /\ Remove(steps[s].asset)
    /\ End(s)
    /\ UNCHANGED <<keys, sweep, made, doomed>>

\* orphanAudioAssets and decideAudioPurge: not used, and older than the window.
Orphans == {a \in Known : ~assets[a].used /\ assets[a].old}

\* sweepOrphanAudio reads its candidates at once.
Sweep ==
    /\ sweep = Still /\ Orphans # {}
    /\ sweep' = [Still EXCEPT !.todo = Orphans]
    /\ doomed' = doomed \cup {a \in Orphans : ~assets[a].used}
    /\ UNCHANGED <<assets, keys, texts, messages, steps, made>>

SweepFile(a) ==
    /\ sweep.row = 0 /\ a \in sweep.todo
    /\ keys' = keys \ {a}
    /\ sweep' = [todo |-> sweep.todo \ {a}, row |-> a]
    /\ UNCHANGED <<assets, texts, messages, steps, made, doomed>>

SweepRow ==
    /\ sweep.row # 0
    /\ Remove(sweep.row)
    /\ sweep' = [sweep EXCEPT !.row = 0]
    /\ UNCHANGED <<keys, steps, made, doomed>>

\* The purge is a process of its own: killed, it forgets its candidates.
SweepDies ==
    /\ sweep # Still /\ sweep' = Still
    /\ UNCHANGED <<assets, keys, texts, messages, steps, made, doomed>>

\* The window passes; a request of the API takes less than that.
Age(a) ==
    /\ a \in Known /\ ~assets[a].old
    /\ \A s \in Senders : steps[s].asset # a
    /\ assets' = [assets EXCEPT ![a].old = TRUE]
    /\ UNCHANGED <<keys, texts, messages, steps, sweep, made, doomed>>

\* The three requests, in their steps.
Upload(s) == UploadRow(s) \/ \E sound \in Sounds : UploadFile(s, sound) \/ UploadAgain(s, sound)
Sending(s) == Attach(s) \/ SendFails(s) \/ \E a \in Known : Send(s, a)
Deletion(s) == DeleteRow(s) \/ \E a \in Known : DeleteFile(s, a)

Next ==
    \/ \E s \in Senders : Upload(s) \/ Sending(s) \/ Deletion(s)
    \/ \E a \in Known : Transcribe(a) \/ Age(a)
    \/ \E a \in sweep.todo : SweepFile(a)
    \/ Sweep \/ SweepRow \/ SweepDies

Spec == Init /\ [][Next]_vars

------------------------------------------------------------------------------
TypeOK ==
    /\ Known \subseteq 1 .. MaxAssets /\ keys \subseteq 1 .. MaxAssets
    /\ assets \in [Known -> AssetRow]
    /\ texts \subseteq Known

\* "L'audio rattache a un message reste la preuve de ce qui a ete envoye": a
\* recording that a message holds never goes, unless its deletion was decided
\* before the message held it.
EvidenceIsKept ==
    [][\A m \in messages : m.attached /\ m.asset \in Known =>
         m.asset \in DOMAIN assets' \/ m.asset \in doomed]_vars

\* Two uploads of one recording that cross each other are one row, the one
\* that both answer and that its transcription and its message will share.
OneRowPerSound == \A a, b \in Known : assets[a].sound = assets[b].sound => a = b

\* The statement of the retention taken at its word: what a message refers to
\* is never deleted.  It fails while a send awaits its agent.
ReferencedIsKept == \A m \in messages : m.asset \in Known
==============================================================================
