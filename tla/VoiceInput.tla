------------------------------- MODULE VoiceInput -----------------------------
(***************************************************************************)
(* The voice input of a conversation (apps/web/src/features/conversation/  *)
(* VoiceInput.tsx and voice.ts): the microphone, the upload of a           *)
(* recording, the two requests repeated until its job has ended and its    *)
(* text is there, the correction, the sending and the deletion.  The       *)
(* answers come in any order, and the user acts meanwhile.                 *)
(*                                                                         *)
(* What the API does with the recordings is module Recordings; here a      *)
(* recording is a number, its job and its text.  One conversation is       *)
(* shown, and the microphone is asked for once at a time.                  *)
(***************************************************************************)
EXTENDS Naturals, FiniteSets

CONSTANTS
    MaxRecordings, \* bound: recordings made
    MaxFaults      \* bound: requests that fail

VoiceAssumption == MaxRecordings \in Nat /\ MaxFaults \in Nat

VARIABLES
    mic,       \* "off", "asking" or "recording"
    made,      \* recordings made
    uploading, \* the recordings on their way to the API
    jobs,      \* the job of each recording, on the server
    asset,     \* assetId, jobId: the recording of the screen, or 0
    status,    \* the status of the job as the screen knows it
    heard,     \* whether the screen has the transcript
    corrected, \* the text: of which recording, and whether it was typed
    error,     \* localError
    sending,   \* the recording being sent and the text it goes with
    removing,  \* the recording being deleted, or 0
    sent,      \* the recordings sent, each with its text
    faults     \* counted for their bound

inputVars == <<mic, made, uploading, jobs, asset, status, heard, corrected, error, sending, removing,
               sent, faults>>
screenVars == <<asset, status, heard, corrected, error>>
serverVars == <<jobs, sent>>

Recording == 1 .. MaxRecordings
Blank == [of |-> 0, typed |-> FALSE]
NoSending == [asset |-> 0, text |-> Blank]

Init ==
    /\ mic = "off" /\ made = 0 /\ uploading = {}
    /\ jobs = [r \in Recording |-> "none"]
    /\ asset = 0 /\ status = "none" /\ heard = FALSE /\ corrected = Blank /\ error = FALSE
    /\ sending = NoSending /\ removing = 0 /\ sent = {} /\ faults = 0

\* voiceStage: the error first, then what the user does, then what is there.
Stage ==
    CASE error -> "failed"
      [] mic = "recording" -> "recording"
      [] made \in uploading -> "uploading"
      [] status = "failed" -> "failed"
      [] heard -> "ready"
      [] status \in {"queued", "running", "completed"} -> IF status = "queued" THEN status ELSE "transcribing"
      [] OTHER -> "idle"

Busy == Stage \in {"recording", "uploading", "queued", "transcribing"}

\* reset: nothing is left of the recording.
Reset ==
    asset' = 0 /\ status' = "none" /\ heard' = FALSE /\ corrected' = Blank /\ error' = FALSE

Fault == faults < MaxFaults /\ faults' = faults + 1

------------------------------------------------------------------------------
(* The microphone and the upload.                                          *)

\* "Enregistrer": also when a text is ready, or being sent.
Start ==
    /\ mic = "off" /\ ~Busy /\ removing = 0 /\ made < MaxRecordings
    /\ mic' = "asking" /\ error' = FALSE
    /\ UNCHANGED <<made, uploading, asset, status, heard, corrected, sending, removing, faults, serverVars>>

Granted ==
    /\ mic = "asking"
    /\ mic' = "recording"
    /\ UNCHANGED <<made, uploading, screenVars, sending, removing, faults, serverVars>>

\* microphoneErrorMessage.
Denied ==
    /\ mic = "asking" /\ Fault
    /\ mic' = "off" /\ error' = TRUE
    /\ UNCHANGED <<made, uploading, asset, status, heard, corrected, sending, removing, serverVars>>

\* "Arreter", and the event that follows: the recording leaves, once.
Stop ==
    /\ mic = "recording"
    /\ mic' = "off" /\ made' = made + 1 /\ uploading' = uploading \cup {made'}
    /\ UNCHANGED <<screenVars, sending, removing, faults, serverVars>>

\* The asset and its job; nothing is known of either yet.
Uploaded(r) ==
    /\ r \in uploading
    /\ uploading' = uploading \ {r}
    /\ jobs' = [jobs EXCEPT ![r] = "queued"]
    /\ asset' = r /\ status' = "none" /\ heard' = FALSE /\ error' = FALSE
    /\ UNCHANGED <<mic, made, corrected, sending, removing, sent, faults>>

NotUploaded(r) ==
    /\ r \in uploading /\ Fault
    /\ uploading' = uploading \ {r} /\ error' = TRUE
    /\ UNCHANGED <<mic, made, asset, status, heard, corrected, sending, removing, serverVars>>

------------------------------------------------------------------------------
(* The job, and what the screen hears of it.                               *)

\* The job begins, writes the text, ends; or fails.  A deleted recording has none.
Work(r) ==
    /\ \E outcome \in {<<"queued", "running">>, <<"running", "written">>, <<"written", "completed">>,
                       <<"running", "failed">>} :
        jobs[r] = outcome[1] /\ jobs' = [jobs EXCEPT ![r] = outcome[2]]
    /\ UNCHANGED <<mic, made, uploading, screenVars, sending, removing, sent, faults>>

\* GET /jobs/:id, until the job has ended.
HearJob ==
    /\ asset # 0 /\ status \notin {"completed", "failed"}
    /\ status' = CASE jobs[asset] = "written" -> "running" [] jobs[asset] = "gone" -> "failed"
                   [] OTHER -> jobs[asset]
    /\ UNCHANGED <<mic, made, uploading, asset, heard, corrected, error, sending, removing, faults,
                   serverVars>>

\* The text is asked for while the job goes on: a mutant of MayAsk.
MayAsk_Running == status \notin {"completed", "failed"}

\* The text is asked for whatever the job says.
MayAsk == TRUE

\* The transcript takes the place of what is there: a mutant of Draft.
Draft_Transcript == [of |-> asset, typed |-> FALSE]

\* The effect on the transcript: a text that is there is kept.
Draft == IF corrected = Blank THEN [of |-> asset, typed |-> FALSE] ELSE corrected

\* GET /voice/:assetId/transcript, until there is one.
HearText ==
    /\ asset # 0 /\ ~heard /\ MayAsk
    /\ jobs[asset] \in {"written", "completed"}
    /\ heard' = TRUE /\ corrected' = Draft
    /\ UNCHANGED <<mic, made, uploading, asset, status, error, sending, removing, faults, serverVars>>

------------------------------------------------------------------------------
(* The correction, the sending, the deletion.                              *)

Type ==
    /\ Stage = "ready"
    /\ corrected' = [corrected EXCEPT !.typed = TRUE]
    /\ UNCHANGED <<mic, made, uploading, asset, status, heard, error, sending, removing, faults,
                   serverVars>>

\* canConfirmTranscript.
Send ==
    /\ Stage = "ready" /\ sending = NoSending /\ corrected # Blank
    /\ sending' = [asset |-> asset, text |-> corrected]
    /\ UNCHANGED <<mic, made, uploading, screenVars, removing, faults, serverVars>>

\* The turn comes back: the input is reset, whatever it holds by then.
Sent ==
    /\ sending # NoSending /\ jobs[sending.asset] # "gone"
    /\ sent' = sent \cup {sending}
    /\ sending' = NoSending
    /\ Reset
    /\ UNCHANGED <<mic, made, uploading, removing, jobs, faults>>

\* The turn fails, its message written or not; the error is the conversation's.
NotSent ==
    /\ sending # NoSending
    /\ Fault \/ (jobs[sending.asset] = "gone" /\ UNCHANGED faults)
    /\ sending' = NoSending
    /\ UNCHANGED <<mic, made, uploading, screenVars, removing, serverVars>>

\* "Abandonner", or "Recommencer" after a failure.
Cancel ==
    /\ removing = 0
    /\ (asset # 0 /\ made \notin uploading) \/ (Stage = "failed" /\ asset # 0)
    /\ removing' = asset
    /\ UNCHANGED <<mic, made, uploading, screenVars, sending, faults, serverVars>>

\* "Recommencer" when nothing was uploaded.
Restart ==
    /\ Stage = "failed" /\ asset = 0 /\ removing = 0
    /\ Reset
    /\ UNCHANGED <<mic, made, uploading, sending, removing, faults, serverVars>>

Used(r) == \E message \in sent : message.asset = r

\* The API deletes a recording that no message uses, with its text.
Removed ==
    /\ removing # 0 /\ ~Used(removing)
    /\ jobs' = [jobs EXCEPT ![removing] = "gone"]
    /\ removing' = 0
    /\ Reset
    /\ UNCHANGED <<mic, made, uploading, sending, sent, faults>>

NotRemoved ==
    /\ removing # 0
    /\ Fault \/ (Used(removing) /\ UNCHANGED faults)
    /\ removing' = 0 /\ error' = TRUE
    /\ UNCHANGED <<mic, made, uploading, asset, status, heard, corrected, sending, serverVars>>

------------------------------------------------------------------------------
Hears == HearJob \/ HearText
Works == \E r \in Recording : Work(r)

Next ==
    \/ Start \/ Granted \/ Denied \/ Stop
    \/ \E r \in Recording : Uploaded(r) \/ NotUploaded(r)
    \/ Works \/ Hears
    \/ Type \/ Send \/ Sent \/ NotSent \/ Cancel \/ Restart \/ Removed \/ NotRemoved

\* An answer that says something new.
HearNews == HearJob /\ status' # status

\* The worker goes on, and the two requests are repeated.
Fair == WF_inputVars(Works) /\ WF_inputVars(HearNews) /\ WF_inputVars(HearText)

Spec == Init /\ [][Next]_inputVars /\ Fair

------------------------------------------------------------------------------
TypeOK ==
    /\ mic \in {"off", "asking", "recording"} /\ made \in 0 .. MaxRecordings
    /\ uploading \subseteq 1 .. made /\ asset \in 0 .. made /\ removing \in 0 .. made
    /\ \A r \in Recording : jobs[r] # "none" => r \in 1 .. made
    /\ asset = 0 => status = "none" /\ ~heard
    /\ corrected.typed => corrected.of # 0

\* "Une correction deja saisie n'est jamais ecrasee par une reponse tardive":
\* what was typed stays until the recording is sent or given up, whatever
\* answers arrive and whatever is recorded meanwhile.
CorrectionKept ==
    [][corrected.typed => corrected' = corrected \/ (sending' # sending \/ removing' # removing)]_inputVars

\* What is being transcribed becomes readable, or is said to have failed, unless
\* the user gives it up: the input is not left waiting by a job that ended
\* between two of its requests.
Settles ==
    (asset # 0) ~> (asset = 0 \/ heard \/ status = "failed")

------------------------------------------------------------------------------
(* What the code says of itself and does not do.                           *)

\* "Ce que l'utilisateur relit doit etre exactement ce qu'il a dit": another
\* recording begun on a text that is ready keeps that text, which is then sent
\* as the second one's.
SentIsItsOwn == \A message \in sent : message.text.of = message.asset

\* "Ouvrir un second enregistrement pendant ce temps ferait perdre le premier":
\* nothing keeps the input busy between the upload and the first answer about
\* its job.
NoneIsLost ==
    [][asset # 0 /\ asset' \notin {0, asset} => heard \/ status = "failed" \/ error]_inputVars
==============================================================================
