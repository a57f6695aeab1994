------------------------------- MODULE ProcessRun -----------------------------
(***************************************************************************)
(* A program run by the worker (packages/media/src/exec.ts) and what its   *)
(* end means to an encoding (runOrThrow of packages/media/src/ffmpeg.ts):  *)
(* the end of the process, its delay and the stop of the worker come in    *)
(* any order, and a process may end well while it is being told to stop,   *)
(* or take no notice.  A program that cannot be started is an error of its *)
(* own, before any of this.                                                *)
(***************************************************************************)
EXTENDS Naturals

VARIABLES
    child,    \* the process: "none", "running", "exited" or "closed"
    exit,     \* how it ended: "ok", "failed", "killed", or "none" yet
    stubborn, \* it takes no notice of SIGTERM
    killed,   \* child.killed: a signal was sent
    signal,   \* the strongest signal received
    limit,    \* the timer of the delay: "off", "armed", "fired" or "cleared"
    abort,    \* the stop of the worker: "no", "heard" or "ignored"
    kills,    \* timers of SIGKILL that run
    outcome   \* what the promise gave, or "pending"

processVars == <<child, exit, stubborn, killed, signal, limit, abort, kills, outcome>>

Init ==
    /\ child = "none" /\ exit = "none" /\ stubborn = FALSE
    /\ killed = FALSE /\ signal = "none"
    /\ limit = "off" /\ abort = "no" /\ kills = 0
    /\ outcome = "pending"

------------------------------------------------------------------------------
\* Nobody is told: a mutant of Stop.
Stop_None(sent) == UNCHANGED <<killed, signal>>

\* stop: one signal, the first, whatever it is.
Stop(sent) ==
    IF killed \/ child # "running" THEN UNCHANGED <<killed, signal>>
    ELSE killed' = TRUE /\ signal' = sent

\* spawn: the timer runs, and an abort that has come before is heard at once.
Spawn(heedless) ==
    /\ child = "none"
    /\ child' = "running" /\ stubborn' = heedless /\ limit' = "armed"
    /\ \/ UNCHANGED <<abort, kills, killed, signal>>
       \/ abort' = "heard" /\ kills' = 1 /\ killed' = TRUE /\ signal' = "SIGTERM"
    /\ UNCHANGED <<exit, outcome>>

\* The delay is over.
TimeOut ==
    /\ limit = "armed"
    /\ limit' = "fired" /\ kills' = kills + 1
    /\ Stop("SIGTERM")
    /\ UNCHANGED <<child, exit, stubborn, abort, outcome>>

\* The worker stops; the listener is there until the promise is settled.
Abort ==
    /\ abort = "no" /\ child # "none"
    /\ IF outcome = "pending"
       THEN abort' = "heard" /\ kills' = kills + 1 /\ Stop("SIGTERM")
       ELSE abort' = "ignored" /\ UNCHANGED <<kills, killed, signal>>
    /\ UNCHANGED <<child, exit, stubborn, limit, outcome>>

\* Five seconds after SIGTERM.
Insist ==
    /\ kills > 0
    /\ kills' = kills - 1
    /\ Stop("SIGKILL")
    /\ UNCHANGED <<child, exit, stubborn, limit, abort, outcome>>

\* The process ends by itself, or by a signal.
Exit(how) ==
    /\ child = "running"
    /\ how = "killed" => signal = "SIGKILL" \/ (signal = "SIGTERM" /\ ~stubborn)
    /\ child' = "exited" /\ exit' = how
    /\ UNCHANGED <<stubborn, killed, signal, limit, abort, kills, outcome>>

\* The exit code is looked at first: a mutant of Meaning.
Meaning_CodeFirst(timedOut, aborted, how) ==
    IF how = "ok" THEN "done" ELSE IF how = "failed" THEN "internal" ELSE "transient"

\* runOrThrow: the delay and the stop come before the exit code.
Meaning(timedOut, aborted, how) ==
    IF timedOut \/ aborted THEN "transient" ELSE IF how = "ok" THEN "done" ELSE "internal"

\* The pipes are closed: finish, and the answer.
Close ==
    /\ child = "exited"
    /\ child' = "closed"
    /\ outcome' = Meaning(limit = "fired", abort = "heard", exit)
    /\ limit' = IF limit = "fired" THEN limit ELSE "cleared"
    /\ UNCHANGED <<exit, stubborn, killed, signal, abort, kills>>

------------------------------------------------------------------------------
Ends == Close \/ (signal # "none" /\ Exit("killed"))

Next ==
    \/ \E heedless \in BOOLEAN : Spawn(heedless)
    \/ TimeOut \/ Abort \/ Insist \/ Close \/ \E how \in {"ok", "failed", "killed"} : Exit(how)

\* A process that gets a signal it heeds ends, the delay passes.
Fair == WF_processVars(Ends) /\ WF_processVars(TimeOut) /\ WF_processVars(Insist)

Spec == Init /\ [][Next]_processVars /\ Fair

------------------------------------------------------------------------------
TypeOK ==
    /\ child \in {"none", "running", "exited", "closed"} /\ exit \in {"none", "ok", "failed", "killed"}
    /\ signal \in {"none", "SIGTERM", "SIGKILL"} /\ kills \in 0 .. 2
    /\ outcome \in {"pending", "done", "internal", "transient"}
    /\ outcome # "pending" <=> child = "closed"

\* "Un depassement de delai ou une interruption sont transient": an encoding
\* that the worker cut short is tried again, never failed for good nor taken
\* for a whole video, however it exits.
InterruptedIsRetried == signal # "none" /\ outcome # "pending" => outcome = "transient"

\* The delay comes to an end for a process that heeds its signal.
ObedientEnds == (child = "running" /\ ~stubborn) ~> outcome # "pending"

------------------------------------------------------------------------------
(* What the code says of itself and does not do.                           *)

\* "Delai maximal avant SIGTERM puis SIGKILL": the second signal is not sent,
\* since the first one was.
EveryProcessEnds == limit = "fired" ~> outcome # "pending"
==============================================================================
