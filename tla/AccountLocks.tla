----------------------------- MODULE AccountLocks ----------------------------
(***************************************************************************)
(* The lock of each platform account, a chain of promises in the memory of *)
(* the worker (createAccountLocks, packages/publishing/src/credentials.ts):*)
(* a task starts when the promise it found under its account is settled,   *)
(* and leaves its own promise there.                                       *)
(***************************************************************************)
EXTENDS Naturals, FiniteSets

CONSTANTS
    Tasks,   \* the calls of run, each with its account
    Account, \* the account of each
    None     \* no task

LocksAssumption == DOMAIN Account = Tasks /\ None \notin Tasks

VARIABLES
    last,   \* the map: the task whose promise is stored under each account
    after,  \* the task each one waits for
    phase   \* "new", "waiting", "running", "done" or "thrown"

lockVars == <<last, after, phase>>

Accounts == {Account[t] : t \in Tasks}

Init ==
    /\ last = [a \in Accounts |-> None]
    /\ after = [t \in Tasks |-> None]
    /\ phase = [t \in Tasks |-> "new"]

Settled(t) == phase[t] \in {"done", "thrown"}

\* Nobody is waited for once somebody waits: a mutant of Previous.
Previous_Free(t) ==
    IF last[Account[t]] = None \/ phase[last[Account[t]]] = "waiting" THEN None ELSE last[Account[t]]

\* locks.get, or a promise that is settled already.
Previous(t) == last[Account[t]]

\* run, up to its task.
Run(t) ==
    /\ phase[t] = "new"
    /\ after' = [after EXCEPT ![t] = Previous(t)]
    /\ last' = [last EXCEPT ![Account[t]] = t]
    /\ phase' = [phase EXCEPT ![t] = "waiting"]

\* A task that follows one that threw never starts: a mutant of MayStart.
MayStart_Clean(t) == after[t] # None => phase[after[t]] = "done"

\* previous.then(task, task).
MayStart(t) == after[t] # None => Settled(after[t])

Start(t) ==
    /\ phase[t] = "waiting" /\ MayStart(t)
    /\ phase' = [phase EXCEPT ![t] = "running"]
    /\ UNCHANGED <<last, after>>

\* The end of a task.  The map holds next.catch(...), which is never next: the
\* entry is not deleted.
End(t, how) ==
    /\ phase[t] = "running" /\ how \in {"done", "thrown"}
    /\ phase' = [phase EXCEPT ![t] = how]
    /\ UNCHANGED <<last, after>>

Next == \E t \in Tasks : Run(t) \/ Start(t) \/ \E how \in {"done", "thrown"} : End(t, how)

Spec == Init /\ [][Next]_lockVars

Goes(t) == Start(t) \/ \E how \in {"done", "thrown"} : End(t, how)

------------------------------------------------------------------------------
TypeOK ==
    /\ last \in [Accounts -> Tasks \cup {None}] /\ after \in [Tasks -> Tasks \cup {None}]
    /\ phase \in [Tasks -> {"new", "waiting", "running", "done", "thrown"}]

\* "Deux rafraichissements concurrents revoquent le compte": one task of an
\* account runs at a time.
OneTaskPerAccount ==
    \A s, t \in Tasks :
        phase[s] = "running" /\ phase[t] = "running" /\ Account[s] = Account[t] => s = t

\* A task that throws stops none of those that follow it: the line of every
\* account empties.
LinesEmpty == (\E t \in Tasks : phase[t] = "waiting") ~> (\A t \in Tasks : phase[t] # "waiting")

\* Taken at its word, the deletion of run leaves no entry behind the tasks
\* that are over: it never deletes one.
MapShrinks == (\A t \in Tasks : Settled(t)) => \A a \in Accounts : last[a] = None
==============================================================================
