------------------------------ MODULE Semaphore ------------------------------
(***************************************************************************)
(* The semaphore of the heavy renders                                      *)
(* (apps/worker/src/features/semaphore.ts).  A caller that finds a place   *)
(* enters; one that does not waits in a queue.  A caller that leaves gives *)
(* its place back and wakes the head of the queue, which takes the place   *)
(* in a microtask of its own, without looking at the places again: what    *)
(* may happen in between decides whether the limit holds.                  *)
(***************************************************************************)
EXTENDS Naturals, Sequences, FiniteSets

CONSTANTS
    Callers, \* the tasks that call run, once each
    Limit    \* the places

SemaphoreAssumption == Limit \in Nat \ {0} /\ IsFiniteSet(Callers)

VARIABLES
    active,  \* the counter of the places taken
    waiting, \* the queue of the resolvers
    woken,   \* microtasks: callers whose promise is resolved, in order
    running, \* the callers inside their task
    arrived  \* the callers so far, in the order of their calls

semVars == <<active, waiting, woken, running, arrived>>

Init == active = 0 /\ waiting = <<>> /\ woken = <<>> /\ running = {} /\ arrived = <<>>

Seen == {arrived[n] : n \in DOMAIN arrived}

\* A caller may come in between two microtasks: a mutant of Settled.
Settled_Any(queue) == TRUE

\* The callers come from the callbacks of the event loop, which finds its
\* microtasks done: FFmpeg has answered, and the handler goes on to run.
Settled(queue) == queue = <<>>

\* run, up to its task or its wait.
Run(c) ==
    /\ c \notin Seen /\ Settled(woken)
    /\ arrived' = Append(arrived, c)
    /\ IF active >= Limit
       THEN /\ waiting' = Append(waiting, c)
            /\ UNCHANGED <<active, running>>
       ELSE /\ active' = active + 1
            /\ running' = running \cup {c}
            /\ UNCHANGED waiting
    /\ UNCHANGED woken

\* The wait is over: the place is taken without a look at the limit.
Resume ==
    /\ woken # <<>>
    /\ active' = active + 1
    /\ running' = running \cup {Head(woken)}
    /\ woken' = Tail(woken)
    /\ UNCHANGED <<waiting, arrived>>

\* The last caller is woken first, and none when it waits alone: a mutant of Wake.
Wake_Last(queue) ==
    IF Len(queue) < 2 THEN [next |-> <<>>, rest |-> queue]
    ELSE [next |-> <<queue[Len(queue)]>>, rest |-> SubSeq(queue, 1, Len(queue) - 1)]

\* waiting.shift().
Wake(queue) ==
    IF queue = <<>> THEN [next |-> <<>>, rest |-> <<>>]
    ELSE [next |-> <<Head(queue)>>, rest |-> Tail(queue)]

\* The end of a task, whether it succeeds or throws.
Leave(c) ==
    /\ c \in running /\ Settled(woken)
    /\ active' = active - 1
    /\ running' = running \ {c}
    /\ waiting' = Wake(waiting).rest
    /\ woken' = woken \o Wake(waiting).next
    /\ UNCHANGED arrived

Next == Resume \/ \E c \in Callers : Run(c) \/ Leave(c)

Spec == Init /\ [][Next]_semVars

------------------------------------------------------------------------------
TypeOK ==
    /\ active \in Nat /\ running \subseteq Callers
    /\ waiting \in Seq(Callers) /\ woken \in Seq(Callers) /\ arrived \in Seq(Callers)

\* "Un seul rendu lourd a la fois": never more tasks than places, although a
\* place given back is free for anyone until the caller it wakes takes it.
AtMostLimit == Cardinality(running) <= Limit

\* No wake-up is lost: nobody waits while a place is free and nobody is on
\* the way to it.
NobodyWaitsInVain == waiting # <<>> => active + Len(woken) >= Limit

\* "Les appels s'enchainent dans l'ordre": whoever waits came after everyone
\* who runs or is about to.
InOrder ==
    \A m, n \in DOMAIN arrived :
        m < n /\ (arrived[n] \in running \/ \E k \in DOMAIN woken : woken[k] = arrived[n])
          => \A k \in DOMAIN waiting : waiting[k] # arrived[m]

\* What makes the counter count.
Counted == active = Cardinality(running) /\ Len(woken) + active <= Limit
==============================================================================
