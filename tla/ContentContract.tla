--------------------------- MODULE ContentContract ---------------------------
(***************************************************************************)
(* What the life of a content promises to the human who answers for it,    *)
(* whatever the model writes and whenever the worker runs: only a text     *)
(* that both controls have read, without an open risk, is approved; only   *)
(* the text that is approved and shown is published; another text takes    *)
(* the approval away, is later than the one it replaces and has yet to be  *)
(* read; and what is archived or published is not written again.           *)
(*                                                                         *)
(* A content that a worker wrote from a stale reading, or that was written *)
(* while a worker held a reading of it, is `raced': of it nothing is       *)
(* promised any more.                                                      *)
(***************************************************************************)
EXTENDS Naturals

VARIABLE contents

\* `contents' is a function over the identifiers of the contents.  Of each: its
\* stage ("open", "approved", "published", "archived" or "raced"), the text it
\* shows and the one approved (0 for none), the texts that both controls have
\* read, and those in which they found a risk.
Blank == [stage |-> "open", shown |-> 0, approved |-> 0, read |-> {}, risky |-> {}]

\* Nothing yet, or first texts that nobody has read.
Init ==
    /\ contents = [i \in DOMAIN contents |-> contents[i]]
    /\ \A i \in DOMAIN contents : contents[i] \in {Blank, [Blank EXCEPT !.shown = 1]}

\* New contents, as many as there are targets in the lot.
Create ==
    /\ DOMAIN contents \subseteq DOMAIN contents'
    /\ contents' = [i \in DOMAIN contents' |->
                      IF i \in DOMAIN contents THEN contents[i] ELSE Blank]

Becomes(i, content) == contents' = [contents EXCEPT ![i] = content]

\* Another text is shown, by a human or by a worker: nobody has read it, and
\* the approval is over.
Write(i) ==
    /\ contents[i].stage \in {"open", "approved"}
    /\ contents'[i].shown > contents[i].shown /\ contents'[i].shown \notin contents[i].read
    /\ Becomes(i, [contents[i] EXCEPT !.stage = "open", !.approved = 0,
                                      !.shown = contents'[i].shown])

\* Both controls have read a text that is or was shown, and say whether it
\* carries a risk.
Control(i) ==
    /\ contents[i].stage # "raced"
    /\ \E text \in 1 .. contents[i].shown, risky \in BOOLEAN :
         Becomes(i, [contents[i] EXCEPT
                       !.read = @ \cup {text},
                       !.risky = IF risky THEN @ \cup {text} ELSE @ \ {text}])

\* An approved content is taken back to its reader.
Reopen(i) ==
    /\ contents[i].stage = "approved"
    /\ Becomes(i, [contents[i] EXCEPT !.stage = "open"])

Approve(i) ==
    /\ contents[i].stage = "open"
    /\ contents[i].shown \in contents[i].read \ contents[i].risky
    /\ Becomes(i, [contents[i] EXCEPT !.stage = "approved", !.approved = contents[i].shown])

Publish(i) ==
    /\ contents[i].stage = "approved"
    /\ contents[i].approved = contents[i].shown /\ contents[i].shown \in contents[i].read
    /\ Becomes(i, [contents[i] EXCEPT !.stage = "published"])

Archive(i) ==
    /\ contents[i].stage \in {"open", "approved", "published"}
    /\ Becomes(i, [contents[i] EXCEPT !.stage = "archived"])

Race(i) == contents'[i].stage = "raced" /\ Becomes(i, contents'[i])

Next ==
    \/ Create
    \/ \E i \in DOMAIN contents :
         \/ Write(i) \/ Control(i) \/ Reopen(i) \/ Approve(i)
         \/ Publish(i) \/ Archive(i) \/ Race(i)

Spec == Init /\ [][Next]_contents
==============================================================================
