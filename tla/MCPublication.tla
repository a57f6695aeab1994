---------------------------- MODULE MCPublication ----------------------------
(***************************************************************************)
(* Small instances of the publication pipeline for TLC.                    *)
(***************************************************************************)
EXTENDS PublicationProps, TLC

CONSTANTS a1, a2

MCLevelA == [a \in Accounts |-> "A"]
MCLevelAB == [a \in Accounts |-> IF a = a1 THEN "A" ELSE "B"]

\* Everything that the comments of the HTTP client call possible.
MCHonestLands == SurelyOnline \cup {"unreadable", "timeout"}
MCAllEvents == Events

==============================================================================
