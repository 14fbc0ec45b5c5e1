--------------------------- MODULE RequestLimit ---------------------------
(***************************************************************************)
(* What `-J,--jobs-requests` promises ("Amount of concurrent request per   *)
(* service by this application"): of the clients of one service at most    *)
(* Limit are inside a request at any time, and every request ends.  This   *)
(* is the abstract specification that module Scan implements.              *)
(***************************************************************************)
EXTENDS Naturals, FiniteSets

CONSTANTS Client, Limit

VARIABLE active

Init == active = {}

Enter(c) ==
    /\ c \notin active
    /\ Cardinality(active) < Limit
    /\ active' = active \cup {c}

Leave(c) ==
    /\ c \in active
    /\ active' = active \ {c}

Next == \E c \in Client : Enter(c) \/ Leave(c)

Safety == Init /\ [][Next]_active

\* A request that has begun ends: answered, failed, timed out or cancelled.
Spec == Safety /\ \A c \in Client : WF_active(Leave(c))
===========================================================================
