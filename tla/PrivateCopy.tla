---------------------------- MODULE PrivateCopy ----------------------------
(***************************************************************************)
(* What the private execution database promises to an analysis: the copy   *)
(* it is given has the content it asked for, nothing that an earlier run   *)
(* left is there when it is given, and an analysis that ends well leaves   *)
(* nothing itself.  ExecutionSnapshot implements it.                       *)
(***************************************************************************)
CONSTANTS Contents, None

VARIABLES
    asked,      \* the content an analysis in progress wants, or None
    held,       \* the content of the copy it was given, or None
    left,       \* a private directory of an ended run is still there
    result      \* of the last run: "none", "ok", "raised" or "died"

vars == <<asked, held, left, result>>

Init == asked = None /\ held = None /\ left = FALSE /\ result = "none"

Ask(c) ==
    /\ asked = None
    /\ asked' = c
    /\ UNCHANGED <<held, left, result>>

\* What is left of earlier runs is removed.
Clean ==
    /\ left' = FALSE
    /\ UNCHANGED <<asked, held, result>>

Grant ==
    /\ asked # None /\ held = None /\ left = FALSE
    /\ held' = asked
    /\ UNCHANGED <<asked, left, result>>

EndWell ==
    /\ held # None /\ left' = FALSE
    /\ asked' = None /\ held' = None /\ result' = "ok"

\* The run fails or is killed; it may leave its directory.
EndBadly ==
    /\ asked' = None /\ held' = None
    /\ result' \in {"raised", "died"} /\ left' \in BOOLEAN /\ (left => left')

Next == (\E c \in Contents : Ask(c)) \/ Clean \/ Grant \/ EndWell \/ EndBadly

Spec == Init /\ [][Next]_vars
=============================================================================
