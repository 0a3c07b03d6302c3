----------------------------- MODULE Ownership -----------------------------
(***************************************************************************)
(* What a managed resource promises about its external resource, without   *)
(* names, versions, caches or calls: it owns at most one; it lets go of it *)
(* only for good; once Delete has been called it never gets another; and   *)
(* the object outlives what it owns.                                       *)
(***************************************************************************)
CONSTANT Ids

VARIABLES owned,    \* the external resources the object answers for
          asked,    \* the user has deleted the object
          ended,    \* Delete has been called
          gone      \* the object is gone

vars == <<owned, asked, ended, gone>>

Init == owned = {} /\ asked = FALSE /\ ended = FALSE /\ gone = FALSE

\* The object gets its resource.
Acquire ==
    /\ owned = {} /\ ~ended /\ ~gone
    /\ \E id \in Ids : owned' = {id}
    /\ UNCHANGED <<asked, ended, gone>>

\* The resource disappears, or its name does.
Release == owned' = {} /\ UNCHANGED <<asked, ended, gone>>

\* The user deletes the object; one that was never set up goes at once.
Ask ==
    /\ ~asked /\ asked' = TRUE
    /\ gone' \in (IF owned = {} THEN BOOLEAN ELSE {FALSE})
    /\ UNCHANGED <<owned, ended>>

\* Delete is called, and may take effect at once.
End ==
    /\ asked /\ ended' = TRUE
    /\ owned' \in {owned, {}}
    /\ UNCHANGED <<asked, gone>>

\* The object goes when it owns nothing any more.
Finish == asked /\ owned = {} /\ gone' = TRUE /\ UNCHANGED <<owned, asked, ended>>

Next == Acquire \/ Release \/ Ask \/ End \/ Finish

Spec == Init /\ [][Next]_vars
=============================================================================
