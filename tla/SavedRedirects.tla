--------------------------- MODULE SavedRedirects ---------------------------
(***************************************************************************)
(* Lists of redirects, as a call of SaveRedirects has them (pkg/services/  *)
(* websites/service): for each pattern a destination, the last one if the  *)
(* list has several.                                                       *)
(***************************************************************************)
CONSTANTS
    Patterns,      \* the patterns of redirects
    Destinations   \* where they lead

Lists == UNION {[P -> Destinations] : P \in SUBSET Patterns}

NoRedirects == [p \in {} |-> p]

\* Fault: the redirects that aren't in the list stay.
SavedRemovingNone(list, had) ==
    [p \in DOMAIN list \cup DOMAIN had |-> IF p \in DOMAIN had THEN had[p] ELSE list[p]]

\* What a website that had some has after a call: the patterns of the list, but
\* one that it had leads where it led, since its redirect is neither made again
\* nor updated.
Saved(list, had) == [p \in DOMAIN list |-> IF p \in DOMAIN had THEN had[p] ELSE list[p]]
=============================================================================
