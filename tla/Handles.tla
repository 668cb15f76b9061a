------------------------------ MODULE Handles -------------------------------
(***************************************************************************)
(* What a Slot of a Pool and a Handle of a Heap3 promise alike: a handle   *)
(* is good from the alloc that issued it to the free that retired it, and  *)
(* never again.  Nothing here says how the code recognises a good handle;  *)
(* it keeps a generation beside what the handle names.                     *)
(***************************************************************************)

CONSTANT Handle  \* every value of the handle type, also those nobody issued

VARIABLES
    accepted,  \* the handles free and bytes_mut would accept
    retired    \* the handles that were given back

vars == <<accepted, retired>>

Init ==
    /\ accepted = {}
    /\ retired = {}

\* alloc answering Some: a handle that was never good before.
Issue(h) ==
    /\ h \notin accepted \cup retired
    /\ accepted' = accepted \cup {h}
    /\ UNCHANGED retired

\* free answering Ok.
Retire(h) ==
    /\ h \in accepted
    /\ accepted' = accepted \ {h}
    /\ retired' = retired \cup {h}

Next == \E h \in Handle : Issue(h) \/ Retire(h)

Spec == Init /\ [][Next]_vars
=============================================================================
