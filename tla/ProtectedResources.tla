---- MODULE ProtectedResources ----
(***************************************************************************)
(* What a finalizer promises: an object may own resources only while its   *)
(* finalizer is set, and an object that is being deleted goes only when it *)
(* owns nothing any more.  The detailed specifications implement this one. *)
(***************************************************************************)
CONSTANT Resource

VARIABLES
    life,       \* "live", "deleting" or "gone"
    finalizer,  \* TRUE while the object is protected
    owned       \* the resources that exist for the object

vars == <<life, finalizer, owned>>

Init ==
    /\ life = "live"
    /\ finalizer = FALSE
    /\ owned = {}

Protect ==
    /\ life = "live"
    /\ finalizer' = TRUE
    /\ UNCHANGED <<life, owned>>

Claim ==
    /\ finalizer /\ life # "gone"
    /\ owned' \in SUBSET Resource /\ owned \subseteq owned'
    /\ UNCHANGED <<life, finalizer>>

RequestDeletion ==
    /\ life = "live"
    /\ life' = IF finalizer THEN "deleting" ELSE "gone"
    /\ UNCHANGED <<finalizer, owned>>

Dispose ==
    /\ life # "gone"
    /\ owned' \subseteq owned
    /\ UNCHANGED <<life, finalizer>>

Release ==
    /\ life = "deleting" /\ owned = {}
    /\ life' = "gone"
    /\ finalizer' = FALSE
    /\ UNCHANGED owned

Next == Protect \/ Claim \/ RequestDeletion \/ Dispose \/ Release

Spec == Init /\ [][Next]_vars
====
