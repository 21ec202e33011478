----------------------------- MODULE Management -----------------------------
(***************************************************************************)
(* What the operators promise about a Jaeger CR, whatever they do inside:  *)
(* its user alone decides whether it exists and what it asks for; it gets  *)
(* a manager once, and keeps it; and only that manager works on it.        *)
(* JaegerReconcile, with any number of pods, implements this.              *)
(***************************************************************************)
EXTENDS Naturals

CONSTANTS
    Identities,   \* the operators
    NoOwner

VARIABLES
    uid,       \* the CR there is, 0 when there is none
    owner,     \* its operated-by label
    edit,      \* the content its user gave it
    given,     \* the uids handed out
    made,      \* the edits made
    working    \* the operators that work on this CR

state == <<uid, owner, edit, given, made, working>>

Init ==
    /\ \/ uid = 0 /\ owner = NoOwner /\ given = 0
       \/ uid = 1 /\ owner \in Identities /\ given = 1
    /\ edit = 0
    /\ made = 0
    /\ working = {}

Create ==
    /\ uid = 0
    /\ given' = given + 1 /\ uid' = given'
    /\ made' = made + 1 /\ edit' = made'
    /\ owner' = NoOwner
    /\ working' = {}

Edit ==
    /\ uid # 0
    /\ made' = made + 1 /\ edit' = made'
    /\ UNCHANGED <<uid, owner, given, working>>

Delete ==
    /\ uid # 0
    /\ uid' = 0 /\ owner' = NoOwner /\ edit' = 0
    /\ working' = {}
    /\ UNCHANGED <<given, made>>

(* An operator becomes the manager of a CR that has none, or the manager   *)
(* begins or ends its work.                                                *)
Operate ==
    /\ owner' = owner \/ (uid # 0 /\ owner = NoOwner /\ owner' \in Identities)
    /\ working' \subseteq {owner'} \ {NoOwner}
    /\ UNCHANGED <<uid, edit, given, made>>

Next == Create \/ Edit \/ Delete \/ Operate

Spec == Init /\ [][Next]_state
=============================================================================
