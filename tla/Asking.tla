------------------------------- MODULE Asking -------------------------------
(* What asking the guest agent promises: a request is settled once, an answer is *)
(* the result of the unit that ran for that very request, a unit runs at most     *)
(* once for a request (also after the host has given it up), and of the units     *)
(* that run under the guest's lock one runs at a time.                            *)
EXTENDS Naturals

CONSTANT
    Requests    \* the requests that can be made

VARIABLES
    settled,    \* each request: "new", "open", "answered", "refused" or "failed"
    work,       \* each request's unit: "none", "begun", "done", "denied" or "cut"
    holder      \* the requests whose units run under the guest's lock

promised == <<settled, work, holder>>

Init ==
    /\ settled = [r \in Requests |-> "new"]
    /\ work = [r \in Requests |-> "none"]
    /\ holder = {}

Open(r) ==
    /\ settled[r] = "new"
    /\ settled' = [settled EXCEPT ![r] = "open"]
    /\ UNCHANGED <<work, holder>>

\* The guest may take up a request its host has given up.
Begin(r, locked) ==
    /\ settled[r] # "new" /\ work[r] = "none"
    /\ locked => holder = {}
    /\ work' = [work EXCEPT ![r] = "begun"]
    /\ holder' = IF locked THEN {r} ELSE holder
    /\ UNCHANGED settled

\* The lock is held: the unit is not begun.
Deny(r) ==
    /\ settled[r] # "new" /\ work[r] = "none" /\ holder # {}
    /\ work' = [work EXCEPT ![r] = "denied"]
    /\ UNCHANGED <<settled, holder>>

End(r) ==
    /\ work[r] = "begun"
    /\ work' = [work EXCEPT ![r] = "done"]
    /\ holder' = holder \ {r}
    /\ UNCHANGED settled

\* The guest goes down under every unit it runs, and under some it has not begun.
Cut(lost) ==
    /\ lost \subseteq {r \in Requests : settled[r] # "new" /\ work[r] = "none"}
    /\ work' = [r \in Requests |-> IF work[r] = "begun" \/ r \in lost THEN "cut" ELSE work[r]]
    /\ holder' = {}
    /\ UNCHANGED settled

\* Answered and refused by a unit that ended, failed for any reason, at once too.
Settle(r, how) ==
    /\ settled[r] \in (IF how = "failed" THEN {"new", "open"} ELSE {"open"})
    /\ how \in {"answered", "refused"} => work[r] = "done"
    /\ settled' = [settled EXCEPT ![r] = how]
    /\ UNCHANGED <<work, holder>>

Next ==
    \/ \E r \in Requests : \/ Open(r) \/ Deny(r) \/ End(r)
                           \/ \E locked \in BOOLEAN : Begin(r, locked)
                           \/ \E how \in {"answered", "refused", "failed"} : Settle(r, how)
    \/ \E lost \in SUBSET Requests : Cut(lost)

Spec == Init /\ [][Next]_promised
=============================================================================
