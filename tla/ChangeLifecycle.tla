-------------------------- MODULE ChangeLifecycle --------------------------
(***************************************************************************)
(* What a Change row promises: the state machine of                        *)
(* docs/change-lifecycle.md, which statemachine_test.go drives cell by     *)
(* cell.  A row is created open, amended while it is not landed, abandoned *)
(* and reopened by a push, and landed once; landed is the end.             *)
(***************************************************************************)
EXTENDS Naturals

CONSTANT Changes

VARIABLES state,      \* none, open, abandoned or landed
          head,       \* the version the row shows
          landedSHA   \* the trunk commit of a landed row

vars == <<state, head, landedSHA>>

Init ==
    /\ state = [c \in Changes |-> "none"]
    /\ head = [c \in Changes |-> 0]
    /\ landedSHA = [c \in Changes |-> 0]

\* Create, amend or reopen: the head moves to any pushed version.
Push(c) ==
    /\ state[c] # "landed"
    /\ state' = [state EXCEPT ![c] = "open"]
    /\ head'[c] \in Nat \ {0} /\ head' = [head EXCEPT ![c] = head'[c]]
    /\ UNCHANGED landedSHA

Abandon(c) ==
    /\ state[c] = "open"
    /\ state' = [state EXCEPT ![c] = "abandoned"]
    /\ UNCHANGED <<head, landedSHA>>

Land(c) ==
    /\ state[c] = "open"
    /\ state' = [state EXCEPT ![c] = "landed"]
    /\ landedSHA'[c] \in Nat \ {0}
    /\ landedSHA' = [landedSHA EXCEPT ![c] = landedSHA'[c]]
    /\ UNCHANGED head

Next == \E c \in Changes : Push(c) \/ Abandon(c) \/ Land(c)

Spec == Init /\ [][Next]_vars
=============================================================================
