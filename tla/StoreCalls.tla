----------------------------- MODULE StoreCalls -----------------------------
(***************************************************************************)
(* What the store modules share.  A call is a record with its op.  MemStore *)
(* holds its mutex and serves a call in one step, which gives the contents *)
(* afterwards and an answer; PostgresStore serves it as statements, each   *)
(* of which gives the tables afterwards and either where the call goes on, *)
(* and what it saw, or an answer.                                          *)
(***************************************************************************)
EXTENDS Naturals, Sequences, FiniteSets, SequencesExt

Ok == <<"ok">>
Refused == <<"error">>

Gives(m, ans) == [mem |-> m, ans |-> ans]

\* why: what a statement does that MemStore would not, see module Stores.
Statement(p, at, saw, ans, why) ==
    [pg |-> p, at |-> at, saw |-> saw, ans |-> ans, why |-> why]

Goes(p, at, saw) == Statement(p, at, saw, << >>, {})
Returns(p, ans) == Statement(p, "done", 0, ans, {})
Strays(p, ans, why) == Statement(p, "done", 0, ans, {why})

\* A write that fails leaves the tables alone.
Fails(p) == Returns(p, Refused)

Newest(s, n) == IF Len(s) <= n THEN s ELSE SubSeq(s, Len(s) - n + 1, Len(s))
=============================================================================
