------------------------------ MODULE MCStacks ------------------------------
(* A stack of two Changes, and the requests that two handlers, or a handler *)
(* and the automerge worker, serve side by side.                            *)
EXTENDS StackLanding

MCStack == <<"a", "b">>

Mix(kinds, handlers, heads) ==
    [kinds |-> kinds, handlers |-> handlers, heads |-> heads]

MCMixes ==
    {Mix({"push", "land"}, {"h1", "h2"}, 3),
     Mix({"push", "stack", "abandon"}, {"h1"}, 3),
     Mix({"sync", "stack"}, {"h1", "h2"}, 4),
     Mix({"sync", "push", "land"}, {"h1"}, 4),
     Mix({"sync", "sweep"}, {"h1"}, 5),
     Mix({"push", "sweep"}, {"h1"}, 3),
     Mix({"force", "sweep"}, {"h1"}, 2)}

\* A sweep that meets the push of an amended stack.
StaleMixes == {Mix({"push", "sweep"}, {"h1"}, 4)}
=============================================================================
