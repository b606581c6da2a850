------------------------------ MODULE MCLines -------------------------------
(* What is around the Change server, beside the server itself taken one     *)
(* request at a time: the checkout a stack is written in, the store behind  *)
(* the server, the doors in front of it, projects made and deleted on the   *)
(* server or in a checkout, the checkouts of a machine, the review of a     *)
(* Change, the way to GitHub and back, the CI job behind it, the binary and *)
(* the agent's files on a machine, and a workspace's activity feed.  A      *)
(* behaviour is about one of them, named by side, while the others stay as  *)
(* they start.                                                              *)
EXTENDS MCRaces, MCSides, Authoring, LocalCreate

VARIABLE side

Checkout(dialect, attached, edits, moves) ==
    [jj |-> dialect = "jj", hooked |-> dialect = "hooked git",
     attached |-> attached, edits |-> edits, moves |-> moves]

MCCheckouts ==
    {Checkout("jj", TRUE, {"x", "far"}, 0), Checkout("jj", TRUE, {"x", "big"}, 0),
     Checkout("jj", TRUE, {"x", "y"}, 0), Checkout("jj", FALSE, {"x"}, 1),
     Checkout("jj", TRUE, {"x"}, 1), Checkout("hooked git", FALSE, {"x", "y"}, 0),
     Checkout("git", FALSE, {"x", "far"}, 0), Checkout("git", TRUE, {"x"}, 2)}

MCDesks == [jj : BOOLEAN, detached : BOOLEAN, sparse : BOOLEAN]

Sides == {"server", "checkout", "store", "doors", "projects", "local", "machine", "review",
          "dispatch", "update", "files", "feed", "executor"}

AnyAsk == CHOOSE r \in Arrivals : TRUE

LinesInit ==
    /\ side \in Sides
    /\ side # "checkout" => repo = CHOOSE c \in Checkouts : TRUE
    /\ side # "store" => family = CHOOSE f \in DOMAIN StoreOps : TRUE
    /\ side # "doors" => world = Quiet /\ ask = AnyAsk
    /\ side # "projects" => scene = Empty
    /\ side # "machine" => machine = Bare
    /\ side # "review" => talk = Silence
    /\ side # "dispatch" => route = NoRoute
    /\ side # "update" => host = CHOOSE h \in Hosts : TRUE
    /\ side # "files" => ground = CHOOSE g \in Grounds : TRUE
    /\ side # "feed" => day = CHOOSE d \in Days : TRUE
    /\ side # "executor" => job = PlainJob
    /\ ExecutorInit /\ AuthorInit /\ StoreInit /\ ProjectInit /\ MakerInit /\ MachineInit
    /\ ReviewInit /\ DispatchInit /\ UpdateInit /\ FileInit /\ ActivityInit /\ Init /\ DoorInit
    /\ side # "server" => trunk = << >>
    /\ side # "local" => desk.kind = CHOOSE d \in Desks : TRUE

serverVars == <<vars, authorVars, storeVars, doorVars>>
localVars == <<projectVars, makerVars, machineVars>>
homeVars == <<updateVars, fileVars, activityVars>>
farVars == <<reviewVars, dispatchVars, homeVars, executorVars>>

LinesNext ==
    /\ UNCHANGED side
    /\ \/ /\ side = "server" /\ Next
          /\ UNCHANGED <<authorVars, storeVars, doorVars, localVars, farVars>>
       \/ /\ side = "checkout" /\ AuthorNext
          /\ UNCHANGED <<vars, storeVars, doorVars, localVars, farVars>>
       \/ /\ side = "store" /\ StoreNext
          /\ UNCHANGED <<vars, authorVars, doorVars, localVars, farVars>>
       \/ /\ side = "doors" /\ DoorNext
          /\ UNCHANGED <<vars, authorVars, storeVars, localVars, farVars>>
       \/ /\ side = "projects" /\ ProjectNext
          /\ UNCHANGED <<vars, authorVars, storeVars, doorVars, makerVars, machineVars, farVars>>
       \/ /\ side = "local" /\ MakerNext
          /\ UNCHANGED <<vars, authorVars, storeVars, doorVars, projectVars, machineVars, farVars>>
       \/ /\ side = "machine" /\ MachineNext
          /\ UNCHANGED <<vars, authorVars, storeVars, doorVars, projectVars, makerVars, farVars>>
       \/ /\ side = "review" /\ ReviewNext
          /\ UNCHANGED <<serverVars, localVars, dispatchVars, homeVars, executorVars>>
       \/ /\ side = "dispatch" /\ DispatchNext
          /\ UNCHANGED <<serverVars, localVars, reviewVars, homeVars, executorVars>>
       \/ /\ side = "executor" /\ ExecutorNext
          /\ UNCHANGED <<serverVars, localVars, reviewVars, dispatchVars, homeVars>>
       \/ /\ UNCHANGED <<serverVars, localVars, reviewVars, dispatchVars, executorVars>>
          /\ \/ side = "update" /\ UpdateNext /\ UNCHANGED <<fileVars, activityVars>>
             \/ side = "files" /\ FileNext /\ UNCHANGED <<updateVars, activityVars>>
             \/ side = "feed" /\ ActivityNext /\ UNCHANGED <<updateVars, fileVars>>

lineVars == <<serverVars, localVars, farVars, side>>
LinesSpec == LinesInit /\ [][LinesNext]_lineVars

\* CreatesSound - what is made on a machine or by a request is sound: projects, by the
\* server or by `runko project create` in a checkout, and the machine's checkouts with
\* their identities. The index stays sound, and no commit and no unsaved work is lost.
CreatesSound == ProjectsSound /\ LocalCreatesKept /\ MachineKept
=============================================================================
