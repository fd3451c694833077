-------------------------- MODULE MCResourceQueue --------------------------
(* A small instance of the claim queue: everything that meets in one tree,  *)
(* a run and a stable look at all of it, a read and a write of one path,    *)
(* and a service.                                                           *)
EXTENDS ResourceQueue, TLC
CONSTANTS t1, t2, t3, t4

Path(name, write, holder, stable) ==
    [name |-> name, write |-> write, holder |-> holder, stable |-> stable, kind |-> "path"]
Service(name, write) ==
    [name |-> name, write |-> write, holder |-> "process", stable |-> FALSE, kind |-> "service"]

Root == <<>>
P    == <<"p">>

Read(p)   == [claims |-> {Path(p, FALSE, "file", FALSE)}, bounded |-> TRUE]
Write(p)  == [claims |-> {Path(p, TRUE, "file", FALSE)}, bounded |-> TRUE]
Run(p)    == [claims |-> {Path(p, TRUE, "process", FALSE)}, bounded |-> FALSE]
Stable(p) == [claims |-> {Path(p, FALSE, "process", TRUE)}, bounded |-> FALSE]
Serve     == [claims |-> {Service(<<"db">>, TRUE)}, bounded |-> FALSE]

MCRequests == {Run(Root), Stable(Root), Read(P), Write(P), Serve}

Symmetric == Permutations({t1, t2, t3, t4})

=============================================================================
