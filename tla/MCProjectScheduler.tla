------------------------ MODULE MCProjectScheduler ------------------------
(* Small instances of the Agent's admission.                                *)
EXTENDS ProjectScheduler, TLC
CONSTANTS t1, t2, t3

Path(name, write, holder) ==
    [name |-> name, write |-> write, holder |-> holder, kind |-> "path", stable |-> FALSE]
P == <<"p">>

Ticket(project, lane, target, claims, bounded) ==
    [project |-> project, lane |-> lane, target |-> target,
     claims |-> claims, bounded |-> bounded, joint |-> TRUE]

Preflight(p)  == [project |-> p, lane |-> "read", target |-> "",
                  claims |-> {}, bounded |-> FALSE, joint |-> FALSE]
Edit(p, path) == Ticket(p, "read", "", {Path(path, TRUE, "file")}, TRUE)
Search(p, path) == Ticket(p, "execution", "", {Path(path, FALSE, "file")}, FALSE)
Exec(p, path) == Ticket(p, "execution", "", {Path(path, TRUE, "process")}, FALSE)

Cap == [p \in {"a", "b", "c"} |-> IF p = "a" THEN 2 ELSE 64]

(* Three lanes and two projects, a limit per remote target, and a path on   *)
(* which a run, an edit, a converted search and the whole tree meet.        *)
Bare(project, lane, target) == [Preflight(project) EXCEPT !.lane = lane, !.target = target]

JointKinds       == {Preflight("a"), Exec("a", P), Edit("b", P),
                     Bare("a", "remote", "h"), Bare("b", "remote", "h")}
JointConversions == {Search("a", P)}
JointLocals      == {[claims |-> {Path(<<>>, TRUE, "file")}, bounded |-> FALSE]}

(* What could wait for each other: a preflight that wants claims, a run     *)
(* that wants a slot and claims, and a project_slot that wants the tree.    *)
GridKinds       == {Preflight("a"), Exec("a", P)}
GridConversions == {Search("a", P)}

(* One lane, three projects, nothing but capacity.                          *)
TurnKinds == {Preflight("a"), Preflight("b"), Preflight("c")}

None == {}
Symmetric == Permutations({t1, t2, t3})

=============================================================================
