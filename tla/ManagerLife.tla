---------------------------- MODULE ManagerLife ----------------------------
(***************************************************************************)
(* The life of a container's cgroups: Apply creates them and puts the      *)
(* container's process in, Destroy removes them.  The four managers are    *)
(* the flavours "fs" (cgroups/fs), "sd1" (systemd/v1.go), "fs2" and "sd2"  *)
(* (systemd/v2.go); the first two have several hierarchies, the others one.*)
(* Containers share their parent directories, and their managers run at    *)
(* the same time, in processes of their own.                               *)
(*                                                                         *)
(* A directory is a hierarchy and a path of names below its mount point.   *)
(* A container's process makes a sub-cgroup "s" in its own cgroup, moves   *)
(* into it and exits when it likes.  With -1 for a pid (env.noPid) Apply   *)
(* makes the cgroups for no process.                                       *)
(***************************************************************************)
EXTENDS Integers, Sequences, FiniteSets, SequencesExt

CONSTANTS Containers,
          Envs,       \* the configurations considered
          Retries,    \* the rounds of RemovePaths: 5 in the code
          Writes,     \* the attempts of WriteCgroupProc: 5 in the code
          MaxDestroys,\* bound: how often Destroy is called
          Neighbours  \* bound: containers of which only Apply is considered

VARIABLES env,        \* the flavour, the configuration, the host
          dirs,       \* kernel: the directories
          typ,        \* kernel: cgroup.type of a directory, for cgroup v2
          cpus,       \* kernel: the cpuset directories that have CPUs
          proc,       \* kernel: where a container's process is, by hierarchy
          alive,      \* ... and whether it still runs
          paths,      \* m.paths: the hierarchies of a manager
          pc, todo,   \* what a manager does, and the steps it has left
          tries,      \* attempts of the loop it is in
          made,       \* the directories its CreateCgroupPath made, in order
          result,     \* what its last call returned
          joined,     \* history: the hierarchies in which Apply has come to the
                      \* end, with the process in the cgroup if there is one
          alone,      \* history: no other call ran since its last one began
          destroys

vars == <<env, dirs, typ, cpus, proc, alive, paths, pc, todo, tries, made, result, joined, alone, destroys>>
kernel == <<dirs, typ, cpus, proc, alive>>
call == <<tries, made, joined>>

V2 == env.flavour \in {"fs2", "sd2"}
Systemd == env.flavour \in {"sd1", "sd2"}

(* The subsystems in the order of the code's list, reduced to one that is  *)
(* special, one that is not, and systemd's own.                            *)
subsystems ==
    IF V2 THEN <<"unified">>
    ELSE IF env.flavour = "sd1" THEN <<"cpuset", "memory", "name=systemd">> ELSE <<"cpuset", "memory">>
Hierarchies == {"cpuset", "memory", "name=systemd", "unified"}

Ancestors == <<<<"P">>, <<"P", "Q">>>>
Own(c) == <<"P", "Q", c>>
Sub(c) == <<"P", "Q", c, "s">>
Dir(h, d) == <<h, d>>
Exists(h, d) == d = <<>> \/ Dir(h, d) \in dirs
Busy(h, d) == \/ \E e \in dirs : e[1] = h /\ Len(e[2]) > Len(d) /\ SubSeq(e[2], 1, Len(d)) = d
              \/ \E c \in Containers : alive[c] /\ proc[c][h] = d

Step(k, h, d) == [k |-> k, h |-> h, d |-> d]

-----------------------------------------------------------------------------
(* The calls as sequences of steps.                                        *)

(* CpusetGroup.ApplyDir and apply: one subsystem of a v1 manager.          *)
ApplySubsystem(h, c) ==
    IF h = "cpuset"
    THEN <<Step("mkdir", h, Ancestors[1]), Step("copy", h, Ancestors[1]),
           Step("mkdir", h, Ancestors[2]), Step("copy", h, Ancestors[2]), Step("mkdir", h, Own(c)),
           Step("cpus", h, Own(c)), Step("copy", h, Own(c)), Step("join", h, Own(c))>>
    ELSE <<Step("mkdir", h, Ancestors[1]), Step("mkdir", h, Ancestors[2]), Step("mkdir", h, Own(c)), Step("join", h, Own(c))>>

CreateCgroupPath(c) ==
    LET h == "unified"
    IN  <<Step("controllers", h, <<>>), Step("create", h, Ancestors[1]), Step("type", h, Ancestors[1]),
          Step("create", h, Ancestors[2]), Step("type", h, Ancestors[2]), Step("create", h, Own(c)), Step("type", h, Own(c))>>

ApplySteps(c) ==
    LET apply(h) == IF h \in paths[c] THEN ApplySubsystem(h, c) ELSE <<>>
    IN  IF env.flavour = "fs2" THEN CreateCgroupPath(c) \o <<Step("join", "unified", Own(c))>>
        ELSE IF env.flavour = "sd2" THEN <<Step("start", "unified", Own(c))>> \o CreateCgroupPath(c) \o <<Step("chown", "unified", Own(c))>>
        ELSE (IF Systemd THEN <<Step("start", "name=systemd", Own(c))>> ELSE <<>>)
             \o apply("cpuset") \o apply("memory")

RemoveSteps(c) ==
    LET remove(h) == IF h \in paths[c] THEN <<Step("rm", h, Own(c))>> ELSE <<>>
    IN  remove("cpuset") \o remove("memory") \o remove("name=systemd") \o remove("unified")

-----------------------------------------------------------------------------
Init ==
    /\ env \in Envs
    /\ dirs = {Dir(h, Ancestors[1]) : h \in IF env.parent = "none" THEN {} ELSE Range(subsystems)}
    /\ typ = [d \in Range(Ancestors) \cup {Own(c) : c \in Containers} |->
                IF d = Ancestors[1] /\ env.parent # "none" THEN env.parent ELSE "domain"]
    /\ cpus = {<<>>}
    /\ proc = [c \in Containers |-> [h \in Hierarchies |-> <<>>]]
    /\ alive = [c \in Containers |-> ~env.noPid]
    /\ paths = [c \in Containers |-> Range(subsystems)]
    /\ pc = [c \in Containers |-> "new"]
    /\ todo = [c \in Containers |-> <<>>]
    /\ tries = [c \in Containers |-> 0]
    /\ made = [c \in Containers |-> <<>>]
    /\ result = [c \in Containers |-> "none"]
    /\ joined = [c \in Containers |-> {}]
    /\ alone = [c \in Containers |-> TRUE]
    /\ destroys = [c \in Containers |-> 0]

InCall(c) == pc[c] \in {"apply", "undo", "destroy"}
Begin(c, op, steps) ==
    /\ pc' = [pc EXCEPT ![c] = op]
    /\ todo' = [todo EXCEPT ![c] = steps]
    /\ tries' = [tries EXCEPT ![c] = 0]
    /\ alone' = [x \in Containers |-> x = c /\ \A y \in Containers \ {c} : ~InCall(y)]
    /\ result' = [result EXCEPT ![c] = "none"]

Return(c, res) ==
    /\ pc' = [pc EXCEPT ![c] = "idle"]
    /\ todo' = [todo EXCEPT ![c] = <<>>]
    /\ result' = [result EXCEPT ![c] = res]

Apply(c) ==
    /\ pc[c] = "new"
    /\ Begin(c, "apply", ApplySteps(c))
    /\ UNCHANGED <<env, kernel, paths, made, joined, destroys>>

(* Destroy; systemd's managers stop the unit first.                        *)
Destroy(c) ==
    /\ pc[c] = "idle"
    /\ destroys[c] < MaxDestroys
    /\ destroys' = [destroys EXCEPT ![c] = @ + 1]
    /\ Begin(c, "destroy", (IF Systemd THEN <<Step("stop", subsystems[Len(subsystems)], Own(c))>> ELSE <<>>) \o RemoveSteps(c))
    /\ UNCHANGED <<env, kernel, paths, made, joined>>

AtStep(c, k) == InCall(c) /\ todo[c] # <<>> /\ Head(todo[c]).k = k
H(c) == Head(todo[c]).h
D(c) == Head(todo[c]).d
Continue(c) == todo' = [todo EXCEPT ![c] = Tail(@)] /\ UNCHANGED <<pc, result>>
(* The loop over the subsystems goes on with the next one.                 *)
NextSubsystem(c) ==
    \E n \in 1..Len(todo[c]) + 1 :
        /\ \A i \in 1..(n - 1) : todo[c][i].h = H(c)
        /\ n <= Len(todo[c]) => todo[c][n].h # H(c)
        /\ todo' = [todo EXCEPT ![c] = SubSeq(@, n, Len(@))]
        /\ UNCHANGED <<pc, result>>
OnlyKernel == UNCHANGED <<env, paths, alone, destroys>>

-----------------------------------------------------------------------------
(* Apply.                                                                  *)

(* A mutation: the directories are removed in the order they were made.    *)
UndoInOrder(c) == [i \in DOMAIN made[c] |-> Step("undo", "unified", made[c][i])]

(* The deferred functions run last in, first out.                          *)
Undo(c) == [i \in DOMAIN made[c] |-> Step("undo", "unified", made[c][Len(made[c]) + 1 - i])]

(* A step of Apply fails.  A rootless fs manager forgets a hierarchy it    *)
(* has no permission for, if no path was asked for; CreateCgroupPath runs  *)
(* its deferred removals; the others return.                               *)
ApplyFails(c) ==
    /\ pc[c] = "apply" /\ todo[c] # <<>>
    /\ Head(todo[c]).k = "join" => ~env.noPid
    /\ \/ /\ env.flavour = "fs" /\ env.rootless
          /\ paths' = [paths EXCEPT ![c] = @ \ {H(c)}]
          /\ NextSubsystem(c)
       \/ /\ Head(todo[c]).k \notin {"controllers", "create", "type"}
          /\ Return(c, "err")
          /\ UNCHANGED paths
       \/ /\ Head(todo[c]).k \in {"controllers", "create"}
          /\ pc' = [pc EXCEPT ![c] = "undo"]
          /\ todo' = [todo EXCEPT ![c] = Undo(c)]
          /\ UNCHANGED <<result, paths>>
    /\ UNCHANGED <<env, kernel, call, alone, destroys>>

(* A mutation: a cpuset that exists is taken to have its CPUs.             *)
MkdirTrusting(c) ==
    /\ AtStep(c, "mkdir")
    /\ Exists(H(c), Front(D(c)))
    /\ dirs' = dirs \cup {Dir(H(c), D(c))}
    /\ todo' = [todo EXCEPT ![c] = IF Exists(H(c), D(c)) /\ @[2].k = "copy" THEN Tail(Tail(@)) ELSE Tail(@)]
    /\ UNCHANGED <<pc, result, typ, cpus, proc, alive, call>> /\ OnlyKernel

(* os.Mkdir of one directory, where it may exist (fs managers).            *)
Mkdir(c) ==
    /\ AtStep(c, "mkdir")
    /\ Exists(H(c), Front(D(c)))
    /\ dirs' = dirs \cup {Dir(H(c), D(c))}
    /\ Continue(c)
    /\ UNCHANGED <<typ, cpus, proc, alive, call>> /\ OnlyKernel

(* cpusetCopyIfNeeded: an empty cpuset gets its parent's.                  *)
cpusetCopyIfNeeded(c) ==
    /\ AtStep(c, "copy")
    /\ Exists(H(c), D(c))
    /\ cpus' = IF Front(D(c)) \in cpus THEN cpus \cup {D(c)} ELSE cpus
    /\ Continue(c)
    /\ UNCHANGED <<dirs, typ, proc, alive, call>> /\ OnlyKernel

(* CpusetGroup.Set in ensureCpusAndMems, which writes nothing if no CPUs   *)
(* are asked for; the kernel wants a subset of the parent's.               *)
SetCpus(c) ==
    /\ AtStep(c, "cpus")
    /\ env.setCpus => Exists(H(c), D(c)) /\ Front(D(c)) \in cpus
    /\ cpus' = IF env.setCpus THEN cpus \cup {D(c)} ELSE cpus
    /\ Continue(c)
    /\ UNCHANGED <<dirs, typ, proc, alive, call>> /\ OnlyKernel

Joins(c) ==
    /\ proc' = IF env.noPid THEN proc ELSE [proc EXCEPT ![c][H(c)] = D(c)]
    /\ joined' = [joined EXCEPT ![c] = @ \cup {H(c)}]
    /\ tries' = [tries EXCEPT ![c] = 0]
    /\ Continue(c)

(* A mutation: after the last attempt the error is dropped.                *)
WriteCgroupProcGivesUp(c) ==
    /\ AtStep(c, "join")
    /\ env.noPid \/ (Exists(H(c), D(c)) /\ alive[c] /\ (H(c) = "cpuset" => D(c) \in cpus))
    /\ \/ Joins(c)
       \/ tries[c] < Writes - 1 /\ tries' = [tries EXCEPT ![c] = @ + 1] /\ UNCHANGED <<proc, joined, pc, todo, result>>
       \/ tries[c] = Writes - 1 /\ tries' = [tries EXCEPT ![c] = 0] /\ Continue(c) /\ UNCHANGED <<proc, joined>>
    /\ UNCHANGED <<dirs, typ, cpus, alive, made>> /\ OnlyKernel

(* WriteCgroupProc: EINVAL is tried again, a fixed number of times, and    *)
(* then an error (ApplyFails).  A cpuset without CPUs takes no process.    *)
(* For pid -1 nothing is opened or written.                                *)
WriteCgroupProc(c) ==
    /\ AtStep(c, "join")
    /\ env.noPid \/ (Exists(H(c), D(c)) /\ alive[c] /\ (H(c) = "cpuset" => D(c) \in cpus))
    /\ \/ Joins(c)
       \/ /\ ~env.noPid /\ tries[c] < Writes - 1
          /\ tries' = [tries EXCEPT ![c] = @ + 1] /\ UNCHANGED <<proc, joined, pc, todo, result>>
    /\ UNCHANGED <<dirs, typ, cpus, alive, made>> /\ OnlyKernel

(* startUnit (module SystemdUnit): systemd makes the unit's directory and  *)
(* its parents in its hierarchy and moves the process there.  For pid -1   *)
(* there is none to move, and a unit that exists already will do.          *)
StartUnit(c) ==
    /\ AtStep(c, "start")
    /\ alive[c] \/ env.noPid
    /\ \/ dirs' = dirs \cup {Dir(H(c), d) : d \in Range(Ancestors) \cup {D(c)}}
       \/ env.noPid /\ dirs' = dirs
    /\ Joins(c)
    /\ UNCHANGED <<typ, cpus, alive, made>> /\ OnlyKernel

supportedControllers(c) ==
    /\ AtStep(c, "controllers")
    /\ made' = [made EXCEPT ![c] = <<>>]
    /\ Continue(c)
    /\ UNCHANGED <<kernel, tries, joined>> /\ OnlyKernel

(* A new directory below a threaded one is in an invalid state.            *)
TypeBelow(d) == IF d # <<>> /\ typ[d] # "domain" THEN "domain invalid" ELSE "domain"

(* CreateCgroupPath's os.Mkdir, which remembers what it made.  Enabling    *)
(* the controllers is best effort and left out.                            *)
CreateDir(c) ==
    /\ AtStep(c, "create")
    /\ Exists("unified", Front(D(c)))
    /\ IF Exists("unified", D(c)) THEN UNCHANGED <<dirs, typ, made>>
       ELSE /\ dirs' = dirs \cup {Dir("unified", D(c))}
            /\ typ' = [typ EXCEPT ![D(c)] = TypeBelow(Front(D(c)))]
            /\ made' = [made EXCEPT ![c] = Append(@, D(c))]
    /\ Continue(c)
    /\ UNCHANGED <<cpus, proc, alive, tries, joined>> /\ OnlyKernel

(* cgroup.type: a threaded cgroup cannot have domain controllers, and an   *)
(* invalid one is made threaded if that will do.                           *)
CheckType(c) ==
    /\ AtStep(c, "type")
    /\ LET type == IF Exists("unified", D(c)) THEN typ[D(c)] ELSE ""
       IN  IF type \in {"domain invalid", "domain threaded", "threaded"} /\ env.domainControllers
           THEN pc' = [pc EXCEPT ![c] = "undo"] /\ todo' = [todo EXCEPT ![c] = Undo(c)] /\ UNCHANGED <<typ, result>>
           ELSE /\ \/ type = "domain invalid" /\ typ' = [typ EXCEPT ![D(c)] = "threaded"]
                   \/ UNCHANGED typ
                /\ Continue(c)
    /\ UNCHANGED <<dirs, cpus, proc, alive, call>> /\ OnlyKernel

(* A deferred os.Remove; its error is ignored.                             *)
RemoveMade(c) ==
    /\ AtStep(c, "undo")
    /\ dirs' = IF Busy("unified", D(c)) THEN dirs ELSE dirs \ {Dir("unified", D(c))}
    /\ Continue(c)
    /\ UNCHANGED <<typ, cpus, proc, alive, call>> /\ OnlyKernel

(* A rootless fs2 manager that was asked for no limits and no path goes    *)
(* without a cgroup: Apply returns nil, or an error if needAnyControllers  *)
(* cannot tell.                                                            *)
MayGoWithout == env.flavour = "fs2" /\ env.rootless /\ ~env.limits
CreateFailed(c) ==
    /\ pc[c] = "undo" /\ todo[c] = <<>>
    /\ Return(c, "err") \/ (MayGoWithout /\ Return(c, "nil"))
    /\ UNCHANGED <<kernel, call>> /\ OnlyKernel

(* The directory and its files are given to the owner.                     *)
Chown(c) ==
    /\ AtStep(c, "chown")
    /\ Continue(c)
    /\ UNCHANGED <<kernel, call>> /\ OnlyKernel

Applied(c) ==
    /\ pc[c] = "apply" /\ todo[c] = <<>>
    /\ Return(c, "nil")
    /\ UNCHANGED <<kernel, call>> /\ OnlyKernel

-----------------------------------------------------------------------------
(* Destroy.                                                                *)

(* stopUnit: systemd ends the unit's processes and removes its directory   *)
(* (old versions leave sub-cgroups, and the directory with them).  If it   *)
(* refuses, or the job ends in another way than done, nil is returned too. *)
StopUnit(c) ==
    /\ AtStep(c, "stop")
    /\ \/ /\ alive' = [alive EXCEPT ![c] = FALSE]
          /\ dirs' \in {dirs, dirs \ {Dir(H(c), D(c)), Dir(H(c), Sub(c))}}
       \/ UNCHANGED <<alive, dirs>>
    /\ Continue(c)
    /\ UNCHANGED <<typ, cpus, proc, call>> /\ OnlyKernel

(* ... or times out.  The v2 manager gives up, the v1 manager goes on and  *)
(* returns the error at the end.                                           *)
StopFails(c) ==
    /\ AtStep(c, "stop")
    /\ IF V2 THEN Return(c, "err") ELSE todo' = [todo EXCEPT ![c] = Tail(@)] /\ result' = [result EXCEPT ![c] = "stop"] /\ UNCHANGED pc
    /\ UNCHANGED <<kernel, call>> /\ OnlyKernel

(* A directory is gone: RemovePaths deletes it from m.paths.  cpus forgets *)
(* a cpuset with its directory.                                            *)
Gone(c) ==
    /\ dirs' = dirs \ {Dir(H(c), D(c))}
    /\ cpus' = IF H(c) = "cpuset" THEN cpus \ {D(c)} ELSE cpus
    /\ paths' = [paths EXCEPT ![c] = IF V2 THEN @ ELSE @ \ {H(c)}]
    /\ Continue(c)

(* A mutation: a path is deleted whether it could be removed or not.       *)
StillThereForgotten(c) ==
    /\ paths' = [paths EXCEPT ![c] = IF V2 THEN @ ELSE @ \ {H(c)}]
    /\ IF V2 THEN Return(c, "err") ELSE NextSubsystem(c)
    /\ UNCHANGED <<dirs, cpus>>

(* RemovePath failed: RemovePaths keeps the path for the next round.       *)
StillThere(c) ==
    /\ IF V2 THEN Return(c, "err") ELSE NextSubsystem(c)
    /\ UNCHANGED <<dirs, cpus, paths>>

(* RemovePath, the fast path: rmdir.                                       *)
RemoveFast(c) ==
    /\ AtStep(c, "rm")
    /\ IF ~Busy(H(c), D(c)) THEN Gone(c)
       ELSE /\ todo' = [todo EXCEPT ![c] = <<Step("read", H(c), D(c))>> \o Tail(@)]
            /\ UNCHANGED <<dirs, cpus, paths, pc, result>>
    /\ UNCHANGED <<env, typ, proc, alive, call, alone, destroys>>

(* ... ReadDir: the sub-cgroups that are there now.                        *)
RemoveRead(c) ==
    /\ AtStep(c, "read")
    /\ todo' = [todo EXCEPT ![c] =
          (IF Exists(H(c), Sub(c)) THEN <<Step("sub", H(c), D(c)), Step("last", H(c), D(c))>> ELSE <<Step("last", H(c), D(c))>>)
          \o Tail(@)]
    /\ UNCHANGED <<kernel, call, paths, pc, result>> /\ UNCHANGED <<env, alone, destroys>>

(* ... RemovePath of a sub-cgroup, which may be in use.                    *)
RemoveSub(c) ==
    /\ AtStep(c, "sub")
    /\ IF Busy(H(c), Sub(c)) THEN StillThere(c)
       ELSE dirs' = dirs \ {Dir(H(c), Sub(c))} /\ Continue(c) /\ UNCHANGED <<cpus, paths>>
    /\ UNCHANGED <<env, typ, proc, alive, call, alone, destroys>>

(* ... and rmdir again.                                                    *)
RemoveLast(c) ==
    /\ AtStep(c, "last")
    /\ IF Busy(H(c), D(c)) THEN StillThere(c) ELSE Gone(c)
    /\ UNCHANGED <<env, typ, proc, alive, call, alone, destroys>>

(* The end of a round of RemovePaths, of RemovePath in a v2 manager.       *)
Removed(c) ==
    /\ pc[c] = "destroy" /\ todo[c] = <<>>
    /\ IF V2 \/ paths[c] = {} THEN Return(c, IF result[c] = "stop" THEN "err" ELSE "nil") /\ UNCHANGED tries
       ELSE IF tries[c] = Retries - 1 THEN Return(c, "err") /\ UNCHANGED tries
       ELSE tries' = [tries EXCEPT ![c] = @ + 1] /\ todo' = [todo EXCEPT ![c] = RemoveSteps(c)] /\ UNCHANGED <<pc, result>>
    /\ UNCHANGED <<kernel, made, joined>> /\ OnlyKernel

-----------------------------------------------------------------------------
(* The container's process (external), once Apply is over.                 *)
MakeSub(c) ==
    /\ alive[c] /\ pc[c] \in {"idle", "destroy"}
    /\ \E h \in joined[c] :
          /\ proc[c][h] = Own(c) /\ ~Exists(h, Sub(c))
          /\ dirs' = dirs \cup {Dir(h, Sub(c))}
    /\ UNCHANGED <<env, typ, cpus, proc, alive, paths, pc, todo, result, call, alone, destroys>>

EnterSub(c) ==
    /\ alive[c] /\ pc[c] \in {"idle", "destroy"}
    /\ \E h \in joined[c] :
          /\ proc[c][h] = Own(c) /\ Exists(h, Sub(c))
          /\ proc' = [proc EXCEPT ![c][h] = Sub(c)]
    /\ UNCHANGED <<env, dirs, typ, cpus, alive, paths, pc, todo, result, call, alone, destroys>>

Exit(c) ==
    /\ alive[c] /\ pc[c] # "new"
    /\ alive' = [alive EXCEPT ![c] = FALSE]
    /\ UNCHANGED <<env, dirs, typ, cpus, proc, paths, pc, todo, result, call, alone, destroys>>

ApplyStep(c) ==
    \/ ApplyFails(c) \/ Mkdir(c) \/ cpusetCopyIfNeeded(c) \/ SetCpus(c) \/ WriteCgroupProc(c) \/ StartUnit(c)
    \/ supportedControllers(c) \/ CreateDir(c) \/ CheckType(c) \/ RemoveMade(c) \/ CreateFailed(c) \/ Chown(c) \/ Applied(c)

DestroyStep(c) ==
    StopUnit(c) \/ StopFails(c) \/ RemoveFast(c) \/ RemoveRead(c) \/ RemoveSub(c) \/ RemoveLast(c) \/ Removed(c)

Work(c) == ApplyStep(c) \/ DestroyStep(c)

Finished ==
    /\ \A c \in Containers : pc[c] = "idle" /\ (c \notin Neighbours => destroys[c] = MaxDestroys)
    /\ UNCHANGED vars

Next ==
    \/ \E c \in Containers : Apply(c) \/ Work(c)
    \/ \E c \in Containers \ Neighbours : Destroy(c) \/ MakeSub(c) \/ EnterSub(c) \/ Exit(c)
    \/ Finished

Spec == Init /\ [][Next]_vars

-----------------------------------------------------------------------------
(* Properties.                                                             *)

(* When Apply has returned nil, the container's process, as long as it     *)
(* runs, is in the container's cgroup or in one it moved to below it, in   *)
(* every hierarchy of the manager: no limit is set on a cgroup that the    *)
(* container is not in.  The code makes three exceptions:                  *)
(*   - a rootless fs manager gives up hierarchies it has no permission     *)
(*     for; it has forgotten all that the process is not in;               *)
(*   - a rootless fs2 manager that was asked for neither limits nor a path *)
(*     and could not make its directory has put the process nowhere;       *)
(*   - for pid -1 no process is moved, in any hierarchy.                   *)
JoinedEverywhere ==
    \A c \in Containers : pc[c] = "idle" /\ result[c] = "nil" /\ destroys[c] = 0 =>
        /\ \/ joined[c] = Range(subsystems)
           \/ env.flavour = "fs" /\ env.rootless /\ paths[c] \subseteq joined[c]
           \/ MayGoWithout /\ joined[c] = {}
        /\ IF env.noPid THEN \A h \in Hierarchies : proc[c][h] = <<>>
           ELSE alive[c] => \A h \in joined[c] : proc[c][h] \in {Own(c), Sub(c)} /\ Exists(h, proc[c][h])

(* A cgroup that Apply finished and that still exists is one the manager   *)
(* still knows: a Destroy that failed can be called again, and one that    *)
(* returned nil has left nothing, whatever the container did to its        *)
(* sub-cgroups in the meantime.                                            *)
NoForgottenCgroup ==
    \A c \in Containers : \A h \in joined[c] :
        /\ Exists(h, Own(c)) => h \in paths[c]
        /\ pc[c] = "idle" /\ result[c] = "nil" /\ destroys[c] > 0 => ~Exists(h, Own(c)) /\ ~Exists(h, Sub(c))

(* When the deferred functions of a CreateCgroupPath that failed have run, *)
(* while no other call is under way, none of the directories it made is    *)
(* left, whichever step failed.                                            *)
CleanFailure ==
    \A c \in Containers : pc[c] = "undo" /\ todo[c] = <<>> /\ alone[c] =>
        \A i \in DOMAIN made[c] : ~Exists("unified", made[c][i])

(* A process is never moved into a cpuset that has no CPUs, which the      *)
(* kernel refuses, however the managers of two containers interleave when  *)
(* they make the parent they share.                                        *)
CpusetReady ==
    \A c \in Containers : AtStep(c, "join") /\ H(c) = "cpuset" => D(c) \in cpus

=============================================================================
