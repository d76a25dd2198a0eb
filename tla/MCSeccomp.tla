----------------------------- MODULE MCSeccomp -----------------------------
(* A small system call table and two families of profiles: one varies the *)
(* architectures the stub is made for, one the rules.                      *)
EXTENDS Seccomp

MCNames == {"read", "write", "clone3"}
MCNo ==
    [amd64 |-> [read |-> 0, write |-> 1, clone3 |-> 4],
     x32   |-> [read |-> 8, write |-> 9, clone3 |-> 10],
     x86   |-> [read |-> 3, write |-> 2, clone3 |-> -1],
     s390x |-> [read |-> 3, write |-> 4, clone3 |-> 5],
     arm64 |-> [read |-> 3, write |-> 4, clone3 |-> 6]]

Block(names, action, args) == [names |-> names, action |-> action, errno |-> NoErrno, args |-> args]
Profile(default, errno, arches, blocks) ==
    [flags |-> FALSE, default |-> default, errno |-> errno, archs |-> arches, blocks |-> blocks]

MCArchs == {a \in DOMAIN archs : archs[a] \in DOMAIN MCNo}
ArchLists == {SetToSeq(S) : S \in {T \in SUBSET MCArchs : Cardinality(T) <= 3}}

(* A profile with many architectures, some names and no conditions.        *)
StubProfiles ==
    {Profile(default, errno, arches, <<Block(names, "SCMP_ACT_ALLOW", <<>>)>>) :
        default \in {"SCMP_ACT_ERRNO", "SCMP_ACT_ALLOW"}, errno \in {NoErrno, ENOSYS}, arches \in ArchLists,
        names \in {<<"read">>, <<"write", "read">>, <<"read", "clone3">>}}

C(index, op) == [index |-> index, op |-> op]
Blocks == {Block(<<name>>, action, args) :
            name \in MCNames \cup {"nosuch", ""},
            action \in {"SCMP_ACT_ALLOW", "SCMP_ACT_ERRNO", "SCMP_ACT_NOTIFY", "bad"},
            args \in {<<>>, <<C(0, "SCMP_CMP_EQ"), C(0, "SCMP_CMP_NE")>>, <<C(0, "SCMP_CMP_EQ"), C(1, "SCMP_CMP_EQ")>>,
                       <<C(6, "SCMP_CMP_EQ")>>, <<C(0, "bad")>>}}
          \cup {Block(<<"read", "write">>, "SCMP_ACT_NOTIFY", <<>>), Block(<<>>, "SCMP_ACT_LOG", <<C(0, "bad")>>)}

(* Two blocks of rules for the native architecture.                        *)
RuleProfiles ==
    {Profile(default, NoErrno, <<>>, blocks) :
        default \in {"SCMP_ACT_ERRNO", "SCMP_ACT_NOTIFY", "SCMP_ACT_KILL_PROCESS"},
        blocks \in [1..2 -> Blocks] \cup [1..1 -> Blocks]}

(* What SetupSeccomp turns away or ignores.                                *)
OddProfiles ==
    {[Profile(default, NoErrno, arches, <<>>) EXCEPT !.flags = flags] :
        default \in {"", "SCMP_ACT_LOG", "SCMP_ACT_TRACE"}, arches \in {<<>>, <<"bad">>}, flags \in BOOLEAN}

MCProfiles == StubProfiles \cup RuleProfiles \cup OddProfiles

=============================================================================
