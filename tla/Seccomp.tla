------------------------------ MODULE Seccomp ------------------------------
(***************************************************************************)
(* A seccomp profile on its way into the kernel: SetupSeccomp converts it  *)
(* (specconv/spec_linux.go), InitSeccomp builds the filter                 *)
(* (seccomp/seccomp_linux.go) and has the -ENOSYS stub put in front of it  *)
(* (seccomp/patchbpf/enosys_linux.go).  The filter itself is libseccomp's: *)
(* it is modelled as the set of rules given to it.  The stub is modelled   *)
(* as the program it is, instruction by instruction, and run on the data   *)
(* the kernel hands it: an audit architecture and a system call number.    *)
(***************************************************************************)
EXTENDS Integers, Sequences, FiniteSets, SequencesExt

CONSTANTS Profiles,   \* the specs.LinuxSeccomp of the container
          Natives,    \* libseccomp: the native architecture
          Names,      \* the system call names libseccomp knows
          No,         \* libseccomp: No[arch][name], -1 where there is none
          X32Bit,     \* 1 << 30, the bit of an x32 system call number
          MaxSkip,    \* the longest conditional jump: 255
          SysNos      \* bound: the system call numbers a process tries

ENOSYS == 38
ActErrnoENOSYS == 327718      \* SCMP_ACT_ERRNO(ENOSYS)
EPERM == 1
NoErrno == -1                 \* a nil *uint

Range1(s) == {s[i] : i \in DOMAIN s}

(* seccomp/config.go: the names of the document for the architectures.     *)
archs ==
    [SCMP_ARCH_X86 |-> "x86", SCMP_ARCH_X86_64 |-> "amd64", SCMP_ARCH_X32 |-> "x32", SCMP_ARCH_ARM |-> "arm",
     SCMP_ARCH_AARCH64 |-> "arm64", SCMP_ARCH_MIPS |-> "mips", SCMP_ARCH_MIPS64 |-> "mips64",
     SCMP_ARCH_MIPS64N32 |-> "mips64n32", SCMP_ARCH_MIPSEL |-> "mipsel", SCMP_ARCH_MIPSEL64 |-> "mipsel64",
     SCMP_ARCH_MIPSEL64N32 |-> "mipsel64n32", SCMP_ARCH_PPC |-> "ppc", SCMP_ARCH_PPC64 |-> "ppc64",
     SCMP_ARCH_PPC64LE |-> "ppc64le", SCMP_ARCH_RISCV64 |-> "riscv64", SCMP_ARCH_S390 |-> "s390",
     SCMP_ARCH_S390X |-> "s390x"]

(* Conditional jumps reach a few instructions at least, and libseccomp has *)
(* a table for the architectures of the profiles.                          *)
ASSUME SeccompAssumption ==
    /\ X32Bit \in Nat \ {0} /\ MaxSkip \in Nat /\ MaxSkip >= 2
    /\ SysNos \subseteq Nat /\ IsFiniteSet(Names)
    /\ \A a \in DOMAIN No : \A name \in Names : No[a][name] \in Int
    /\ Natives \subseteq DOMAIN No /\ "X86_64" \notin DOMAIN No
    /\ \A p \in Profiles :
          p.archs \in Seq(STRING) /\ \A a \in Range1(p.archs) \cap DOMAIN archs : archs[a] \in DOMAIN No

VARIABLES stage,      \* where the profile is
          profile,    \* the document's profile
          seccomp,    \* configs.Seccomp
          native, apiLevel,
          filter,     \* libseccomp: the default action and the rules
          stub,       \* the instructions put in front of the filter
          listener,   \* SECCOMP_FILTER_FLAG_NEW_LISTENER
          loaded,     \* kernel: the program is the process's filter
          fd

seccompVars == <<stage, profile, seccomp, native, apiLevel, filter, stub, listener, loaded, fd>>

-----------------------------------------------------------------------------
(* Conversion of the profile (seccomp/config.go and SetupSeccomp).         *)

operators ==
    [SCMP_CMP_NE |-> "NE", SCMP_CMP_LT |-> "LT", SCMP_CMP_LE |-> "LE", SCMP_CMP_EQ |-> "EQ",
     SCMP_CMP_GE |-> "GE", SCMP_CMP_GT |-> "GT", SCMP_CMP_MASKED_EQ |-> "MASKED_EQ"]
actions ==
    [SCMP_ACT_KILL |-> "Kill", SCMP_ACT_ERRNO |-> "Errno", SCMP_ACT_TRAP |-> "Trap", SCMP_ACT_ALLOW |-> "Allow",
     SCMP_ACT_TRACE |-> "Trace", SCMP_ACT_LOG |-> "Log", SCMP_ACT_NOTIFY |-> "Notify",
     SCMP_ACT_KILL_THREAD |-> "KillThread", SCMP_ACT_KILL_PROCESS |-> "KillProcess"]

NoConfig == [default |-> "", errno |-> NoErrno, archs |-> <<>>, calls |-> <<>>]

(* Arguments are converted for each name of a block: a block without names *)
(* is never looked at.                                                     *)
Converts(p) ==
    /\ ~p.flags
    /\ Range1(p.archs) \subseteq DOMAIN archs
    /\ p.default \in DOMAIN actions
    /\ \A b \in Range1(p.blocks) :
          b.action \in DOMAIN actions /\ (b.names # <<>> => \A a \in Range1(b.args) : a.op \in DOMAIN operators)

(* One call for each name of each block.                                   *)
ConvertBlock(b) ==
    [i \in DOMAIN b.names |->
        [name |-> b.names[i], action |-> actions[b.action], errno |-> b.errno,
         args |-> [j \in DOMAIN b.args |-> [index |-> b.args[j].index, op |-> operators[b.args[j].op]]]]]
ConvertProfile(p) ==
    [default |-> actions[p.default], errno |-> p.errno,
     archs |-> [i \in DOMAIN p.archs |-> archs[p.archs[i]]],
     calls |-> FlattenSeq([i \in DOMAIN p.blocks |-> ConvertBlock(p.blocks[i])])]

-----------------------------------------------------------------------------
(* Actions and rules.                                                      *)

Invalid == <<"invalid">>

(* getAction: KillThread is Kill, an errno goes with Errno and Trace only. *)
getAction(act, errno) ==
    IF act \in {"Kill", "KillThread"} THEN <<"KillThread">>
    ELSE IF act \in {"Errno", "Trace"} THEN <<act, IF errno = NoErrno THEN EPERM ELSE errno>>
    ELSE IF act \in {"Trap", "Allow", "Log", "Notify", "KillProcess"} THEN <<act>>
    ELSE Invalid

(* getOperator, getCondition and MakeCondition: six arguments at most.     *)
ValidCondition(c) == c.op \in {"EQ", "NE", "GT", "GE", "LT", "LE", "MASKED_EQ"} /\ c.index \in 0..5

(* matchCall: conditions on one argument become rules of their own.        *)
CallRules(call, act) ==
    IF \E i, j \in DOMAIN call.args : i # j /\ call.args[i].index = call.args[j].index
    THEN {[name |-> call.name, act |-> act, conds |-> {c}] : c \in Range1(call.args)}
    ELSE {[name |-> call.name, act |-> act, conds |-> Range1(call.args)]}

(* matchCall.  A rule with the default action is skipped, and so is one    *)
(* for a name that libseccomp does not know.                               *)
matchCall(call, default) ==
    LET act == getAction(call.action, call.errno)
    IN  CASE act = Invalid \/ call.name = "" -> [err |-> TRUE, rules |-> {}]
          [] act = default \/ call.name \notin Names -> [err |-> FALSE, rules |-> {}]
          [] OTHER -> [err |-> \E c \in Range1(call.args) : ~ValidCondition(c),
                       rules |-> CallRules(call, act)]

-----------------------------------------------------------------------------
(* Classic BPF: the instructions of the stub, and what running it does.    *)

Load(field) == [op |-> "ld", field |-> field]
Jump(skip) == [op |-> "ja", skip |-> skip]
JumpIf(cond, val, t, f) == [op |-> "jif", cond |-> cond, val |-> val, t |-> t, f |-> f]
RetEnosys == [op |-> "ret"]
Uint8(n) == n % (MaxSkip + 1)

Holds(cond, a, val) ==
    CASE cond = "eq" -> a = val
      [] cond = "ne" -> a # val
      [] cond = "gt" -> a > val
      [] cond = "le" -> a <= val
      [] cond = "set" -> (a \div val) % 2 = 1
      [] cond = "clear" -> (a \div val) % 2 = 0

(* The stub run on data: it answers, falls into the filter that follows,   *)
(* or runs off somewhere else.  A state is the next instruction and the    *)
(* field in the accumulator.                                               *)
Accumulators == {"none", "arch", "nr"}
Run(prog, data) ==
    LET from[s \in (Nat \ {0}) \X Accumulators] ==
            IF s[1] = Len(prog) + 1 THEN "filter"
            ELSE IF s[1] > Len(prog) THEN "astray"
            ELSE LET insn == prog[s[1]]
                 IN  CASE insn.op = "ld" -> from[<<s[1] + 1, insn.field>>]
                       [] insn.op = "ja" -> from[<<s[1] + 1 + insn.skip, s[2]>>]
                       [] insn.op = "ret" -> "ENOSYS"
                       [] insn.op = "jif" /\ Holds(insn.cond, data[s[2]], insn.val) -> from[<<s[1] + 1 + insn.t, s[2]>>]
                       [] OTHER -> from[<<s[1] + 1 + insn.f, s[2]>>]
    IN  from[<<1, "none">>]

-----------------------------------------------------------------------------
(* The stub.                                                               *)

isAllowAction(action) == action \in {"Allow", "Log", "Trace"}

(* Every other architecture has an AUDIT_ARCH_ constant of its own.        *)
scmpArchToAuditArch(arch) == IF arch \in {"amd64", "x32"} THEN "X86_64" ELSE arch

LargestSyscall(arch, calls) ==
    LET nos == {No[arch][name] : name \in {c.name : c \in Range1(calls)} \cap Names} \cup {0}
    IN  CHOOSE n \in nos : \A other \in nos : n >= other

(* findLastSyscalls: for each audit architecture, the largest number named *)
(* in each of its modes.  A mode with none has no entry.                   *)
findLastSyscalls(cfg, nat) ==
    LET all == Range1(cfg.archs) \cup {nat}
        found(aa) == {a \in all : scmpArchToAuditArch(a) = aa /\ LargestSyscall(a, cfg.calls) # 0}
    IN  [aa \in {scmpArchToAuditArch(a) : a \in all} |->
            [a \in found(aa) |-> LargestSyscall(a, cfg.calls)]]

(* A mutation: the short jump to the -ENOSYS return is one too short.      *)
CompareOneShort(sysno, base) ==
    IF base + 1 <= MaxSkip
    THEN <<JumpIf("gt", sysno, Uint8(base), 0), Jump(base + 1)>>
    ELSE <<JumpIf("le", sysno, 1, 0), Jump(base + 1), Jump(base + 1)>>

(* The comparison for one mode; base is the distance from the section's    *)
(* end to the -ENOSYS return, base + 1 that to the filter.                 *)
Compare(sysno, base) ==
    IF base + 1 <= MaxSkip
    THEN <<JumpIf("gt", sysno, Uint8(base + 1), 0), Jump(base + 1)>>
    ELSE <<JumpIf("le", sysno, 1, 0), Jump(base + 1), Jump(base + 1)>>

OneMode(aa, arch, sysno, base) ==
    LET compare == Compare(sysno, base)
        multiplexed == IF arch \in {"s390", "s390x"} THEN <<JumpIf("ne", 0, 1, 0), RetEnosys>> ELSE <<>>
        otherMode == IF aa # "X86_64" THEN <<>>
                     ELSE <<JumpIf(IF arch = "amd64" THEN "set" ELSE "clear", X32Bit,
                                   Uint8(Len(compare) - 1), 0)>>
    IN  multiplexed \o otherMode \o compare

(* x86_64 and x32 in one section.                                          *)
TwoModes(x86sysno, x32sysno, base) ==
    IF base + 2 <= MaxSkip
    THEN <<JumpIf("set", X32Bit, 1, 0), JumpIf("gt", x86sysno, Uint8(base + 2), 1),
           JumpIf("gt", x32sysno, Uint8(base + 1), 0), Jump(base + 1)>>
    ELSE <<JumpIf("set", X32Bit, 1, 0), JumpIf("gt", x86sysno, 1, 2),
           JumpIf("le", x32sysno, 1, 0), Jump(base + 1), Jump(base + 1)>>

(* What a section does once the number is loaded.                          *)
SectionBody(last, aa, base) ==
    LET modes == DOMAIN last[aa]
        only == CHOOSE m \in modes : TRUE
    IN  IF Cardinality(modes) = 2 THEN TwoModes(last[aa]["amd64"], last[aa]["x32"], base)
        ELSE OneMode(aa, only, last[aa][only], base)

(* One iteration of the loop that prepends the sections.  table is the     *)
(* archJumpTable, measured from the end; no entry reads as 0.              *)
AddSection(last, acc, aa) ==
    LET tail == <<Load("nr")>> \o SectionBody(last, aa, Len(acc.tail) - 1) \o acc.tail
    IN  IF DOMAIN last[aa] = {} THEN acc
        ELSE [tail |-> tail, table |-> [acc.table EXCEPT ![aa] = Len(tail)]]

(* One iteration of the loop that prepends the jumps to the sections.      *)
AddArchJump(table, tail, aa) ==
    LET jump == Len(tail) - table[aa]
    IN  (IF jump <= MaxSkip THEN <<JumpIf("eq", aa, Uint8(jump), 0)>>
         ELSE <<JumpIf("ne", aa, 1, 0), Jump(jump)>>) \o tail

(* generateEnosysStub.  The two loops range over a Go map: each takes the  *)
(* architectures in an order of its own.                                   *)
generateEnosysStub(last, order1, order2) ==
    LET sections[i \in 0..Len(order1)] ==
            IF i = 0 THEN [tail |-> <<Jump(1), RetEnosys>>, table |-> [aa \in DOMAIN last |-> 0]]
            ELSE AddSection(last, sections[i - 1], order1[i])
        all == sections[Len(order1)]
        jumps[i \in 0..Len(order2)] ==
            IF i = 0 THEN <<Jump(Len(all.tail))>> \o all.tail
            ELSE AddArchJump(all.table, jumps[i - 1], order2[i])
    IN  <<Load("arch")>> \o jumps[Len(order2)]

Orders(S) == {o \in [1..Cardinality(S) -> S] : \A i, j \in DOMAIN o : o[i] = o[j] => i = j}

(* generatePatch: what is compared is the raw return value, not the errno. *)
Unpatched(cfg) == cfg.errno = ActErrnoENOSYS \/ isAllowAction(cfg.default)

Patches(cfg, nat) ==
    IF Unpatched(cfg) THEN {<<>>}
    ELSE LET last == findLastSyscalls(cfg, nat)
         IN  {generateEnosysStub(last, o1, o2) : o1, o2 \in Orders(DOMAIN last)}

-----------------------------------------------------------------------------
NoFilter == [default |-> Invalid, rules |-> {}, archs |-> {}]

SeccompInit ==
    /\ stage = "setup"
    /\ profile \in Profiles
    /\ seccomp = NoConfig
    /\ native \in Natives
    /\ apiLevel \in {5, 6}
    /\ filter = NoFilter
    /\ stub = <<>>
    /\ listener = FALSE /\ loaded = FALSE /\ fd = -1

Fail == stage' = "failed" /\ UNCHANGED <<profile, seccomp, native, apiLevel, filter, stub, listener, loaded, fd>>

(* SetupSeccomp.  Without a default action and without calls seccomp is    *)
(* off, and InitSeccomp is not called.                                     *)
SetupSeccomp ==
    /\ stage = "setup"
    /\ IF profile.default = "" /\ profile.blocks = <<>>
       THEN stage' = "disabled" /\ UNCHANGED <<profile, seccomp, native, apiLevel, filter, stub, listener, loaded, fd>>
       ELSE IF ~Converts(profile) THEN Fail
       ELSE /\ stage' = "check" /\ seccomp' = ConvertProfile(profile)
            /\ UNCHANGED <<profile, native, apiLevel, filter, stub, listener, loaded, fd>>

(* A mutation: notifications are refused for write, not as the default.    *)
NotifyProblemRulesOnly ==
    \E c \in Range1(seccomp.calls) : c.action = "Notify" /\ (apiLevel < 6 \/ c.name = "write")

(* Why InitSeccomp refuses a profile that notifies.                        *)
NotifyProblem ==
    \/ \E c \in Range1(seccomp.calls) : c.action = "Notify" /\ (apiLevel < 6 \/ c.name = "write")
    \/ seccomp.default = "Notify"

CheckConfig ==
    /\ stage = "check"
    /\ IF getAction(seccomp.default, seccomp.errno) = Invalid \/ NotifyProblem THEN Fail
       ELSE stage' = "build" /\ UNCHANGED <<profile, seccomp, native, apiLevel, filter, stub, listener, loaded, fd>>

(* NewFilter, AddArch, SetNoNewPrivsBit and the rules: libseccomp may fail *)
(* in any of them.                                                         *)
BuildFilter ==
    LET default == getAction(seccomp.default, seccomp.errno)
        matched == {matchCall(c, default) : c \in Range1(seccomp.calls)}
    IN  /\ stage = "build"
        /\ \/ Fail
           \/ /\ \A m \in matched : ~m.err
              /\ stage' = "patch"
              /\ filter' = [default |-> default, rules |-> UNION {m.rules : m \in matched},
                            archs |-> Range1(seccomp.archs) \cup {native}]
              /\ UNCHANGED <<profile, seccomp, native, apiLevel, stub, listener, loaded, fd>>

(* A mutation: only the first rule is looked at.                           *)
filterFlagsFirst == Len(seccomp.calls) > 0 /\ seccomp.calls[1].action = "Notify"

(* filterFlags: one rule that notifies makes the kernel return a listener. *)
filterFlags == \E c \in Range1(seccomp.calls) : c.action = "Notify"

(* enosysPatchFilter and filterFlags; exporting, disassembling and         *)
(* assembling the program may fail.                                        *)
Patch ==
    /\ stage = "patch"
    /\ \/ Fail
       \/ /\ stage' = "load"
          /\ stub' \in Patches(seccomp, native)
          /\ listener' = filterFlags
          /\ UNCHANGED <<profile, seccomp, native, apiLevel, filter, loaded, fd>>

(* sysSeccompSetFilter: the kernel takes the program, or refuses.          *)
LoadFilter ==
    /\ stage = "load"
    /\ \/ Fail
       \/ /\ stage' = "done"
          /\ loaded' = TRUE
          /\ fd' = IF listener THEN 3 ELSE -1
          /\ UNCHANGED <<profile, seccomp, native, apiLevel, filter, stub, listener>>

SeccompEnds == stage \in {"failed", "disabled", "done"} /\ UNCHANGED seccompVars

SeccompNext == SetupSeccomp \/ CheckConfig \/ BuildFilter \/ Patch \/ LoadFilter \/ SeccompEnds

SeccompSpec == SeccompInit /\ [][SeccompNext]_seccompVars

-----------------------------------------------------------------------------
(* The mode of a process: what decides which numbers it knows.             *)
Mode(data) ==
    IF data.arch # "X86_64" THEN data.arch
    ELSE IF (data.nr \div X32Bit) % 2 = 1 THEN "x32" ELSE "amd64"

Beyond(data) ==
    LET mode == Mode(data)
    IN  /\ mode \in filter.archs /\ LargestSyscall(mode, seccomp.calls) # 0
        /\ \/ data.nr > LargestSyscall(mode, seccomp.calls)
           \/ mode \in {"s390", "s390x"} /\ data.nr = 0

AllData == [arch : {scmpArchToAuditArch(a) : a \in DOMAIN No}, nr : SysNos]

(* The loaded stub answers -ENOSYS to exactly the numbers beyond the last  *)
(* one the profile names for the caller's mode (and to the multiplexed     *)
(* call of s390), and hands everything else to the filter, whatever order  *)
(* the map iteration lays the sections out in and whichever jumps are      *)
(* long: generateEnosysStub's offsets are right.                           *)
StubMeansUnknown ==
    loaded /\ ~Unpatched(seccomp) =>
        \A data \in AllData : Run(stub, data) = IF Beyond(data) THEN "ENOSYS" ELSE "filter"

(* The actions the loaded filter may answer a call by its name with.       *)
Answers(name) == {filter.default} \cup {r.act : r \in {s \in filter.rules : s.name = name}}

(* Once the filter is loaded, write is never answered by a notification:   *)
(* the descriptor has to be written to the parent before an agent listens. *)
WriteNeverNotifies == loaded => <<"Notify">> \notin Answers("write")

(* If some call can be answered by a notification, InitSeccomp returned a  *)
(* descriptor to listen on: otherwise those calls all fail.                *)
NotifyHasListener ==
    loaded /\ (\E name \in Names : <<"Notify">> \in Answers(name)) => fd # -1

=============================================================================
