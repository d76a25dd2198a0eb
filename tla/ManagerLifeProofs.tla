------------------------- MODULE ManagerLifeProofs -------------------------
(***************************************************************************)
(* Proofs about ManagerLife, for any number of containers that share their *)
(* parents, any configurations and any number of retries.                  *)
(***************************************************************************)
EXTENDS ManagerLife, SequenceTheorems, TLAPS

Top == Ancestors[1]
Mid == Ancestors[2]
Handled == Range(subsystems)

(* What a call of c's manager touches, and every directory there can be.   *)
Places(c) == {Top, Mid, Own(c)}
AllPlaces == {<<>>, Top, Mid} \cup {Own(c) : c \in Containers} \cup {Sub(c) : c \in Containers}

ApplyKinds == {"mkdir", "copy", "cpus", "join", "start", "controllers", "create", "type", "chown"}
DestroyKinds == {"stop", "rm", "read", "sub", "last"}
Kinds == ApplyKinds \cup DestroyKinds \cup {"undo"}
StepSet == [k : Kinds, h : Hierarchies, d : AllPlaces]
PCs == {"new", "apply", "undo", "destroy", "idle"}
Results == {"none", "nil", "err", "stop"}

TypeOK ==
    /\ dirs \subseteq (Hierarchies \X AllPlaces)
    /\ proc \in [Containers -> [Hierarchies -> AllPlaces]]
    /\ alive \in [Containers -> BOOLEAN]
    /\ paths \in [Containers -> SUBSET Hierarchies]
    /\ pc \in [Containers -> PCs]
    /\ todo \in [Containers -> Seq(StepSet)]
    /\ made \in [Containers -> Seq(AllPlaces)]
    /\ result \in [Containers -> Results]
    /\ joined \in [Containers -> SUBSET Hierarchies]
    /\ alone \in [Containers -> BOOLEAN]
    /\ destroys \in [Containers -> Nat]

Under(e, d) == Len(e) > Len(d) /\ SubSeq(e, 1, Len(d)) = d

(* No directory without its parent.                                        *)
Tree ==
    \A h \in Hierarchies :
        /\ Dir(h, Mid) \in dirs => Dir(h, Top) \in dirs
        /\ \A c \in Containers : Dir(h, Own(c)) \in dirs => Dir(h, Mid) \in dirs
        /\ \A c \in Containers : Dir(h, Sub(c)) \in dirs => Dir(h, Own(c)) \in dirs

(* A live process that Apply has moved is in a directory that exists; for  *)
(* pid -1 there is none.                                                   *)
InPlace(c) ==
    /\ env.noPid => ~alive[c]
    /\ \A h \in Hierarchies :
        /\ proc[c][h] \in {<<>>, Own(c), Sub(c)}
        /\ IF env.noPid THEN proc[c][h] = <<>> ELSE proc[c][h] # <<>> <=> h \in joined[c]
        /\ alive[c] /\ h \in joined[c] => Dir(h, proc[c][h]) \in dirs

-----------------------------------------------------------------------------
(* The steps that are left: each one, any two, and the cpusets'.           *)
Shape(c, s) ==
    /\ s.h \in Handled
    /\ s.k # "controllers" => s.d \in Places(c)
    /\ s.k \in {"cpus", "join", "start", "chown"} \cup DestroyKinds => s.d = Own(c)
    /\ s.k \in {"mkdir", "copy", "cpus"} => ~V2
    /\ s.k \in {"controllers", "create", "type", "chown", "undo"} => V2
    /\ s.k = "start" => Systemd
Phase(p, ps, js, s) ==
    /\ p = "apply" => s.k \in ApplyKinds /\ s.h \in ps /\ (~Systemd => s.h \notin js)
    /\ p = "undo" => s.k = "undo"
    /\ p = "destroy" => s.k \in DestroyKinds

PairOK(flavour, s, t) ==
    /\ s.k = "join" => t.h # s.h
    /\ t.k # "start"
    /\ flavour = "fs" /\ s.h = "memory" => t.h = "memory"
    /\ s.k = "create" /\ t.k = "create" => Len(s.d) < Len(t.d)
    /\ s.k = "undo" /\ t.k = "undo" => Len(s.d) > Len(t.d)
Ordered(flavour, s) == \A i, j \in DOMAIN s : i < j => PairOK(flavour, s[i], s[j])

CopyBefore(s, i, d) == \E j \in 1..(i - 1) : s[j].k = "copy" /\ s[j].h = "cpuset" /\ s[j].d = d
Ready(c, s, ready) ==
    \A i \in DOMAIN s : s[i].h = "cpuset" =>
        /\ s[i].k = "join" => Own(c) \in ready \/ CopyBefore(s, i, Own(c))
        /\ s[i].k = "copy" => Front(s[i].d) \in ready \/ CopyBefore(s, i, Front(s[i].d))

Pending(c, h) == \E i \in DOMAIN todo[c] : todo[c][i].k \in {"join", "start"} /\ todo[c][i].h = h

(* CreateCgroupPath goes down from the root.                               *)
Growing(m, s) ==
    /\ \A i, j \in DOMAIN m : i < j => Len(m[i]) < Len(m[j])
    /\ \A i \in DOMAIN m : \A j \in DOMAIN s : s[j].k = "create" => Len(m[i]) < Len(s[j].d)

GivesUp == env.flavour = "fs" /\ env.rootless

(* What concerns only the manager of c (and the CPUs of its cpusets).      *)
Local(c) ==
    /\ \A i \in DOMAIN todo[c] : Shape(c, todo[c][i]) /\ Phase(pc[c], paths[c], joined[c], todo[c][i])
    /\ \A i \in DOMAIN made[c] : made[c][i] \in Places(c)
    /\ joined[c] \subseteq Handled
    /\ paths[c] \subseteq Handled
    /\ V2 \/ (~GivesUp /\ destroys[c] = 0) => paths[c] = Handled
    /\ pc[c] = "new" => joined[c] = {} /\ made[c] = <<>> /\ paths[c] = Handled
    /\ pc[c] \in {"new", "apply", "undo"} => destroys[c] = 0
    /\ pc[c] = "destroy" => destroys[c] > 0
    /\ pc[c] = "undo" /\ ~Systemd => joined[c] = {}
    /\ Ordered(env.flavour, todo[c])
    /\ Ready(c, todo[c], cpus)
    /\ pc[c] = "apply" => Growing(made[c], todo[c]) /\ \A h \in paths[c] \ joined[c] : Pending(c, h)
    /\ pc[c] = "idle" /\ result[c] = "nil" /\ destroys[c] = 0 => paths[c] \subseteq joined[c] \/ (MayGoWithout /\ joined[c] = {})

(* What the manager knows of the cgroups it has made.                      *)
Removing(c) == \E i \in DOMAIN todo[c] : todo[c][i].k \in {"rm", "read", "last"}
Known(c) ==
    /\ \A h \in joined[c] : Dir(h, Own(c)) \in dirs => h \in paths[c]
    /\ V2 /\ pc[c] = "destroy" => Dir("unified", Own(c)) \notin dirs \/ Removing(c)
    /\ pc[c] = "idle" /\ result[c] = "nil" /\ destroys[c] > 0 => \A h \in joined[c] : Dir(h, Own(c)) \notin dirs

Alone(c) == alone[c] /\ pc[c] # "new" => \A x \in Containers \ {c} : ~InCall(x)

(* While a manager is alone, what is below a directory it made it has made *)
(* too; once it undoes, each of them that exists has its turn, the deepest *)
(* first.                                                                  *)
Covered(c) ==
    \A e \in dirs : \A i \in DOMAIN made[c] :
        e[1] = "unified" /\ Under(e[2], made[c][i]) => \E j \in DOMAIN made[c] : made[c][j] = e[2]
Making(c) ==
    /\ Covered(c)
    /\ \A j \in DOMAIN todo[c] : todo[c][j].k = "start" => made[c] = <<>>
    /\ ~env.noPid /\ "unified" \in joined[c] => todo[c] = <<>> \/ (made[c] = <<>> /\ \A d \in Places(c) : Dir("unified", d) \in dirs)
Undoing(c) ==
    /\ Covered(c)
    /\ \A i \in DOMAIN made[c] : Dir("unified", made[c][i]) \in dirs => \E j \in DOMAIN todo[c] : todo[c][j].d = made[c][i]
    /\ ~env.noPid /\ "unified" \in joined[c] => made[c] = <<>>
Clean(c) ==
    alone[c] =>
        /\ pc[c] = "apply" => Making(c)
        /\ pc[c] = "undo" => Undoing(c)

IInv ==
    /\ TypeOK
    /\ <<>> \in cpus
    /\ Tree
    /\ \A c \in Containers : InPlace(c) /\ Local(c) /\ Known(c) /\ Alone(c) /\ Clean(c)

-----------------------------------------------------------------------------
(* Lemmas about the paths.                                                 *)

LEMMA PrefixIs ==
    ASSUME NEW S, NEW s \in Seq(S), NEW t \in Seq(S), Len(t) <= Len(s), \A i \in 1..Len(t) : s[i] = t[i]
    PROVE  SubSeq(s, 1, Len(t)) = t
<1>1. Len(t) \in Nat /\ Len(s) \in Nat /\ \A i \in 1..Len(t) : s[i] \in S
  BY LenProperties, ElementOfSeq
<1>2. SubSeq(s, 1, Len(t)) \in Seq(S) /\ Len(SubSeq(s, 1, Len(t))) = Len(t)
      /\ \A i \in 1..Len(t) : SubSeq(s, 1, Len(t))[i] = s[i]
  BY <1>1, SubSeqProperties
<1> QED  BY <1>1, <1>2, SeqEqual

LEMMA Prefixes4 ==
    ASSUME NEW c
    PROVE  /\ Len(Top) = 1 /\ Len(Mid) = 2 /\ Len(Own(c)) = 3 /\ Len(Sub(c)) = 4
           /\ SubSeq(Top, 1, 0) = <<>> /\ SubSeq(Mid, 1, 1) = Top /\ SubSeq(Own(c), 1, 2) = Mid
           /\ SubSeq(Own(c), 1, 1) = Top /\ SubSeq(Sub(c), 1, 3) = Own(c)
<1> DEFINE S == {"P", "Q", c, "s"}
<1>1. Top = <<"P">> /\ Mid = <<"P", "Q">>
  BY DEF Top, Mid, Ancestors
<1>2. Top \in Seq(S) /\ Mid \in Seq(S) /\ Own(c) \in Seq(S) /\ Sub(c) \in Seq(S) /\ <<>> \in Seq(S)
  BY <1>1 DEF Own, Sub
<1>3. Len(<<>>) = 0 /\ Len(Top) = 1 /\ Len(Mid) = 2 /\ Len(Own(c)) = 3 /\ Len(Sub(c)) = 4
  BY <1>1 DEF Own, Sub
<1>4. Mid[1] = Top[1] /\ Own(c)[1] = Top[1] /\ Own(c)[1] = Mid[1] /\ Own(c)[2] = Mid[2]
      /\ Sub(c)[1] = Own(c)[1] /\ Sub(c)[2] = Own(c)[2] /\ Sub(c)[3] = Own(c)[3]
  BY <1>1 DEF Own, Sub
<1> HIDE DEF S
<1>5. SubSeq(Top, 1, 0) = <<>>
  BY SubSeqEmpty
<1>6. SubSeq(Mid, 1, 1) = Top
  <2>1. \A i \in 1..Len(Top) : Mid[i] = Top[i]  BY <1>3, <1>4
  <2> QED  BY <1>2, <1>3, <2>1, PrefixIs
<1>7. SubSeq(Own(c), 1, 2) = Mid
  <2>1. \A i \in 1..Len(Mid) : Own(c)[i] = Mid[i]  BY <1>3, <1>4
  <2> QED  BY <1>2, <1>3, <2>1, PrefixIs
<1>8. SubSeq(Own(c), 1, 1) = Top
  <2>1. \A i \in 1..Len(Top) : Own(c)[i] = Top[i]  BY <1>3, <1>4
  <2> QED  BY <1>2, <1>3, <2>1, PrefixIs
<1>9. SubSeq(Sub(c), 1, 3) = Own(c)
  <2>1. \A i \in 1..Len(Own(c)) : Sub(c)[i] = Own(c)[i]  BY <1>3, <1>4
  <2> QED  BY <1>2, <1>3, <2>1, PrefixIs
<1> QED  BY <1>3, <1>5, <1>6, <1>7, <1>8, <1>9

LEMMA PathFacts ==
    /\ Len(<<>>) = 0 /\ Len(Top) = 1 /\ Len(Mid) = 2
    /\ \A c : Len(Own(c)) = 3 /\ Len(Sub(c)) = 4
    /\ \A c, x : (Own(c) = Own(x) => c = x) /\ (Sub(c) = Sub(x) => c = x)
    /\ Front(Top) = <<>> /\ Front(Mid) = Top /\ \A c : Front(Own(c)) = Mid
<1>2. ASSUME NEW c, NEW x PROVE (Own(c) = Own(x) => c = x) /\ (Sub(c) = Sub(x) => c = x)
  <2>1. Own(c)[3] = c /\ Own(x)[3] = x /\ Sub(c)[3] = c /\ Sub(x)[3] = x
    BY DEF Own, Sub
  <2> QED  BY <2>1
<1>3. Front(Top) = <<>> /\ Front(Mid) = Top
  <2>1. Len(Top) - 1 = 0 /\ Len(Mid) - 1 = 1 /\ SubSeq(Top, 1, 0) = <<>> /\ SubSeq(Mid, 1, 1) = Top  BY Prefixes4
  <2> QED  BY ONLY <2>1 DEF Front
<1>4. ASSUME NEW c PROVE Front(Own(c)) = Mid
  <2>1. Len(Own(c)) - 1 = 2 /\ SubSeq(Own(c), 1, 2) = Mid  BY Prefixes4
  <2> QED  BY ONLY <2>1 DEF Front
<1>5. \A c : Len(Own(c)) = 3 /\ Len(Sub(c)) = 4
  BY Prefixes4
<1>6. Len(Top) = 1 /\ Len(Mid) = 2 /\ Len(<<>>) = 0
  BY Prefixes4
<1> QED  BY <1>2, <1>3, <1>4, <1>5, <1>6

LEMMA Distinct ==
    /\ Top # <<>> /\ Mid # <<>> /\ Top # Mid
    /\ \A c : Own(c) # <<>> /\ Own(c) # Top /\ Own(c) # Mid
    /\ \A c : Sub(c) # <<>> /\ Sub(c) # Top /\ Sub(c) # Mid
    /\ \A c, x : Own(c) # Sub(x)
BY PathFacts

LEMMA UnderFacts ==
    /\ Under(Mid, Top)
    /\ \A c : Under(Own(c), Mid) /\ Under(Own(c), Top) /\ Under(Sub(c), Own(c))
    /\ \A c, x : Under(Sub(x), Own(c)) => x = c
<1>2. Under(Mid, Top)
  BY Prefixes4 DEF Under
<1>3. ASSUME NEW c PROVE Under(Own(c), Mid) /\ Under(Own(c), Top) /\ Under(Sub(c), Own(c))
  <2>1. /\ Len(Top) = 1 /\ Len(Mid) = 2 /\ Len(Own(c)) = 3 /\ Len(Sub(c)) = 4
        /\ SubSeq(Own(c), 1, 2) = Mid /\ SubSeq(Own(c), 1, 1) = Top /\ SubSeq(Sub(c), 1, 3) = Own(c)
    BY Prefixes4
  <2> QED  BY ONLY <2>1 DEF Under
<1>4. ASSUME NEW c, NEW x, Under(Sub(x), Own(c)) PROVE x = c
  BY <1>4, Prefixes4, PathFacts DEF Under
<1> QED  BY <1>2, <1>3, <1>4

LEMMA HandledFacts ==
    /\ Handled \subseteq Hierarchies
    /\ V2 => Handled = {"unified"}
    /\ ~V2 => "unified" \notin Handled
    /\ env.flavour = "fs" => Handled = {"cpuset", "memory"} /\ ~V2 /\ ~Systemd
<1>1. CASE V2
  <2>1. Handled = {"unified"}  BY <1>1 DEF Handled, Range, subsystems
  <2> QED  BY <1>1, <2>1 DEF Hierarchies, V2
<1>2. CASE ~V2 /\ env.flavour = "sd1"
  <2>1. Handled = {"cpuset", "memory", "name=systemd"}  BY <1>2 DEF Handled, Range, subsystems
  <2> QED  BY <1>2, <2>1 DEF Hierarchies
<1>3. CASE ~V2 /\ env.flavour # "sd1"
  <2>1. Handled = {"cpuset", "memory"}  BY <1>3 DEF Handled, Range, subsystems
  <2> QED  BY <1>3, <2>1 DEF Hierarchies, V2, Systemd
<1> QED  BY <1>1, <1>2, <1>3

-----------------------------------------------------------------------------
(* Lemmas about what is left of a sequence of steps.                       *)

LEMMA SuffixFacts ==
    ASSUME NEW S, NEW s \in Seq(S), NEW n \in 1..Len(s) + 1
    PROVE  LET t == SubSeq(s, n, Len(s))
           IN  /\ t \in Seq(S)
               /\ \A i \in DOMAIN t : i \in Nat /\ i > 0 /\ i + n - 1 \in DOMAIN s /\ t[i] = s[i + n - 1]
               /\ \A j \in DOMAIN s : j \in Nat /\ (j < n \/ (j + 1 - n \in DOMAIN t /\ t[j + 1 - n] = s[j]))
<1> DEFINE t == SubSeq(s, n, Len(s))
<1>1. Len(s) \in Nat /\ DOMAIN s = 1..Len(s) /\ n \in Nat /\ n >= 1 /\ n <= Len(s) + 1
  BY LenProperties
<1>2. \A i \in n..Len(s) : s[i] \in S
  BY <1>1, ElementOfSeq
<1>3. t \in Seq(S) /\ Len(t) = (IF n <= Len(s) THEN Len(s) - n + 1 ELSE 0)
      /\ \A i \in 1..Len(s) - n + 1 : t[i] = s[n + i - 1]
  BY <1>1, <1>2, SubSeqProperties
<1> HIDE DEF t
<1>4. DOMAIN t = 1..Len(t)
  BY <1>3, LenProperties
<1>5. DOMAIN t = 1..Len(s) - n + 1
  BY <1>1, <1>3, <1>4
<1>6. ASSUME NEW i \in DOMAIN t PROVE i \in Nat /\ i > 0 /\ i + n - 1 \in DOMAIN s /\ t[i] = s[i + n - 1]
  BY <1>1, <1>3, <1>5
<1>7. ASSUME NEW j \in DOMAIN s PROVE j \in Nat /\ (j < n \/ (j + 1 - n \in DOMAIN t /\ t[j + 1 - n] = s[j]))
  <2>1. j \in Nat  BY <1>1
  <2>2. CASE j >= n
    <3>1. j + 1 - n \in 1..Len(s) - n + 1  BY <1>1, <2>1, <2>2
    <3>2. n + (j + 1 - n) - 1 = j  BY <1>1, <2>1
    <3> QED  BY <1>3, <1>5, <2>1, <3>1, <3>2
  <2> QED  BY <1>1, <2>1, <2>2
<1> QED  BY <1>3, <1>6, <1>7 DEF t

LEMMA TailFacts ==
    ASSUME NEW S, NEW s \in Seq(S), s # <<>>
    PROVE  /\ Tail(s) = SubSeq(s, 2, Len(s)) /\ 2 \in 1..Len(s) + 1
           /\ Head(s) = s[1] /\ 1 \in DOMAIN s /\ Tail(s) \in Seq(S)
           /\ \A i \in DOMAIN Tail(s) : i \in Nat /\ i > 0 /\ i + 1 \in DOMAIN s /\ Tail(s)[i] = s[i + 1]
           /\ \A j \in DOMAIN s : j = 1 \/ (j - 1 \in DOMAIN Tail(s) /\ Tail(s)[j - 1] = s[j])
<1>1. Len(s) \in Nat \ {0} /\ DOMAIN s = 1..Len(s)
  BY EmptySeq, LenProperties
<1>2. Tail(s) = SubSeq(s, 2, Len(s)) /\ 2 \in 1..Len(s) + 1 /\ 1 \in DOMAIN s
  BY <1>1, TailIsSubSeq
<1>3. Head(s) = s[1]
  OBVIOUS
<1>4. Tail(s) \in Seq(S)
  BY HeadTailProperties
<1>5. \A i \in DOMAIN Tail(s) : i \in Nat /\ i > 0 /\ i + 2 - 1 \in DOMAIN s /\ Tail(s)[i] = s[i + 2 - 1]
  BY <1>2, SuffixFacts
<1>6. \A j \in DOMAIN s : j \in Nat /\ (j < 2 \/ (j + 1 - 2 \in DOMAIN Tail(s) /\ Tail(s)[j + 1 - 2] = s[j]))
  BY <1>2, SuffixFacts
<1>7. \A i \in DOMAIN Tail(s) : i \in Nat /\ i > 0 /\ i + 1 \in DOMAIN s /\ Tail(s)[i] = s[i + 1]
  <2> TAKE i \in DOMAIN Tail(s)
  <2>1. i + 2 - 1 = i + 1  BY <1>5
  <2> QED  BY <1>5, <2>1
<1>8. \A j \in DOMAIN s : j = 1 \/ (j - 1 \in DOMAIN Tail(s) /\ Tail(s)[j - 1] = s[j])
  <2> TAKE j \in DOMAIN s
  <2>1. j + 1 - 2 = j - 1 /\ j \in Nat /\ j >= 1  BY <1>1
  <2> QED  BY <1>6, <2>1
<1> QED  BY <1>2, <1>3, <1>4, <1>7, <1>8

LEMMA OrderedSuffix ==
    ASSUME NEW s \in Seq(StepSet), NEW n \in 1..Len(s) + 1, NEW f, Ordered(f, s)
    PROVE  Ordered(f, SubSeq(s, n, Len(s)))
<1> DEFINE t == SubSeq(s, n, Len(s))
<1>1. n \in Nat /\ \A i \in DOMAIN t : i \in Nat /\ i > 0 /\ i + n - 1 \in DOMAIN s /\ t[i] = s[i + n - 1]
  BY SuffixFacts
<1> HIDE DEF t
<1>2. ASSUME NEW i \in DOMAIN t, NEW j \in DOMAIN t, i < j PROVE PairOK(f, t[i], t[j])
  <2>1. i + n - 1 < j + n - 1  BY <1>1, <1>2
  <2> QED  BY <1>1, <2>1 DEF Ordered
<1> QED  BY <1>2 DEF Ordered, t

LEMMA ReadyTail ==
    ASSUME NEW s \in Seq(StepSet), s # <<>>, NEW c, NEW r1, NEW r2, Ready(c, s, r1), \A i \in DOMAIN s : s[i].k # "controllers" => s[i].d \in Places(c),
           r1 \cap ({<<>>} \cup Places(c)) \subseteq r2,
           Head(s).k = "copy" /\ Head(s).h = "cpuset" => Head(s).d \in r2
    PROVE  Ready(c, Tail(s), r2)
<1> DEFINE t == Tail(s)
<1>1. /\ Head(s) = s[1] /\ 1 \in DOMAIN s
      /\ \A i \in DOMAIN t : i \in Nat /\ i > 0 /\ i + 1 \in DOMAIN s /\ t[i] = s[i + 1]
      /\ \A j \in DOMAIN s : j = 1 \/ (j - 1 \in DOMAIN t /\ t[j - 1] = s[j])
      /\ DOMAIN s = 1..Len(s) /\ Len(s) \in Nat
  BY TailFacts, LenProperties
<1> HIDE DEF t
<1>2. ASSUME NEW i \in DOMAIN t, NEW d \in {<<>>} \cup Places(c), d \in r1 \/ CopyBefore(s, i + 1, d)
      PROVE  d \in r2 \/ CopyBefore(t, i, d)
  <2>1. CASE d \in r1  BY <2>1
  <2>2. CASE CopyBefore(s, i + 1, d)
    <3>1. PICK j \in 1..i : s[j].k = "copy" /\ s[j].h = "cpuset" /\ s[j].d = d
      BY <1>1, <2>2 DEF CopyBefore
    <3>2. CASE j = 1  BY <1>1, <3>1, <3>2
    <3>3. CASE j # 1
      <4>1. j - 1 \in 1..i - 1 /\ j \in DOMAIN s  BY <1>1, <3>1, <3>3
      <4> QED  BY <1>1, <3>1, <3>3, <4>1 DEF CopyBefore
    <3> QED  BY <3>2, <3>3
  <2> QED  BY <1>2, <2>1, <2>2
<1>3. ASSUME NEW i \in DOMAIN t, t[i].h = "cpuset", t[i].k = "join" PROVE Own(c) \in r2 \/ CopyBefore(t, i, Own(c))
  BY <1>1, <1>2, <1>3 DEF Ready, Places
<1>4. ASSUME NEW i \in DOMAIN t, t[i].h = "cpuset", t[i].k = "copy"
      PROVE  Front(t[i].d) \in r2 \/ CopyBefore(t, i, Front(t[i].d))
  <2>1. t[i] = s[i + 1] /\ i + 1 \in DOMAIN s  BY <1>1
  <2>2. t[i].d \in Places(c)  BY <1>4, <2>1
  <2>3. Front(t[i].d) \in {<<>>} \cup Places(c)  BY <2>2, PathFacts DEF Places
  <2>4. Front(t[i].d) \in r1 \/ CopyBefore(s, i + 1, Front(t[i].d))  BY <1>4, <2>1 DEF Ready
  <2> QED  BY <1>2, <2>3, <2>4
<1> QED  BY <1>3, <1>4 DEF Ready, t

-----------------------------------------------------------------------------
(* A step of one manager, as the others see it.                            *)

Same(x) ==
    /\ pc'[x] = pc[x] /\ todo'[x] = todo[x] /\ made'[x] = made[x] /\ result'[x] = result[x]
    /\ joined'[x] = joined[x] /\ paths'[x] = paths[x] /\ destroys'[x] = destroys[x]
    /\ proc'[x] = proc[x] /\ alive'[x] = alive[x]

(* What a step of c's manager or process does to the directories.          *)
Adds(c) == \E h \in Hierarchies : dirs \subseteq dirs' /\ dirs' \subseteq dirs \cup {Dir(h, d) : d \in Places(c)}
AddsSub(c) == \E h \in Hierarchies : dirs' = dirs \cup {Dir(h, Sub(c))} /\ Dir(h, Own(c)) \in dirs
Drops == \E h \in Hierarchies, d \in AllPlaces : dirs' = dirs \ {Dir(h, d)} /\ ~Busy(h, d)
Stops(c) == dirs' \in {dirs} \cup {dirs \ {Dir(h, Own(c)), Dir(h, Sub(c))} : h \in Hierarchies}

LEMMA DirFacts == \A g, h, d, e : Dir(g, d) = Dir(h, e) <=> g = h /\ d = e
BY DEF Dir

LEMMA BusyFacts ==
    ASSUME NEW h \in Hierarchies, NEW d \in AllPlaces, ~Busy(h, d)
    PROVE  /\ \A e : Dir(h, e) \in dirs => ~Under(e, d)
           /\ \A c \in Containers : alive[c] => proc[c][h] # d
<1>1. \A e \in dirs : ~(e[1] = h /\ Under(e[2], d))
  BY DEF Busy, Under
<1>2. \A e : Dir(h, e)[1] = h /\ Dir(h, e)[2] = e
  BY DEF Dir
<1> QED  BY <1>1, <1>2 DEF Busy

(* V2, Systemd and the subsystems depend on the configuration only.        *)
LEMMA EnvFacts ==
    ASSUME env' = env
    PROVE  /\ V2' = V2 /\ Systemd' = Systemd /\ Handled' = Handled /\ GivesUp' = GivesUp /\ MayGoWithout' = MayGoWithout
           /\ \A c, s : Shape(c, s)' <=> Shape(c, s)
           /\ \A p, ps, js, s : Phase(p, ps, js, s)' <=> Phase(p, ps, js, s)
<1>1. V2' = V2 /\ Systemd' = Systemd /\ Handled' = Handled /\ GivesUp' = GivesUp /\ MayGoWithout' = MayGoWithout
  BY DEF V2, Systemd, Handled, subsystems, GivesUp, MayGoWithout
<1> QED  BY <1>1 DEF Shape, Phase

LEMMA ReadyMore ==
    ASSUME NEW s \in Seq(StepSet), NEW c, NEW r1, NEW r2, Ready(c, s, r1),
           \A i \in DOMAIN s : s[i].k # "controllers" => s[i].d \in Places(c),
           r1 \cap ({<<>>} \cup Places(c)) \subseteq r2
    PROVE  Ready(c, s, r2)
<1>1. ASSUME NEW i \in DOMAIN s, s[i].h = "cpuset", s[i].k = "copy"
      PROVE  Front(s[i].d) \in r2 \/ CopyBefore(s, i, Front(s[i].d))
  <2>1. Front(s[i].d) \in {<<>>} \cup Places(c)  BY <1>1, PathFacts DEF Places
  <2> QED  BY <1>1, <2>1 DEF Ready
<1>2. ASSUME NEW i \in DOMAIN s, s[i].h = "cpuset", s[i].k = "join"
      PROVE  Own(c) \in r2 \/ CopyBefore(s, i, Own(c))
  BY <1>2 DEF Ready, Places
<1> QED  BY <1>1, <1>2 DEF Ready

LEMMA LocalOther ==
    ASSUME TypeOK, NEW c \in Containers, NEW x \in Containers, x # c, Local(x), Same(x), env' = env,
           cpus \ {Own(c)} \subseteq cpus'
    PROVE  Local(x)'
<1>1. todo[x] \in Seq(StepSet)  BY DEF TypeOK
<1>2. \A i \in DOMAIN todo[x] : todo[x][i].k # "controllers" => todo[x][i].d \in Places(x)
  BY DEF Local, Shape
<1>3. Own(c) \notin {<<>>} \cup Places(x)  BY PathFacts, Distinct DEF Places
<1>4. Ready(x, todo[x], cpus')
  BY <1>1, <1>2, <1>3, ReadyMore DEF Local
<1>5. Ready(x, todo[x], cpus)' BY <1>4 DEF Same, Ready, CopyBefore
<1>6. (\A h \in paths[x] \ joined[x] : Pending(x, h))' <=> \A h \in paths[x] \ joined[x] : Pending(x, h)
  BY DEF Same, Pending
<1>7. (\A i \in DOMAIN todo[x] : Shape(x, todo[x][i]) /\ Phase(pc[x], paths[x], joined[x], todo[x][i]))'
  BY EnvFacts DEF Same, Local
<1>8. (\A i \in DOMAIN made[x] : made[x][i] \in Places(x))'
  BY DEF Same, Local
<1>9. (/\ joined[x] \subseteq Handled
       /\ paths[x] \subseteq Handled
       /\ V2 \/ (~GivesUp /\ destroys[x] = 0) => paths[x] = Handled
       /\ pc[x] = "new" => joined[x] = {} /\ made[x] = <<>> /\ paths[x] = Handled
       /\ pc[x] \in {"new", "apply", "undo"} => destroys[x] = 0
       /\ pc[x] = "destroy" => destroys[x] > 0
       /\ pc[x] = "undo" /\ ~Systemd => joined[x] = {}
       /\ pc[x] = "idle" /\ result[x] = "nil" /\ destroys[x] = 0 => paths[x] \subseteq joined[x] \/ (MayGoWithout /\ joined[x] = {}))'
  BY EnvFacts DEF Same, Local
<1>10. Ordered(env.flavour, todo[x])'
  BY DEF Same, Local
<1>11. (pc[x] = "apply" => Growing(made[x], todo[x]) /\ \A h \in paths[x] \ joined[x] : Pending(x, h))'
  BY <1>6 DEF Same, Local
<1> QED  BY <1>5, <1>7, <1>8, <1>9, <1>10, <1>11 DEF Local

LEMMA InPlaceOther ==
    ASSUME TypeOK, NEW c \in Containers, NEW x \in Containers, x # c, InPlace(x), Same(x), env' = env,
           dirs' = dirs \/ Adds(c) \/ AddsSub(c) \/ Drops \/ Stops(c)
    PROVE  InPlace(x)'
<1> SUFFICES ASSUME NEW h \in Hierarchies, alive[x], h \in joined[x], Dir(h, proc[x][h]) \in dirs
             PROVE  Dir(h, proc[x][h]) \in dirs'
  BY DEF InPlace, Same
<1>1. CASE dirs' = dirs \/ Adds(c) \/ AddsSub(c)  BY <1>1 DEF Adds, AddsSub
<1>2. CASE Drops
  <2>1. PICK g \in Hierarchies, d \in AllPlaces : dirs' = dirs \ {Dir(g, d)} /\ ~Busy(g, d)  BY <1>2 DEF Drops
  <2>2. ~(g = h /\ d = proc[x][h])  BY <2>1, BusyFacts
  <2> QED  BY <2>1, <2>2, DirFacts
<1>3. CASE Stops(c)
  <2>1. proc[x][h] \in {Own(x), Sub(x)}  BY DEF InPlace
  <2>2. proc[x][h] # Own(c) /\ proc[x][h] # Sub(c)  BY <2>1, PathFacts, Distinct
  <2> QED  BY <1>3, <2>2, DirFacts DEF Stops
<1> QED  BY <1>1, <1>2, <1>3

LEMMA KnownOther ==
    ASSUME NEW c \in Containers, NEW x \in Containers, x # c, Known(x), Same(x), env' = env,
           dirs' = dirs \/ Adds(c) \/ AddsSub(c) \/ Drops \/ Stops(c)
    PROVE  Known(x)'
<1>1. \A h : Dir(h, Own(x)) \in dirs' => Dir(h, Own(x)) \in dirs
  <2>1. \A d \in Places(c) : d # Own(x)  BY PathFacts, Distinct DEF Places
  <2>2. Sub(c) # Own(x)  BY Distinct
  <2>3. CASE dirs' = dirs \/ Drops \/ Stops(c)  BY <2>3 DEF Drops, Stops
  <2>4. CASE Adds(c)  BY <2>1, <2>4, DirFacts DEF Adds
  <2>5. CASE AddsSub(c)  BY <2>2, <2>5, DirFacts DEF AddsSub
  <2> QED  BY <2>3, <2>4, <2>5
<1>2. Removing(x)' <=> Removing(x)  BY DEF Removing, Same
<1> QED  BY <1>1, <1>2, EnvFacts DEF Known, Same

LEMMA TreeKept ==
    ASSUME TypeOK, Tree, NEW c \in Containers,
           \/ dirs' = dirs
           \/ \E h \in Hierarchies, d \in Places(c) : (Front(d) = <<>> \/ Dir(h, Front(d)) \in dirs) /\ dirs' = dirs \cup {Dir(h, d)}
           \/ \E h \in Hierarchies : dirs' = dirs \cup {Dir(h, d) : d \in Places(c)}
           \/ AddsSub(c) \/ Drops \/ Stops(c)
    PROVE  Tree'
<1>1. CASE dirs' = dirs  BY <1>1 DEF Tree
<1>2. ASSUME NEW h \in Hierarchies, NEW d \in Places(c), Front(d) = <<>> \/ Dir(h, Front(d)) \in dirs, dirs' = dirs \cup {Dir(h, d)}
      PROVE  Tree'
  BY <1>2, PathFacts, Distinct, DirFacts DEF Tree, Places
<1>3. ASSUME NEW h \in Hierarchies, dirs' = dirs \cup {Dir(h, d) : d \in Places(c)}
      PROVE  Tree'
  BY <1>3, PathFacts, Distinct, DirFacts DEF Tree, Places
<1>4. CASE AddsSub(c)
  BY <1>4, PathFacts, Distinct, DirFacts DEF Tree, AddsSub
<1>5. CASE Drops
  <2>1. PICK g \in Hierarchies, d \in AllPlaces : dirs' = dirs \ {Dir(g, d)} /\ ~Busy(g, d)  BY <1>5 DEF Drops
  <2>2. \A e : Dir(g, e) \in dirs => ~Under(e, d)  BY <2>1, BusyFacts
  <2>3. ASSUME NEW h \in Hierarchies, NEW x \in Containers PROVE
          /\ Dir(h, Mid) \in dirs' => Dir(h, Top) \in dirs'
          /\ Dir(h, Own(x)) \in dirs' => Dir(h, Mid) \in dirs'
          /\ Dir(h, Sub(x)) \in dirs' => Dir(h, Own(x)) \in dirs'
    BY <2>1, <2>2, UnderFacts, DirFacts DEF Tree
  <2> QED  BY <2>3 DEF Tree
<1>6. CASE Stops(c)
  <2>1. ASSUME NEW g \in Hierarchies, dirs' = dirs \ {Dir(g, Own(c)), Dir(g, Sub(c))} PROVE Tree'
    BY <2>1, PathFacts, Distinct, DirFacts DEF Tree
  <2> QED  BY <1>1, <1>6, <2>1 DEF Stops
<1> QED  BY <1>1, <1>2, <1>3, <1>4, <1>5, <1>6

-----------------------------------------------------------------------------
(* A step of c's manager, as itself sees it.                               *)

(* The next step is done: it was the first one and is left no longer.      *)
LEMMA LocalContinue ==
    ASSUME TypeOK, NEW c \in Containers, Local(c), InCall(c), todo[c] # <<>>, env' = env,
           todo'[c] = Tail(todo[c]), pc'[c] = pc[c], destroys'[c] = destroys[c],
           \/ made'[c] = made[c] \/ made'[c] = <<>>
           \/ made'[c] = Append(made[c], D(c)) /\ Head(todo[c]).k = "create",
           \/ paths'[c] = paths[c]
           \/ pc[c] = "destroy" /\ ~V2 /\ paths'[c] \subseteq paths[c],
           \/ joined'[c] = joined[c] /\ Head(todo[c]).k \notin {"join", "start"}
           \/ joined'[c] = joined[c] \cup {H(c)} /\ Head(todo[c]).k \in {"join", "start"},
           cpus \cap ({<<>>} \cup Places(c)) \subseteq cpus' \/ pc[c] = "destroy",
           Head(todo[c]).k = "copy" /\ H(c) = "cpuset" => D(c) \in cpus'
    PROVE  Local(c)'
<1> DEFINE s == todo[c]
           t == Tail(s)
<1>0. s \in Seq(StepSet) /\ s # <<>>  BY DEF TypeOK
<1>1. /\ Head(s) = s[1] /\ 1 \in DOMAIN s
      /\ \A i \in DOMAIN t : i \in Nat /\ i > 0 /\ i + 1 \in DOMAIN s /\ t[i] = s[i + 1]
      /\ \A j \in DOMAIN s : j = 1 \/ (j - 1 \in DOMAIN t /\ t[j - 1] = s[j])
      /\ t = SubSeq(s, 2, Len(s)) /\ 2 \in 1..Len(s) + 1
  BY <1>0, TailFacts
<1>2. \A i \in DOMAIN s : Shape(c, s[i]) /\ Phase(pc[c], paths[c], joined[c], s[i])
  BY DEF Local
<1>3. \A i \in DOMAIN s : s[i].k # "controllers" => s[i].d \in Places(c)
  BY <1>2 DEF Shape
<1>4. pc[c] \in {"apply", "undo", "destroy"}
  BY DEF InCall
<1>5. Ordered(env.flavour, s)
  BY DEF Local
<1> HIDE DEF s, t
<1>6. Ordered(env.flavour, t)
  BY <1>0, <1>1, <1>5, OrderedSuffix
<1>7. \A i \in DOMAIN t : PairOK(env.flavour, s[1], t[i])
  <2> TAKE i \in DOMAIN t
  <2>1. 1 < i + 1  BY <1>1
  <2> QED  BY <1>1, <1>5, <2>1 DEF Ordered
<1>8. Ready(c, t, cpus')
  <2>1. CASE pc[c] = "destroy"
    <3>1. \A i \in DOMAIN t : t[i].k \in DestroyKinds  BY <1>1, <1>2, <2>1 DEF Phase
    <3> QED  BY <3>1 DEF Ready, DestroyKinds
  <2>2. CASE pc[c] # "destroy"
    <3>1. Ready(c, s, cpus)  BY DEF Local, s
    <3>2. Head(s).k = "copy" /\ Head(s).h = "cpuset" => Head(s).d \in cpus'  BY DEF s, H, D
    <3> QED  BY <1>0, <1>3, <2>2, <3>1, <3>2, ReadyTail DEF t
  <2> QED  BY <2>1, <2>2
<1>9. ASSUME NEW i \in DOMAIN t PROVE Shape(c, t[i]) /\ Phase(pc'[c], paths'[c], joined'[c], t[i])
  <2>1. Shape(c, t[i]) /\ Phase(pc[c], paths[c], joined[c], t[i])  BY <1>1, <1>2
  <2>2. CASE pc[c] = "apply"
    <3>1. CASE joined'[c] = joined[c]  BY <2>1, <2>2, <3>1 DEF Phase
    <3>2. CASE joined'[c] = joined[c] \cup {H(c)} /\ Head(todo[c]).k \in {"join", "start"}
      <4>1. ~Systemd => Head(todo[c]).k = "join"
        BY <1>1, <1>2, <3>2 DEF Shape, s
      <4>2. Head(todo[c]).k = "join" => t[i].h # H(c)
        BY <1>1, <1>7 DEF PairOK, H, s
      <4> QED  BY <2>1, <2>2, <3>2, <4>1, <4>2 DEF Phase
    <3> QED  BY <3>1, <3>2
  <2> QED  BY <1>4, <2>1, <2>2 DEF Phase
<1>10. ASSUME pc[c] = "apply", NEW h \in paths'[c] \ joined'[c]
       PROVE  \E i \in DOMAIN t : t[i].k \in {"join", "start"} /\ t[i].h = h
  <2>1. h \in paths[c] \ joined[c]  BY <1>10
  <2>2. PICK j \in DOMAIN s : s[j].k \in {"join", "start"} /\ s[j].h = h  BY <1>10, <2>1 DEF Local, Pending, s
  <2>3. j # 1  BY <1>1, <1>10, <2>2 DEF H, s
  <2> QED  BY <1>1, <2>2, <2>3
<1>11. todo'[c] = t  BY DEF s, t
<1>12. (\A i \in DOMAIN todo[c] : Shape(c, todo[c][i]) /\ Phase(pc[c], paths[c], joined[c], todo[c][i]))'
  BY <1>9, <1>11, EnvFacts
<1>13. H(c) \in Handled
  BY <1>1, <1>2 DEF Shape, H, s
<1>14. (/\ joined[c] \subseteq Handled
        /\ paths[c] \subseteq Handled
        /\ V2 \/ (~GivesUp /\ destroys[c] = 0) => paths[c] = Handled)'
  BY <1>13, EnvFacts DEF Local
<1>15. (/\ pc[c] = "new" => joined[c] = {} /\ made[c] = <<>> /\ paths[c] = Handled
        /\ pc[c] \in {"new", "apply", "undo"} => destroys[c] = 0
        /\ pc[c] = "destroy" => destroys[c] > 0
        /\ pc[c] = "undo" /\ ~Systemd => joined[c] = {}
        /\ pc[c] = "idle" /\ result[c] = "nil" /\ destroys[c] = 0 => paths[c] \subseteq joined[c] \/ (MayGoWithout /\ joined[c] = {}))'
  <2>1. pc[c] = "undo" => joined'[c] = joined[c]  BY <1>1, <1>2 DEF Phase, s
  <2> QED  BY <1>4, <2>1, EnvFacts DEF Local
<1>16. (Ordered(env.flavour, todo[c]) /\ Ready(c, todo[c], cpus))'
  BY <1>6, <1>8, <1>11
<1>17. (pc[c] = "apply" => \A h \in paths[c] \ joined[c] : Pending(c, h))'
  BY <1>10, <1>11 DEF Pending
<1>18. (\A i \in DOMAIN made'[c] : made'[c][i] \in Places(c)) /\ (pc[c] = "apply" => Growing(made'[c], t))
  <2> DEFINE m == made[c]
  <2>0. m \in Seq(AllPlaces) /\ DOMAIN m = 1..Len(m) /\ Len(m) \in Nat  BY LenProperties DEF TypeOK
  <2>1. \A i \in DOMAIN m : m[i] \in Places(c)  BY DEF Local
  <2>2. pc[c] = "apply" => Growing(m, s)  BY DEF Local, s
  <2> HIDE DEF m
  <2>3. pc[c] = "apply" => Growing(m, t)  BY <1>1, <2>2 DEF Growing
  <2>4. CASE made'[c] = <<>>
    <3>1. DOMAIN made'[c] = {}  BY <2>4
    <3> QED  BY <3>1 DEF Growing
  <2>5. CASE made'[c] = Append(m, D(c)) /\ Head(todo[c]).k = "create"
    <3>1. D(c) \in Places(c) /\ D(c) = s[1].d /\ s[1].k = "create"  BY <1>1, <1>3, <2>5 DEF D, s
    <3>2. D(c) \in AllPlaces  BY <3>1 DEF Places, AllPlaces
    <3>3. made'[c] \in Seq(AllPlaces) /\ DOMAIN made'[c] = 1..Len(m) + 1
      BY <2>0, <2>5, <3>2, AppendProperties, LenProperties
    <3>4. made'[c][Len(m) + 1] = D(c) /\ \A i \in DOMAIN m : made'[c][i] = m[i]
      BY <2>0, <2>5, <3>2, AppendProperties
    <3>5. \A i \in DOMAIN made'[c] : i = Len(m) + 1 \/ i \in DOMAIN m  BY <2>0, <3>3
    <3>6. ASSUME pc[c] = "apply", NEW i \in DOMAIN made'[c], NEW j \in DOMAIN made'[c], i < j
          PROVE  Len(made'[c][i]) < Len(made'[c][j])
      <4>1. i \in DOMAIN m  BY <2>0, <3>3, <3>6
      <4> QED  BY <1>1, <2>2, <3>1, <3>4, <3>5, <3>6, <4>1 DEF Growing
    <3>7. ASSUME pc[c] = "apply", NEW i \in DOMAIN made'[c], NEW j \in DOMAIN t, t[j].k = "create"
          PROVE  Len(made'[c][i]) < Len(t[j].d)
      <4>1. CASE i \in DOMAIN m  BY <2>3, <3>4, <3>7, <4>1 DEF Growing
      <4>2. CASE i = Len(m) + 1  BY <1>7, <3>1, <3>4, <3>7, <4>2 DEF PairOK
      <4> QED  BY <3>5, <4>1, <4>2
    <3> QED  BY <2>1, <3>1, <3>4, <3>5, <3>6, <3>7 DEF Growing
  <2> QED  BY <2>1, <2>3, <2>4, <2>5 DEF m
<1> QED  BY <1>11, <1>12, <1>14, <1>15, <1>16, <1>17, <1>18 DEF Local

(* The call returns.                                                       *)
LEMMA LocalReturn ==
    ASSUME TypeOK, NEW c \in Containers, Local(c), InCall(c), env' = env,
           todo'[c] = <<>>, pc'[c] = "idle", destroys'[c] = destroys[c], made'[c] = made[c],
           paths'[c] = paths[c], joined'[c] = joined[c],
           result'[c] = "nil" => pc[c] = "destroy" \/ (pc[c] = "apply" /\ todo[c] = <<>>) \/ (pc[c] = "undo" /\ MayGoWithout)
    PROVE  Local(c)'
<1>1. DOMAIN todo'[c] = {}  OBVIOUS
<1>2. (Ordered(env.flavour, todo[c]) /\ Ready(c, todo[c], cpus))'
  BY <1>1 DEF Ordered, Ready
<1>3. pc[c] = "apply" /\ todo[c] = <<>> => paths[c] \subseteq joined[c]
  BY DEF Local, Pending
<1>4. pc[c] = "destroy" => destroys[c] # 0
  BY DEF Local, TypeOK
<1>5. pc[c] = "undo" /\ MayGoWithout => joined[c] = {}
  BY DEF Local, MayGoWithout, Systemd
<1> QED  BY <1>1, <1>2, <1>3, <1>4, <1>5, EnvFacts DEF Local

(* A hierarchy is given up: by Apply of a rootless manager, or by a round  *)
(* of RemovePaths.                                                         *)
LEMMA LocalSkip ==
    ASSUME TypeOK, NEW c \in Containers, Local(c), todo[c] # <<>>, env' = env, NextSubsystem(c),
           made'[c] = made[c], joined'[c] = joined[c], destroys'[c] = destroys[c], cpus' = cpus,
           \/ pc[c] = "apply" /\ env.flavour = "fs" /\ env.rootless /\ paths'[c] = paths[c] \ {H(c)}
           \/ pc[c] = "destroy" /\ paths'[c] = paths[c]
    PROVE  Local(c)' /\ todo' = [todo EXCEPT ![c] = todo'[c]] /\ todo'[c] \in Seq(StepSet)
<1> DEFINE s == todo[c]
<1>0. s \in Seq(StepSet) /\ s # <<>>  BY DEF TypeOK
<1>1. PICK n \in 1..Len(s) + 1 :
        /\ \A i \in 1..(n - 1) : s[i].h = H(c)
        /\ n <= Len(s) => s[n].h # H(c)
        /\ todo' = [todo EXCEPT ![c] = SubSeq(s, n, Len(s))]
        /\ pc' = pc /\ result' = result
  BY DEF NextSubsystem
<1> DEFINE t == SubSeq(s, n, Len(s))
<1>2. todo'[c] = t  BY <1>1 DEF TypeOK
<1>3. /\ t \in Seq(StepSet)
      /\ \A i \in DOMAIN t : i \in Nat /\ i > 0 /\ i + n - 1 \in DOMAIN s /\ t[i] = s[i + n - 1]
      /\ \A j \in DOMAIN s : j \in Nat /\ (j < n \/ (j + 1 - n \in DOMAIN t /\ t[j + 1 - n] = s[j]))
  BY <1>0, SuffixFacts
<1>4. DOMAIN s = 1..Len(s) /\ Len(s) \in Nat /\ n \in Nat /\ 1 \in DOMAIN s /\ Head(s) = s[1]
  BY <1>0, LenProperties, TailFacts
<1>5. \A i \in DOMAIN s : Shape(c, s[i]) /\ Phase(pc[c], paths[c], joined[c], s[i])
  BY DEF Local
<1>6. Ordered(env.flavour, s)  BY DEF Local
<1> HIDE DEF s, t
<1>7. Ordered(env.flavour, t)  BY <1>0, <1>6, OrderedSuffix DEF t
<1>8. ASSUME pc[c] = "apply", env.flavour = "fs", NEW i \in DOMAIN t PROVE H(c) = "cpuset" /\ t[i].h = "memory"
  <2>1. Handled = {"cpuset", "memory"}  BY <1>8, HandledFacts
  <2>2. n <= Len(s) /\ i + n - 1 >= n /\ n \in DOMAIN s  BY <1>3, <1>4
  <2>3. s[n].h # H(c) /\ s[n].h \in Handled /\ H(c) \in Handled
    BY <1>1, <1>4, <1>5, <2>2 DEF Shape, H, s
  <2>4. n # 1  BY <1>4, <2>3 DEF H, s
  <2>5. s[1].h = "memory" => s[n].h = "memory"
    BY <1>4, <1>6, <1>8, <2>2, <2>4 DEF Ordered, PairOK
  <2>6. H(c) = "cpuset" /\ s[n].h = "memory"
    BY <1>4, <2>1, <2>3, <2>5 DEF H, s
  <2>7. i + n - 1 = n \/ n < i + n - 1  BY <1>3, <1>4
  <2>8. s[i + n - 1].h = "memory"
    BY <1>3, <1>6, <1>8, <2>2, <2>6, <2>7 DEF Ordered, PairOK
  <2> QED  BY <1>3, <2>6, <2>8
<1>9. Ready(c, t, cpus')
  <2>1. CASE pc[c] = "destroy"
    <3>1. \A i \in DOMAIN t : t[i].k \in DestroyKinds  BY <1>3, <1>5, <2>1 DEF Phase
    <3> QED  BY <3>1 DEF Ready, DestroyKinds
  <2>2. CASE pc[c] = "apply" /\ env.flavour = "fs"
    BY <1>8, <2>2 DEF Ready
  <2> QED  BY <2>1, <2>2
<1>10. ASSUME NEW i \in DOMAIN t PROVE Shape(c, t[i]) /\ Phase(pc[c], paths'[c], joined[c], t[i])
  <2>1. Shape(c, t[i]) /\ Phase(pc[c], paths[c], joined[c], t[i])  BY <1>3, <1>5
  <2>2. CASE pc[c] = "apply" /\ env.flavour = "fs" /\ paths'[c] = paths[c] \ {H(c)}
    <3>1. t[i].h # H(c)  BY <1>8, <2>2
    <3> QED  BY <2>1, <2>2, <3>1 DEF Phase
  <2> QED  BY <2>1, <2>2 DEF Phase
<1>11. ASSUME pc[c] = "apply", NEW h \in paths'[c] \ joined'[c]
       PROVE  \E i \in DOMAIN t : t[i].k \in {"join", "start"} /\ t[i].h = h
  <2>1. h \in paths[c] \ joined[c] /\ h # H(c)  BY <1>11
  <2>2. PICK j \in DOMAIN s : s[j].k \in {"join", "start"} /\ s[j].h = h  BY <1>11, <2>1 DEF Local, Pending, s
  <2>3. ~(j < n)  BY <1>1, <1>4, <2>1, <2>2
  <2> QED  BY <1>3, <2>2, <2>3
<1>12. (\A i \in DOMAIN todo[c] : Shape(c, todo[c][i]) /\ Phase(pc[c], paths[c], joined[c], todo[c][i]))'
  BY <1>1, <1>2, <1>10, EnvFacts
<1>13. ~(V2 \/ (~GivesUp /\ destroys[c] = 0)) \/ paths'[c] = paths[c]
  BY HandledFacts DEF GivesUp
<1>14. (/\ joined[c] \subseteq Handled
        /\ paths[c] \subseteq Handled
        /\ V2 \/ (~GivesUp /\ destroys[c] = 0) => paths[c] = Handled)'
  BY <1>13, EnvFacts DEF Local
<1>15. (/\ pc[c] = "new" => joined[c] = {} /\ made[c] = <<>> /\ paths[c] = Handled
        /\ pc[c] \in {"new", "apply", "undo"} => destroys[c] = 0
        /\ pc[c] = "destroy" => destroys[c] > 0
        /\ pc[c] = "undo" /\ ~Systemd => joined[c] = {}
        /\ pc[c] = "idle" /\ result[c] = "nil" /\ destroys[c] = 0 => paths[c] \subseteq joined[c] \/ (MayGoWithout /\ joined[c] = {}))'
  BY <1>1 DEF Local
<1>16. (Ordered(env.flavour, todo[c]) /\ Ready(c, todo[c], cpus))'
  BY <1>2, <1>7, <1>9
<1>17. pc[c] = "apply" => \A h \in paths'[c] \ joined'[c] : Pending(c, h)'
  BY <1>2, <1>11 DEF Pending
<1>18. (\A i \in DOMAIN made[c] : made[c][i] \in Places(c))'
  BY DEF Local
<1>19. pc[c] = "apply" => Growing(made[c], t)
  BY <1>3 DEF Local, Growing, s
<1> QED  BY <1>1, <1>2, <1>3, <1>12, <1>14, <1>15, <1>16, <1>17, <1>18, <1>19 DEF Local, t

(* The undoing of CreateCgroupPath begins.                                 *)
LEMMA LocalUndo ==
    ASSUME TypeOK, NEW c \in Containers, Local(c), pc[c] = "apply", env' = env, V2, todo[c] # <<>>,
           todo'[c] = Undo(c), pc'[c] = "undo", destroys'[c] = destroys[c], made'[c] = made[c],
           paths'[c] = paths[c], joined'[c] = joined[c]
    PROVE  Local(c)' /\ todo'[c] \in Seq(StepSet)
<1> DEFINE m == made[c]
           t == Undo(c)
<1>1. m \in Seq(AllPlaces) /\ DOMAIN m = 1..Len(m) /\ Len(m) \in Nat
  BY LenProperties DEF TypeOK
<1>2. \A i \in DOMAIN m : m[i] \in Places(c) /\ m[i] \in AllPlaces
  BY <1>1, ElementOfSeq DEF Local
<1>3. DOMAIN t = DOMAIN m /\ \A i \in DOMAIN t : t[i] = Step("undo", "unified", m[Len(m) + 1 - i])
  BY DEF Undo
<1> HIDE DEF m, t
<1>4. \A i \in DOMAIN t : Len(m) + 1 - i \in DOMAIN m
  BY <1>1, <1>3
<1>5. "undo" \in Kinds /\ "unified" \in Hierarchies
  BY DEF Kinds, Hierarchies
<1>6. \A i \in DOMAIN t : t[i] \in StepSet /\ t[i].k = "undo" /\ t[i].h = "unified" /\ t[i].d = m[Len(m) + 1 - i]
  BY <1>2, <1>3, <1>4, <1>5 DEF Step, StepSet
<1>7. t \in Seq(StepSet)
  <2>1. t = [i \in 1..Len(m) |-> t[i]]  BY <1>1, <1>3 DEF t, Undo, m
  <2>2. t \in [1..Len(m) -> StepSet]  BY <1>1, <1>3, <1>6, <2>1
  <2> QED  BY <1>1, <2>2, SeqDef
<1>8. Ordered(env.flavour, t)
  <2> SUFFICES ASSUME NEW i \in DOMAIN t, NEW j \in DOMAIN t, i < j PROVE PairOK(env.flavour, t[i], t[j])
    BY DEF Ordered
  <2>1. Len(m) + 1 - j < Len(m) + 1 - i  BY <1>1, <1>3
  <2>2. Len(t[i].d) > Len(t[j].d)
    <3>1. Len(m[Len(m) + 1 - j]) < Len(m[Len(m) + 1 - i])  BY <1>4, <2>1 DEF m, Local, Growing
    <3>2. Len(t[i].d) \in Nat /\ Len(t[j].d) \in Nat  BY <1>2, <1>4, <1>6, PathFacts DEF Places
    <3> QED  BY <1>6, <3>1, <3>2
  <2>3. env.flavour # "fs"  BY HandledFacts
  <2> QED  BY <1>6, <2>2, <2>3 DEF PairOK
<1>9. Ready(c, t, cpus')  BY <1>6 DEF Ready
<1>10. \A i \in DOMAIN t : Shape(c, t[i]) /\ Phase("undo", paths[c], joined[c], t[i])
  BY <1>2, <1>4, <1>6, HandledFacts DEF Shape, Phase, DestroyKinds
<1>11. todo'[c] = t  BY DEF t
<1>12. (\A i \in DOMAIN todo[c] : Shape(c, todo[c][i]) /\ Phase(pc[c], paths[c], joined[c], todo[c][i]))'
  BY <1>10, <1>11, EnvFacts
<1>13. (/\ joined[c] \subseteq Handled
        /\ paths[c] \subseteq Handled
        /\ V2 \/ (~GivesUp /\ destroys[c] = 0) => paths[c] = Handled)'
  BY EnvFacts DEF Local
<1>14. (Ordered(env.flavour, todo[c]) /\ Ready(c, todo[c], cpus))'
  BY <1>8, <1>9, <1>11
<1>15. ~Systemd => joined[c] = {}
  <2>1. todo[c] \in Seq(StepSet)  BY DEF TypeOK
  <2>2. 1 \in DOMAIN todo[c]  BY <2>1, TailFacts
  <2>3. todo[c][1].h \in Handled /\ (~Systemd => todo[c][1].h \notin joined[c])
    BY <2>2 DEF Local, Shape, Phase
  <2> QED  BY <2>3, HandledFacts DEF Local
<1>16. Systemd' = Systemd  BY EnvFacts
<1> QED  BY <1>7, <1>11, <1>12, <1>13, <1>14, <1>15, <1>16 DEF Local

-----------------------------------------------------------------------------
(* The sequences of steps the calls begin with.                            *)

LEMMA OrderedConcat ==
    ASSUME NEW s \in Seq(StepSet), NEW t \in Seq(StepSet), NEW f, Ordered(f, s), Ordered(f, t),
           \A i \in DOMAIN s : \A j \in DOMAIN t : PairOK(f, s[i], t[j])
    PROVE  Ordered(f, s \o t)
<1> DEFINE u == s \o t
<1>1. DOMAIN s = 1..Len(s) /\ DOMAIN t = 1..Len(t) /\ Len(s) \in Nat /\ Len(t) \in Nat
  BY LenProperties
<1>2. /\ u \in Seq(StepSet) /\ Len(u) = Len(s) + Len(t)
      /\ \A i \in 1..Len(s) + Len(t) : u[i] = IF i <= Len(s) THEN s[i] ELSE t[i - Len(s)]
  BY ConcatProperties
<1>3. DOMAIN u = 1..Len(s) + Len(t)  BY <1>2, LenProperties
<1> HIDE DEF u
<1>4. ASSUME NEW i \in DOMAIN u, NEW j \in DOMAIN u, i < j PROVE PairOK(f, u[i], u[j])
  <2>1. CASE j <= Len(s)
    <3>1. i \in DOMAIN s /\ j \in DOMAIN s  BY <1>1, <1>3, <1>4, <2>1
    <3>2. u[i] = s[i] /\ u[j] = s[j]  BY <1>1, <1>2, <1>3, <1>4, <2>1
    <3> QED  BY <1>4, <3>1, <3>2 DEF Ordered
  <2>2. CASE j > Len(s) /\ i <= Len(s)
    <3>1. i \in DOMAIN s /\ j - Len(s) \in DOMAIN t  BY <1>1, <1>3, <1>4, <2>2
    <3>2. u[i] = s[i] /\ u[j] = t[j - Len(s)]  BY <1>1, <1>2, <1>3, <1>4, <2>2
    <3> QED  BY <3>1, <3>2
  <2>3. CASE i > Len(s)
    <3>1. i - Len(s) \in DOMAIN t /\ j - Len(s) \in DOMAIN t /\ i - Len(s) < j - Len(s)  BY <1>1, <1>3, <1>4, <2>3
    <3>2. u[i] = t[i - Len(s)] /\ u[j] = t[j - Len(s)]  BY <1>1, <1>2, <1>3, <1>4, <2>3
    <3> QED  BY <3>1, <3>2 DEF Ordered
  <2> QED  BY <1>1, <1>3, <1>4, <2>1, <2>2, <2>3
<1> QED  BY <1>4 DEF Ordered, u

LEMMA ConcatFacts ==
    ASSUME NEW S, NEW s \in Seq(S), NEW t \in Seq(S)
    PROVE  /\ s \o t \in Seq(S)
           /\ \A i \in DOMAIN (s \o t) :
                \/ i \in DOMAIN s /\ (s \o t)[i] = s[i]
                \/ i - Len(s) \in DOMAIN t /\ (s \o t)[i] = t[i - Len(s)]
           /\ \A i \in DOMAIN s : i \in DOMAIN (s \o t) /\ (s \o t)[i] = s[i]
           /\ \A i \in DOMAIN t : Len(s) + i \in DOMAIN (s \o t) /\ (s \o t)[Len(s) + i] = t[i]
<1> DEFINE u == s \o t
<1>1. DOMAIN s = 1..Len(s) /\ DOMAIN t = 1..Len(t) /\ Len(s) \in Nat /\ Len(t) \in Nat
  BY LenProperties
<1>2. /\ u \in Seq(S) /\ Len(u) = Len(s) + Len(t)
      /\ \A i \in 1..Len(s) + Len(t) : u[i] = IF i <= Len(s) THEN s[i] ELSE t[i - Len(s)]
  BY ConcatProperties
<1>3. DOMAIN u = 1..Len(s) + Len(t)  BY <1>2, LenProperties
<1> HIDE DEF u
<1>4. \A i \in DOMAIN u : (i \in DOMAIN s /\ u[i] = s[i]) \/ (i - Len(s) \in DOMAIN t /\ u[i] = t[i - Len(s)])
  BY <1>1, <1>2, <1>3
<1>5. \A i \in DOMAIN s : i \in DOMAIN u /\ u[i] = s[i]
  BY <1>1, <1>2, <1>3
<1>6. ASSUME NEW i \in DOMAIN t PROVE Len(s) + i \in DOMAIN u /\ u[Len(s) + i] = t[i]
  <2>1. (Len(s) + i) - Len(s) = i /\ ~(Len(s) + i <= Len(s)) /\ Len(s) + i \in 1..Len(s) + Len(t)  BY <1>1
  <2> QED  BY <1>2, <1>3, <2>1
<1> QED  BY <1>2, <1>4, <1>5, <1>6 DEF u

(* What a step is, by its parts.                                           *)
LEMMA StepFacts ==
    ASSUME NEW k \in Kinds, NEW h \in Hierarchies, NEW d \in AllPlaces
    PROVE  Step(k, h, d) \in StepSet /\ Step(k, h, d).k = k /\ Step(k, h, d).h = h /\ Step(k, h, d).d = d
BY DEF Step, StepSet

LEMMA PlacesFacts ==
    ASSUME NEW c \in Containers
    PROVE  Top \in AllPlaces /\ Mid \in AllPlaces /\ Own(c) \in AllPlaces /\ Sub(c) \in AllPlaces /\ <<>> \in AllPlaces
BY DEF AllPlaces

LEMMA CreateBlock ==
    ASSUME NEW c \in Containers, NEW f, f # "fs"
    PROVE  LET s == CreateCgroupPath(c)
           IN  /\ s \in Seq(StepSet)
               /\ Ordered(f, s)
               /\ \A i \in DOMAIN s : /\ s[i].h = "unified" /\ s[i].k \in {"controllers", "create", "type"}
                                      /\ s[i].k # "controllers" => s[i].d \in Places(c)
<1> DEFINE h == "unified"
           s == <<Step("controllers", h, <<>>), Step("create", h, Top), Step("type", h, Top),
                  Step("create", h, Mid), Step("type", h, Mid), Step("create", h, Own(c)), Step("type", h, Own(c))>>
<1>1. s = CreateCgroupPath(c)
  BY DEF CreateCgroupPath, Top, Mid
<1>2. DOMAIN s = 1..7
  OBVIOUS
<1>3. /\ s[1].h = h /\ s[2].h = h /\ s[3].h = h /\ s[4].h = h /\ s[5].h = h /\ s[6].h = h /\ s[7].h = h
      /\ s[1].k = "controllers" /\ s[2].k = "create" /\ s[3].k = "type" /\ s[4].k = "create" /\ s[5].k = "type"
      /\ s[6].k = "create" /\ s[7].k = "type"
      /\ s[2].d = Top /\ s[3].d = Top /\ s[4].d = Mid /\ s[5].d = Mid /\ s[6].d = Own(c) /\ s[7].d = Own(c)
  BY DEF Step
<1>4. s \in Seq(StepSet)
  <2>1. h \in Hierarchies /\ {"controllers", "create", "type"} \subseteq Kinds  BY DEF Hierarchies, Kinds, ApplyKinds
  <2>2. \A k \in {"controllers", "create", "type"}, d \in {<<>>, Top, Mid, Own(c)} : Step(k, h, d) \in StepSet
    BY <2>1, PlacesFacts, StepFacts
  <2> QED  BY <2>2
<1> HIDE DEF s
<1>5. \A i \in DOMAIN s : /\ s[i].h = h /\ s[i].k \in {"controllers", "create", "type"}
                          /\ s[i].k # "controllers" => s[i].d \in Places(c)
  <2> TAKE i \in DOMAIN s
  <2>1. i \in {1, 2, 3, 4, 5, 6, 7}  BY <1>2
  <2> QED  BY <1>3, <2>1 DEF Places
<1>6. Ordered(f, s)
  <2> SUFFICES ASSUME NEW i \in DOMAIN s, NEW j \in DOMAIN s, i < j PROVE PairOK(f, s[i], s[j])
    BY DEF Ordered
  <2>1. ASSUME s[i].k = "create", s[j].k = "create" PROVE Len(s[i].d) < Len(s[j].d)
    <3>1. i \in {2, 4, 6} /\ j \in {2, 4, 6}
      <4>1. i \in {1, 2, 3, 4, 5, 6, 7} /\ j \in {1, 2, 3, 4, 5, 6, 7}  BY <1>2
      <4> QED  BY <1>3, <2>1, <4>1
    <3>2. Len(Top) = 1 /\ Len(Mid) = 2 /\ Len(Own(c)) = 3  BY PathFacts
    <3>3. (i = 2 /\ j = 4) \/ (i = 2 /\ j = 6) \/ (i = 4 /\ j = 6)  BY <3>1
    <3>4. CASE i = 2 /\ j = 4
      <4>1. s[i].d = Top /\ s[j].d = Mid  BY <1>3, <3>4
      <4>2. Len(s[i].d) = 1 /\ Len(s[j].d) = 2  BY <3>2, <4>1
      <4> QED  BY ONLY <4>2
    <3>5. CASE i = 2 /\ j = 6
      <4>1. s[i].d = Top /\ s[j].d = Own(c)  BY <1>3, <3>5
      <4>2. Len(s[i].d) = 1 /\ Len(s[j].d) = 3  BY <3>2, <4>1
      <4> QED  BY ONLY <4>2
    <3>6. CASE i = 4 /\ j = 6
      <4>1. s[i].d = Mid /\ s[j].d = Own(c)  BY <1>3, <3>6
      <4>2. Len(s[i].d) = 2 /\ Len(s[j].d) = 3  BY <3>2, <4>1
      <4> QED  BY ONLY <4>2
    <3> QED  BY <3>3, <3>4, <3>5, <3>6
  <2> QED  BY <1>5, <2>1 DEF PairOK
<1> QED  BY <1>1, <1>4, <1>5, <1>6

(* The steps for one subsystem of a v1 manager.                            *)
LEMMA SubsystemBlock ==
    ASSUME NEW c \in Containers, NEW g \in {"cpuset", "memory"}, NEW f, <<>> \in cpus
    PROVE  LET s == ApplySubsystem(g, c)
           IN  /\ s \in Seq(StepSet)
               /\ Ordered(f, s)
               /\ Ready(c, s, cpus)
               /\ \A i \in DOMAIN s : /\ s[i].h = g /\ s[i].k \in {"mkdir", "copy", "cpus", "join"}
                                      /\ s[i].d \in Places(c)
                                      /\ s[i].k \in {"cpus", "join"} => s[i].d = Own(c)
               /\ \E i \in DOMAIN s : s[i].k = "join"
<1> DEFINE s == ApplySubsystem(g, c)
           Good(t) == /\ t \in Seq(StepSet)
                      /\ \A i \in DOMAIN t : /\ t[i].h = g /\ t[i].k \in {"mkdir", "copy", "cpus", "join"}
                                             /\ t[i].d \in Places(c)
                                             /\ t[i].k \in {"cpus", "join"} => t[i].d = Own(c)
                                             /\ t[i].k = "join" <=> i = Len(t)
<1>1. g \in Hierarchies /\ {"mkdir", "copy", "cpus", "join"} \subseteq Kinds
  BY DEF Hierarchies, Kinds, ApplyKinds
<1>2. \A k \in {"mkdir", "copy", "cpus", "join"}, d \in {Top, Mid, Own(c)} :
          Step(k, g, d) \in StepSet /\ Step(k, g, d).k = k /\ Step(k, g, d).h = g /\ Step(k, g, d).d = d
  BY <1>1, PlacesFacts, StepFacts
<1>3. ASSUME g = "memory" PROVE Good(s) /\ Ready(c, s, cpus) /\ Len(s) > 0
  <2> DEFINE t == <<Step("mkdir", g, Top), Step("mkdir", g, Mid), Step("mkdir", g, Own(c)), Step("join", g, Own(c))>>
  <2>1. s = t  BY <1>3 DEF ApplySubsystem, Top, Mid
  <2>2. t \in Seq(StepSet) /\ Len(t) = 4 /\ DOMAIN t = 1..4  BY <1>2
  <2>3. /\ t[1].k = "mkdir" /\ t[2].k = "mkdir" /\ t[3].k = "mkdir" /\ t[4].k = "join"
        /\ t[1].h = g /\ t[2].h = g /\ t[3].h = g /\ t[4].h = g
        /\ t[1].d = Top /\ t[2].d = Mid /\ t[3].d = Own(c) /\ t[4].d = Own(c)
    BY <1>2
  <2> HIDE DEF t
  <2>4. Good(t)
    <3>1. \A i \in DOMAIN t : i \in {1, 2, 3, 4}  BY <2>2
    <3> QED  BY <2>2, <2>3, <3>1 DEF Places
  <2>5. Ready(c, t, cpus)  BY <1>3, <2>4 DEF Ready
  <2> HIDE DEF s
  <2> QED  BY <2>1, <2>2, <2>4, <2>5
<1>4. ASSUME g = "cpuset" PROVE Good(s) /\ Ready(c, s, cpus) /\ Len(s) > 0
  <2> DEFINE t == <<Step("mkdir", g, Top), Step("copy", g, Top), Step("mkdir", g, Mid), Step("copy", g, Mid), Step("mkdir", g, Own(c)),
                    Step("cpus", g, Own(c)), Step("copy", g, Own(c)), Step("join", g, Own(c))>>
  <2>1. s = t
    BY <1>4 DEF ApplySubsystem, Top, Mid
  <2>2. t \in Seq(StepSet) /\ Len(t) = 8 /\ DOMAIN t = 1..8  BY <1>2
  <2>3. /\ t[1].k = "mkdir" /\ t[2].k = "copy" /\ t[3].k = "mkdir" /\ t[4].k = "copy" /\ t[5].k = "mkdir"
        /\ t[6].k = "cpus" /\ t[7].k = "copy" /\ t[8].k = "join"
        /\ t[1].h = g /\ t[2].h = g /\ t[3].h = g /\ t[4].h = g /\ t[5].h = g /\ t[6].h = g /\ t[7].h = g /\ t[8].h = g
        /\ t[1].d = Top /\ t[2].d = Top /\ t[3].d = Mid /\ t[4].d = Mid /\ t[5].d = Own(c) /\ t[6].d = Own(c)
        /\ t[7].d = Own(c) /\ t[8].d = Own(c)
    BY <1>2
  <2> HIDE DEF t
  <2>4. \A i \in DOMAIN t : i \in {1, 2, 3, 4, 5, 6, 7, 8}  BY <2>2
  <2>5. Good(t)  BY <2>2, <2>3, <2>4 DEF Places
  <2>6. Ready(c, t, cpus)
    <3>1. CopyBefore(t, 8, Own(c)) /\ CopyBefore(t, 7, Mid) /\ CopyBefore(t, 4, Top)
      BY <1>4, <2>3 DEF CopyBefore
    <3>2. Front(t[2].d) = <<>> /\ Front(t[4].d) = Top /\ Front(t[7].d) = Mid  BY <2>3, PathFacts
    <3>3. \A i \in DOMAIN t : (t[i].k = "copy" => i \in {2, 4, 7}) /\ (t[i].k = "join" => i = 8)  BY <2>3, <2>4
    <3> QED  BY <3>1, <3>2, <3>3 DEF Ready
  <2> HIDE DEF s
  <2> QED  BY <2>1, <2>2, <2>5, <2>6
<1>6. Good(s) /\ Ready(c, s, cpus) /\ Len(s) > 0
  BY <1>3, <1>4
<1> HIDE DEF s
<1>7. Len(s) \in Nat /\ DOMAIN s = 1..Len(s)  BY <1>6, LenProperties
<1>8. Ordered(f, s)
  <2> SUFFICES ASSUME NEW i \in DOMAIN s, NEW j \in DOMAIN s, i < j PROVE PairOK(f, s[i], s[j])
    BY DEF Ordered
  <2>1. i # Len(s)  BY <1>7
  <2> QED  BY <1>6, <2>1 DEF PairOK
<1>9. Len(s) \in DOMAIN s  BY <1>6, <1>7
<1> QED  BY <1>6, <1>8, <1>9 DEF s

(* A sequence of steps that Apply can go on with, in general.              *)
Fit(c, s) ==
    /\ s \in Seq(StepSet)
    /\ Ordered(env.flavour, s)
    /\ Ready(c, s, cpus)
    /\ \A i \in DOMAIN s : Shape(c, s[i]) /\ s[i].k \in ApplyKinds

LEMMA FitEmpty ==
    ASSUME NEW c PROVE Fit(c, <<>>)
<1>1. DOMAIN <<>> = {} /\ <<>> \in Seq(StepSet)  BY EmptySeq
<1> QED  BY <1>1 DEF Fit, Ordered, Ready

LEMMA FitConcat ==
    ASSUME NEW c, NEW s, NEW t, Fit(c, s), Fit(c, t),
           \A i \in DOMAIN s : \A j \in DOMAIN t : PairOK(env.flavour, s[i], t[j])
    PROVE  Fit(c, s \o t)
<1> DEFINE u == s \o t
<1>1. s \in Seq(StepSet) /\ t \in Seq(StepSet)  BY DEF Fit
<1>2. Ordered(env.flavour, u)  BY <1>1, OrderedConcat DEF Fit
<1>3. /\ u \in Seq(StepSet)
      /\ \A i \in DOMAIN u : \/ i \in DOMAIN s /\ u[i] = s[i]
                             \/ i - Len(s) \in DOMAIN t /\ u[i] = t[i - Len(s)]
      /\ \A i \in DOMAIN s : i \in DOMAIN u /\ u[i] = s[i]
      /\ \A i \in DOMAIN t : Len(s) + i \in DOMAIN u /\ u[Len(s) + i] = t[i]
  BY <1>1, ConcatFacts
<1>4. /\ DOMAIN s = 1..Len(s) /\ DOMAIN t = 1..Len(t) /\ Len(s) \in Nat /\ Len(t) \in Nat
      /\ DOMAIN u = 1..Len(u) /\ Len(u) \in Nat
  BY <1>1, <1>3, LenProperties
<1> HIDE DEF u
<1>5. ASSUME NEW d, NEW i \in DOMAIN s, CopyBefore(s, i, d) PROVE CopyBefore(u, i, d)
  <2>1. PICK k \in 1..(i - 1) : s[k].k = "copy" /\ s[k].h = "cpuset" /\ s[k].d = d  BY <1>5 DEF CopyBefore
  <2>2. k \in DOMAIN s  BY <1>4, <2>1
  <2> QED  BY <1>3, <2>1, <2>2 DEF CopyBefore
<1>6. ASSUME NEW d, NEW i \in DOMAIN u, i - Len(s) \in DOMAIN t, CopyBefore(t, i - Len(s), d) PROVE CopyBefore(u, i, d)
  <2>1. PICK k \in 1..(i - Len(s) - 1) : t[k].k = "copy" /\ t[k].h = "cpuset" /\ t[k].d = d  BY <1>6 DEF CopyBefore
  <2>2. k \in DOMAIN t /\ Len(s) + k \in 1..(i - 1)  BY <1>4, <1>6, <2>1
  <2>3. u[Len(s) + k] = t[k]  BY <1>3, <2>2
  <2> QED  BY <2>1, <2>2, <2>3 DEF CopyBefore
<1>7. Ready(c, u, cpus)
  <2> SUFFICES ASSUME NEW i \in DOMAIN u, u[i].h = "cpuset"
               PROVE  /\ u[i].k = "join" => Own(c) \in cpus \/ CopyBefore(u, i, Own(c))
                      /\ u[i].k = "copy" => Front(u[i].d) \in cpus \/ CopyBefore(u, i, Front(u[i].d))
    BY DEF Ready
  <2>1. CASE i \in DOMAIN s /\ u[i] = s[i]
    <3>1. /\ s[i].k = "join" => Own(c) \in cpus \/ CopyBefore(s, i, Own(c))
          /\ s[i].k = "copy" => Front(s[i].d) \in cpus \/ CopyBefore(s, i, Front(s[i].d))
      BY <2>1 DEF Fit, Ready
    <3> QED  BY <1>5, <2>1, <3>1
  <2>2. CASE i - Len(s) \in DOMAIN t /\ u[i] = t[i - Len(s)]
    <3> DEFINE j == i - Len(s)
    <3>1. /\ t[j].k = "join" => Own(c) \in cpus \/ CopyBefore(t, j, Own(c))
          /\ t[j].k = "copy" => Front(t[j].d) \in cpus \/ CopyBefore(t, j, Front(t[j].d))
      BY <2>2 DEF Fit, Ready
    <3> QED  BY <1>6, <2>2, <3>1
  <2> QED  BY <1>3, <2>1, <2>2
<1>8. \A i \in DOMAIN u : Shape(c, u[i]) /\ u[i].k \in ApplyKinds
  BY <1>3 DEF Fit
<1> QED  BY <1>2, <1>3, <1>7, <1>8 DEF Fit, u

LEMMA FitOne ==
    ASSUME NEW c \in Containers, NEW s \in StepSet, Shape(c, s), s.k \in ApplyKinds, s.k \notin {"copy"}, s.k = "join" => s.h # "cpuset"
    PROVE  Fit(c, <<s>>) /\ DOMAIN <<s>> = {1} /\ <<s>>[1] = s
<1>1. DOMAIN <<s>> = {1} /\ <<s>>[1] = s /\ <<s>> \in Seq(StepSet)  OBVIOUS
<1>2. Ordered(env.flavour, <<s>>)  BY <1>1 DEF Ordered
<1>3. Ready(c, <<s>>, cpus)  BY <1>1 DEF Ready
<1> QED  BY <1>1, <1>2, <1>3 DEF Fit

Joining(s, h) == \E i \in DOMAIN s : s[i].k \in {"join", "start"} /\ s[i].h = h

LEMMA JoiningConcat ==
    ASSUME NEW s \in Seq(StepSet), NEW t \in Seq(StepSet), NEW h, Joining(s, h) \/ Joining(t, h)
    PROVE  Joining(s \o t, h)
<1> DEFINE u == s \o t
<1>1. /\ \A i \in DOMAIN s : i \in DOMAIN u /\ u[i] = s[i]
      /\ \A i \in DOMAIN t : Len(s) + i \in DOMAIN u /\ u[Len(s) + i] = t[i]
  BY ConcatFacts
<1> HIDE DEF u
<1>2. CASE Joining(s, h)  BY <1>1, <1>2 DEF Joining, u
<1>3. CASE Joining(t, h)  BY <1>1, <1>3 DEF Joining, u
<1> QED  BY <1>2, <1>3

LEMMA ApplyFits ==
    ASSUME NEW c \in Containers, paths[c] = Handled, <<>> \in cpus
    PROVE  Fit(c, ApplySteps(c)) /\ \A h \in Handled : Joining(ApplySteps(c), h)
<1> DEFINE a == CreateCgroupPath(c)
<1>0. "unified" \in Hierarchies /\ "name=systemd" \in Hierarchies /\ {"join", "start", "chown"} \subseteq Kinds
      /\ Own(c) \in AllPlaces
  BY PlacesFacts DEF Hierarchies, Kinds, ApplyKinds
<1>1. ASSUME V2
      PROVE  /\ Fit(c, a) /\ a \in Seq(StepSet)
             /\ \A i \in DOMAIN a : a[i].h = "unified" /\ a[i].k \in {"controllers", "create", "type"}
  <2>1. env.flavour # "fs"  BY <1>1, HandledFacts
  <2>2. /\ a \in Seq(StepSet)
        /\ Ordered(env.flavour, a)
        /\ \A i \in DOMAIN a : /\ a[i].h = "unified" /\ a[i].k \in {"controllers", "create", "type"}
                               /\ a[i].k # "controllers" => a[i].d \in Places(c)
    BY <2>1, CreateBlock
  <2> HIDE DEF a
  <2>3. Ready(c, a, cpus)  BY <2>2 DEF Ready
  <2>4. \A i \in DOMAIN a : Shape(c, a[i]) /\ a[i].k \in ApplyKinds
    BY <1>1, <2>2, HandledFacts DEF Shape, ApplyKinds, DestroyKinds
  <2> QED  BY <2>2, <2>3, <2>4 DEF Fit
<1>2. CASE env.flavour = "fs2"
  <2> DEFINE j == Step("join", "unified", Own(c))
  <2>1. V2 /\ Handled = {"unified"}  BY <1>2, HandledFacts DEF V2
  <2>2. j \in StepSet /\ j.k = "join" /\ j.h = "unified" /\ j.d = Own(c)  BY <1>0, StepFacts
  <2> HIDE DEF a, j
  <2>3. Shape(c, j) /\ j.k \in ApplyKinds  BY <2>1, <2>2 DEF Shape, Places, DestroyKinds, ApplyKinds
  <2>4. Fit(c, <<j>>) /\ DOMAIN <<j>> = {1} /\ <<j>>[1] = j  BY <2>2, <2>3, FitOne
  <2>5. \A i \in DOMAIN a : \A k \in DOMAIN <<j>> : PairOK(env.flavour, a[i], <<j>>[k])
    BY <1>1, <1>2, <2>1, <2>2, <2>4 DEF PairOK
  <2>6. Fit(c, a \o <<j>>)  BY <1>1, <2>1, <2>4, <2>5, FitConcat
  <2>7. Joining(<<j>>, "unified")  BY <2>2, <2>4 DEF Joining
  <2>8. Joining(a \o <<j>>, "unified")  BY <1>1, <2>1, <2>4, <2>7, JoiningConcat DEF Fit
  <2>9. ApplySteps(c) = a \o <<j>>  BY <1>2 DEF ApplySteps, a, j
  <2> QED  BY <2>1, <2>6, <2>8, <2>9
<1>3. CASE env.flavour = "sd2"
  <2> DEFINE j == Step("start", "unified", Own(c))
             k == Step("chown", "unified", Own(c))
  <2>1. V2 /\ Systemd /\ Handled = {"unified"}  BY <1>3, HandledFacts DEF V2, Systemd
  <2>2. /\ j \in StepSet /\ j.k = "start" /\ j.h = "unified" /\ j.d = Own(c)
        /\ k \in StepSet /\ k.k = "chown" /\ k.h = "unified" /\ k.d = Own(c)
    BY <1>0, StepFacts
  <2> HIDE DEF a, j, k
  <2>3. Shape(c, j) /\ j.k \in ApplyKinds /\ Shape(c, k) /\ k.k \in ApplyKinds
    BY <2>1, <2>2 DEF Shape, Places, DestroyKinds, ApplyKinds
  <2>4. /\ Fit(c, <<j>>) /\ DOMAIN <<j>> = {1} /\ <<j>>[1] = j
        /\ Fit(c, <<k>>) /\ DOMAIN <<k>> = {1} /\ <<k>>[1] = k
    BY <2>2, <2>3, FitOne
  <2>5. Fit(c, <<j>> \o a)
    <3>1. \A i \in DOMAIN <<j>> : \A l \in DOMAIN a : PairOK(env.flavour, <<j>>[i], a[l])
      BY <1>1, <1>3, <2>1, <2>2, <2>4 DEF PairOK
    <3> QED  BY <1>1, <2>1, <2>4, <3>1, FitConcat
  <2>6. \A i \in DOMAIN (<<j>> \o a) : (<<j>> \o a)[i].k \in {"start", "controllers", "create", "type"}
    <3> DEFINE t == <<j>>
               u == t \o a
    <3>1. t \in Seq(StepSet) /\ a \in Seq(StepSet)  BY <1>1, <2>1, <2>4 DEF Fit
    <3>2. \A i \in DOMAIN t : t[i] = j  BY <2>4
    <3> HIDE DEF t
    <3>3. \A i \in DOMAIN u : (i \in DOMAIN t /\ u[i] = t[i]) \/ (i - Len(t) \in DOMAIN a /\ u[i] = a[i - Len(t)])
      BY <3>1, ConcatFacts
    <3> HIDE DEF u
    <3> QED  BY <1>1, <2>1, <2>2, <3>2, <3>3 DEF u, t
  <2>7. Fit(c, (<<j>> \o a) \o <<k>>)
    <3>1. \A i \in DOMAIN (<<j>> \o a) : \A l \in DOMAIN <<k>> : PairOK(env.flavour, (<<j>> \o a)[i], <<k>>[l])
      BY <1>3, <2>2, <2>4, <2>6 DEF PairOK
    <3> QED  BY <2>4, <2>5, <3>1, FitConcat
  <2>8. Joining((<<j>> \o a) \o <<k>>, "unified")
    <3>1. Joining(<<j>>, "unified")  BY <2>2, <2>4 DEF Joining
    <3>2. Joining(<<j>> \o a, "unified")  BY <1>1, <2>1, <2>4, <3>1, JoiningConcat DEF Fit
    <3> QED  BY <2>4, <2>5, <3>2, JoiningConcat DEF Fit
  <2>9. ApplySteps(c) = (<<j>> \o a) \o <<k>>  BY <1>3 DEF ApplySteps, a, j, k
  <2> QED  BY <2>1, <2>7, <2>8, <2>9
<1>4. CASE ~V2
  <2> DEFINE app(h) == IF h \in paths[c] THEN ApplySubsystem(h, c) ELSE <<>>
             b == app("cpuset")
             m == app("memory")
             z == IF Systemd THEN <<Step("start", "name=systemd", Own(c))>> ELSE <<>>
  <2>1. ASSUME NEW g \in {"cpuset", "memory"}
        PROVE  /\ Fit(c, app(g))
               /\ \A i \in DOMAIN app(g) : app(g)[i].h = g /\ app(g)[i].k \in {"mkdir", "copy", "cpus", "join"}
               /\ g \in Handled => Joining(app(g), g)
    <3>1. CASE g \in paths[c]
      <4> DEFINE s == ApplySubsystem(g, c)
      <4>1. /\ s \in Seq(StepSet)
            /\ Ordered(env.flavour, s)
            /\ Ready(c, s, cpus)
            /\ \A i \in DOMAIN s : /\ s[i].h = g /\ s[i].k \in {"mkdir", "copy", "cpus", "join"}
                                   /\ s[i].d \in Places(c)
                                   /\ s[i].k \in {"cpus", "join"} => s[i].d = Own(c)
            /\ \E i \in DOMAIN s : s[i].k = "join"
        BY SubsystemBlock
      <4>2. app(g) = s  BY <3>1
      <4> HIDE DEF s, app
      <4>3. \A i \in DOMAIN s : Shape(c, s[i]) /\ s[i].k \in ApplyKinds
        BY <1>4, <3>1, <4>1 DEF Shape, ApplyKinds, DestroyKinds
      <4>4. Fit(c, s)  BY <4>1, <4>3 DEF Fit
      <4>5. Joining(s, g)  BY <4>1 DEF Joining
      <4> QED  BY <4>1, <4>2, <4>4, <4>5
    <3>2. CASE g \notin paths[c]
      <4>1. app(g) = <<>> /\ DOMAIN <<>> = {}  BY <3>2
      <4> HIDE DEF app
      <4> QED  BY <3>2, <4>1, FitEmpty
    <3> QED  BY <3>1, <3>2
  <2>2. /\ Fit(c, z)
        /\ \A i \in DOMAIN z : z[i].k = "start" /\ z[i].h = "name=systemd" /\ env.flavour # "fs"
        /\ "name=systemd" \in Handled => Joining(z, "name=systemd")
    <3>1. CASE Systemd
      <4> DEFINE j == Step("start", "name=systemd", Own(c))
      <4>1. env.flavour = "sd1" /\ env.flavour # "fs"  BY <1>4, <3>1 DEF V2, Systemd
      <4>2. "name=systemd" \in Handled
        <5>1. subsystems = <<"cpuset", "memory", "name=systemd">>  BY <1>4, <4>1 DEF subsystems
        <5> QED  BY <5>1 DEF Handled, Range
      <4>3. j \in StepSet /\ j.k = "start" /\ j.h = "name=systemd" /\ j.d = Own(c)  BY <1>0, StepFacts
      <4>4. z = <<j>>  BY <3>1
      <4> HIDE DEF j, z
      <4>5. Shape(c, j) /\ j.k \in ApplyKinds  BY <3>1, <4>2, <4>3 DEF Shape, Places, DestroyKinds, ApplyKinds
      <4>6. Fit(c, <<j>>) /\ DOMAIN <<j>> = {1} /\ <<j>>[1] = j  BY <4>3, <4>5, FitOne
      <4>7. Joining(<<j>>, "name=systemd")  BY <4>3, <4>6 DEF Joining
      <4> QED  BY <4>1, <4>3, <4>4, <4>6, <4>7
    <3>2. CASE ~Systemd
      <4>1. z = <<>> /\ DOMAIN <<>> = {}  BY <3>2
      <4>2. "name=systemd" \notin Handled
        <5>1. subsystems = <<"cpuset", "memory">>  BY <1>4, <3>2 DEF subsystems, Systemd
        <5> QED  BY <5>1 DEF Handled, Range
      <4> HIDE DEF z
      <4> QED  BY <4>1, <4>2, FitEmpty
    <3> QED  BY <3>1, <3>2
  <2>3. ApplySteps(c) = (z \o b) \o m  BY <1>4 DEF ApplySteps, V2
  <2> HIDE DEF app, z
  <2>4. Fit(c, b) /\ Fit(c, m) /\ Fit(c, z) /\ b \in Seq(StepSet) /\ m \in Seq(StepSet) /\ z \in Seq(StepSet)
    BY <2>1, <2>2 DEF Fit
  <2>5. /\ \A i \in DOMAIN b : b[i].h = "cpuset" /\ b[i].k \in {"mkdir", "copy", "cpus", "join"}
        /\ \A i \in DOMAIN m : m[i].h = "memory" /\ m[i].k \in {"mkdir", "copy", "cpus", "join"}
        /\ "cpuset" \in Handled => Joining(b, "cpuset")
        /\ "memory" \in Handled => Joining(m, "memory")
    BY <2>1
  <2> HIDE DEF b, m
  <2>6. Fit(c, z \o b)
    <3>1. \A i \in DOMAIN z : \A l \in DOMAIN b : PairOK(env.flavour, z[i], b[l])  BY <2>2, <2>5 DEF PairOK
    <3> QED  BY <2>4, <3>1, FitConcat
  <2>7. \A i \in DOMAIN (z \o b) : (z \o b)[i].h \in {"cpuset", "name=systemd"} /\ (z \o b)[i].k \in {"start", "mkdir", "copy", "cpus", "join"}
    BY <2>2, <2>4, <2>5, ConcatFacts
  <2>8. Fit(c, (z \o b) \o m)
    <3>1. \A i \in DOMAIN (z \o b) : \A l \in DOMAIN m : PairOK(env.flavour, (z \o b)[i], m[l])  BY <2>5, <2>7 DEF PairOK
    <3> QED  BY <2>4, <2>6, <3>1, FitConcat
  <2>9. z \o b \in Seq(StepSet)  BY <2>6 DEF Fit
  <2>10. ASSUME NEW h \in Handled PROVE Joining((z \o b) \o m, h)
    <3>1. h \in {"cpuset", "memory", "name=systemd"}  BY <1>4, HandledFacts DEF Hierarchies
    <3>2. CASE h = "memory"  BY <2>4, <2>5, <2>9, <3>2, JoiningConcat
    <3>3. CASE h = "cpuset"  BY <2>4, <2>5, <2>9, <3>3, JoiningConcat
    <3>4. CASE h = "name=systemd"  BY <2>2, <2>4, <2>9, <3>4, JoiningConcat
    <3> QED  BY <3>1, <3>2, <3>3, <3>4
  <2> QED  BY <2>3, <2>8, <2>10
<1> QED  BY <1>2, <1>3, <1>4 DEF V2

(* Apply begins.                                                           *)
LEMMA LocalApply ==
    ASSUME TypeOK, <<>> \in cpus, NEW c \in Containers, Local(c), pc[c] = "new", env' = env, cpus' = cpus,
           todo'[c] = ApplySteps(c), pc'[c] = "apply", destroys'[c] = destroys[c], made'[c] = made[c],
           paths'[c] = paths[c], joined'[c] = joined[c]
    PROVE  Local(c)' /\ todo'[c] \in Seq(StepSet)
<1> DEFINE s == ApplySteps(c)
<1>1. joined[c] = {} /\ made[c] = <<>> /\ paths[c] = Handled /\ destroys[c] = 0  BY DEF Local
<1>2. Fit(c, s) /\ \A h \in Handled : Joining(s, h)  BY <1>1, ApplyFits
<1>3. todo'[c] = s  OBVIOUS
<1> HIDE DEF s
<1>4. \A i \in DOMAIN s : Phase("apply", paths[c], joined[c], s[i])
  BY <1>1, <1>2 DEF Fit, Phase, Shape
<1>5. (\A i \in DOMAIN todo[c] : Shape(c, todo[c][i]) /\ Phase(pc[c], paths[c], joined[c], todo[c][i]))'
  BY <1>2, <1>3, <1>4, EnvFacts DEF Fit
<1>6. DOMAIN made'[c] = {}  BY <1>1
<1>7. (/\ \A i \in DOMAIN made[c] : made[c][i] \in Places(c)
       /\ Growing(made[c], todo[c]))'
  BY <1>6 DEF Growing
<1>8. (Ordered(env.flavour, todo[c]) /\ Ready(c, todo[c], cpus))'
  BY <1>2, <1>3 DEF Fit
<1>9. \A h \in paths'[c] \ joined'[c] : Pending(c, h)'
  BY <1>1, <1>2, <1>3 DEF Pending, Joining
<1>10. (/\ joined[c] \subseteq Handled
        /\ paths[c] \subseteq Handled
        /\ V2 \/ (~GivesUp /\ destroys[c] = 0) => paths[c] = Handled)'
  BY <1>1, EnvFacts DEF Local
<1> QED  BY <1>1, <1>2, <1>3, <1>5, <1>7, <1>8, <1>9, <1>10 DEF Local, Fit

(* Destroy has something to do: at its start, in a new round, or when one  *)
(* step of RemovePath turns into others.                                   *)
Removal(c, s) ==
    /\ s \in Seq(StepSet)
    /\ \A i \in DOMAIN s : s[i].k \in DestroyKinds /\ s[i].h \in Handled /\ s[i].d = Own(c)
    /\ \A i, j \in DOMAIN s : i < j /\ env.flavour = "fs" /\ s[i].h = "memory" => s[j].h = "memory"

LEMMA LocalDestroy ==
    ASSUME TypeOK, NEW c \in Containers, Local(c), env' = env, pc[c] \in {"idle", "destroy"}, pc'[c] = "destroy",
           Removal(c, todo'[c]), destroys'[c] > 0, destroys'[c] \in Nat, paths'[c] = paths[c], joined'[c] = joined[c],
           destroys'[c] = destroys[c] \/ destroys'[c] = destroys[c] + 1, made'[c] = made[c]
    PROVE  Local(c)'
<1> DEFINE s == todo'[c]
<1>1. \A i \in DOMAIN s : Shape(c, s[i]) /\ Phase("destroy", paths[c], joined[c], s[i])
  BY DEF Removal, Shape, Phase, Places, DestroyKinds
<1>2. (\A i \in DOMAIN todo[c] : Shape(c, todo[c][i]) /\ Phase(pc[c], paths[c], joined[c], todo[c][i]))'
  BY <1>1, EnvFacts
<1>3. Ready(c, s, cpus')  BY DEF Removal, Ready, DestroyKinds
<1>4. Ordered(env.flavour, s)
  <2> SUFFICES ASSUME NEW i \in DOMAIN s, NEW j \in DOMAIN s, i < j PROVE PairOK(env.flavour, s[i], s[j])
    BY DEF Ordered
  <2> QED  BY DEF Removal, PairOK, DestroyKinds
<1>5. (Ordered(env.flavour, todo[c]) /\ Ready(c, todo[c], cpus))'
  BY <1>3, <1>4
<1>6. (/\ joined[c] \subseteq Handled
       /\ paths[c] \subseteq Handled
       /\ V2 \/ (~GivesUp /\ destroys[c] = 0) => paths[c] = Handled)'
  BY EnvFacts DEF Local
<1> QED  BY <1>2, <1>5, <1>6 DEF Local

LEMMA RemovalConcat ==
    ASSUME NEW c, NEW s, NEW t, Removal(c, s), Removal(c, t),
           env.flavour = "fs" => (\A i \in DOMAIN s : s[i].h # "memory") \/ (\A i \in DOMAIN t : t[i].h = "memory")
    PROVE  Removal(c, s \o t)
<1> DEFINE u == s \o t
<1>1. s \in Seq(StepSet) /\ t \in Seq(StepSet)  BY DEF Removal
<1>2. DOMAIN s = 1..Len(s) /\ DOMAIN t = 1..Len(t) /\ Len(s) \in Nat /\ Len(t) \in Nat
  BY <1>1, LenProperties
<1>3. /\ u \in Seq(StepSet) /\ Len(u) = Len(s) + Len(t)
      /\ \A i \in 1..Len(s) + Len(t) : u[i] = IF i <= Len(s) THEN s[i] ELSE t[i - Len(s)]
  BY <1>1, ConcatProperties
<1>4. DOMAIN u = 1..Len(s) + Len(t)  BY <1>3, LenProperties
<1> HIDE DEF u
<1>5. \A i \in DOMAIN u : (i \in DOMAIN s /\ u[i] = s[i]) \/ (i > Len(s) /\ i - Len(s) \in DOMAIN t /\ u[i] = t[i - Len(s)])
  BY <1>2, <1>3, <1>4
<1>6. ASSUME NEW i \in DOMAIN u, NEW j \in DOMAIN u, i < j, env.flavour = "fs", u[i].h = "memory" PROVE u[j].h = "memory"
  <2>1. CASE i \in DOMAIN s /\ u[i] = s[i] /\ j \in DOMAIN s /\ u[j] = s[j]  BY <1>6, <2>1 DEF Removal
  <2>2. CASE i \in DOMAIN s /\ u[i] = s[i] /\ j - Len(s) \in DOMAIN t /\ u[j] = t[j - Len(s)]  BY <1>6, <2>2
  <2>3. CASE i > Len(s) /\ i - Len(s) \in DOMAIN t /\ u[i] = t[i - Len(s)]
    <3>1. j - Len(s) \in DOMAIN t /\ u[j] = t[j - Len(s)] /\ i - Len(s) < j - Len(s)  BY <1>2, <1>4, <1>5, <1>6, <2>3
    <3> QED  BY <1>6, <2>3, <3>1 DEF Removal
  <2> QED  BY <1>5, <2>1, <2>2, <2>3
<1>7. \A i \in DOMAIN u : u[i].k \in DestroyKinds /\ u[i].h \in Handled /\ u[i].d = Own(c)
  BY <1>5 DEF Removal
<1> QED  BY <1>3, <1>6, <1>7 DEF Removal, u

LEMMA RemovalOne ==
    ASSUME NEW c \in Containers, NEW k \in DestroyKinds, NEW h \in Handled
    PROVE  LET s == <<Step(k, h, Own(c))>> IN Removal(c, s) /\ DOMAIN s = {1} /\ s[1].h = h /\ s[1].k = k
<1> DEFINE e == Step(k, h, Own(c))
<1>1. k \in Kinds /\ h \in Hierarchies /\ Own(c) \in AllPlaces  BY HandledFacts, PlacesFacts DEF Kinds
<1>2. e \in StepSet /\ e.k = k /\ e.h = h /\ e.d = Own(c)  BY <1>1, StepFacts
<1> HIDE DEF e
<1>3. DOMAIN <<e>> = {1} /\ <<e>>[1] = e /\ <<e>> \in Seq(StepSet)  BY <1>2
<1> QED  BY <1>2, <1>3 DEF Removal, e

LEMMA RemovalEmpty ==
    ASSUME NEW c PROVE Removal(c, <<>>) /\ DOMAIN <<>> = {}
BY EmptySeq DEF Removal

LEMMA RemoveFits ==
    ASSUME NEW c \in Containers, paths[c] \subseteq Handled
    PROVE  /\ Removal(c, RemoveSteps(c))
           /\ V2 /\ paths[c] = Handled => \E i \in DOMAIN RemoveSteps(c) : RemoveSteps(c)[i].k = "rm"
<1> DEFINE rm(h) == IF h \in paths[c] THEN <<Step("rm", h, Own(c))>> ELSE <<>>
<1>1. ASSUME NEW h \in Hierarchies
      PROVE  /\ Removal(c, rm(h)) /\ \A i \in DOMAIN rm(h) : rm(h)[i].h = h /\ h \in paths[c] /\ rm(h)[i].k = "rm"
             /\ h \in paths[c] => DOMAIN rm(h) = {1}
  <2>0. "rm" \in DestroyKinds  BY DEF DestroyKinds
  <2>1. CASE h \in paths[c]
    <3>1. rm(h) = <<Step("rm", h, Own(c))>> /\ h \in Handled  BY <2>1
    <3> HIDE DEF rm
    <3>2. Removal(c, rm(h)) /\ DOMAIN rm(h) = {1} /\ rm(h)[1].h = h /\ rm(h)[1].k = "rm"  BY <2>0, <3>1, RemovalOne
    <3> QED  BY <2>1, <3>2
  <2>2. CASE h \notin paths[c]
    <3>1. rm(h) = <<>>  BY <2>2
    <3> HIDE DEF rm
    <3> QED  BY <2>2, <3>1, RemovalEmpty
  <2> QED  BY <2>1, <2>2
<1> DEFINE a == rm("cpuset")
           b == rm("memory")
           d == rm("name=systemd")
           e == rm("unified")
<1>2. RemoveSteps(c) = ((a \o b) \o d) \o e  BY DEF RemoveSteps
<1>3. /\ Removal(c, a) /\ Removal(c, b) /\ Removal(c, d) /\ Removal(c, e)
      /\ \A i \in DOMAIN a : a[i].h = "cpuset"
      /\ env.flavour = "fs" => DOMAIN d = {} /\ DOMAIN e = {}
      /\ "unified" \in paths[c] => 1 \in DOMAIN e /\ e[1].k = "rm"
  <2>1. {"cpuset", "memory", "name=systemd", "unified"} = Hierarchies  BY DEF Hierarchies
  <2>2. env.flavour = "fs" => "name=systemd" \notin paths[c] /\ "unified" \notin paths[c]  BY HandledFacts
  <2> HIDE DEF rm
  <2> QED  BY <1>1, <2>1, <2>2
<1> HIDE DEF a, b, d, e
<1>4. Removal(c, a \o b)  BY <1>3, RemovalConcat
<1>5. Removal(c, (a \o b) \o d)
  <2>1. env.flavour = "fs" => \A i \in DOMAIN d : d[i].h = "memory"  BY <1>3
  <2> HIDE DEF Removal
  <2> QED  BY <1>3, <1>4, <2>1, RemovalConcat
<1>6. Removal(c, ((a \o b) \o d) \o e)
  <2>1. env.flavour = "fs" => \A i \in DOMAIN e : e[i].h = "memory"  BY <1>3
  <2> HIDE DEF Removal
  <2> QED  BY <1>3, <1>5, <2>1, RemovalConcat
<1>7. ASSUME V2, paths[c] = Handled PROVE \E i \in DOMAIN RemoveSteps(c) : RemoveSteps(c)[i].k = "rm"
  <2> DEFINE s == (a \o b) \o d
             u == s \o e
  <2>1. 1 \in DOMAIN e /\ e[1].k = "rm"  BY <1>3, <1>7, HandledFacts
  <2>2. s \in Seq(StepSet) /\ e \in Seq(StepSet)  BY <1>3, <1>5 DEF Removal
  <2> HIDE DEF s
  <2>3. Len(s) + 1 \in DOMAIN u /\ u[Len(s) + 1] = e[1]  BY <2>1, <2>2, ConcatFacts
  <2> QED  BY <1>2, <2>1, <2>3 DEF s
<1> QED  BY <1>2, <1>6, <1>7

-----------------------------------------------------------------------------
(* A step inside a call of c's manager, and what is left to show of it.    *)

LEMMA Update ==
    ASSUME NEW S, NEW f \in [Containers -> S], NEW c \in Containers
    PROVE  /\ f = [f EXCEPT ![c] = f[c]]
           /\ \A v : [f EXCEPT ![c] = v][c] = v
           /\ \A v \in S : [f EXCEPT ![c] = v] \in [Containers -> S]
           /\ \A v : \A x \in Containers \ {c} : [f EXCEPT ![c] = v][x] = f[x]
OBVIOUS

Touch(c) ==
    /\ pc' = [pc EXCEPT ![c] = pc'[c]] /\ todo' = [todo EXCEPT ![c] = todo'[c]]
    /\ made' = [made EXCEPT ![c] = made'[c]] /\ result' = [result EXCEPT ![c] = result'[c]]
    /\ joined' = [joined EXCEPT ![c] = joined'[c]] /\ paths' = [paths EXCEPT ![c] = paths'[c]]
    /\ destroys' = [destroys EXCEPT ![c] = destroys'[c]] /\ proc' = [proc EXCEPT ![c] = proc'[c]]
    /\ alive' = [alive EXCEPT ![c] = alive'[c]]
Typed(c) ==
    /\ pc'[c] \in PCs /\ todo'[c] \in Seq(StepSet) /\ made'[c] \in Seq(AllPlaces) /\ result'[c] \in Results
    /\ joined'[c] \in SUBSET Hierarchies /\ paths'[c] \in SUBSET Hierarchies /\ destroys'[c] \in Nat
    /\ proc'[c] \in [Hierarchies -> AllPlaces] /\ alive'[c] \in BOOLEAN

Change(c) ==
    \/ dirs' = dirs
    \/ \E h \in Hierarchies, d \in Places(c) : (Front(d) = <<>> \/ Dir(h, Front(d)) \in dirs) /\ dirs' = dirs \cup {Dir(h, d)}
    \/ \E h \in Hierarchies : dirs' = dirs \cup {Dir(h, d) : d \in Places(c)}
    \/ AddsSub(c) \/ Drops \/ Stops(c)

LEMMA TouchFacts ==
    ASSUME TypeOK, NEW c \in Containers, Touch(c)
    PROVE  \A x \in Containers \ {c} : Same(x)
<1> TAKE x \in Containers \ {c}
<1>1. /\ [pc EXCEPT ![c] = pc'[c]][x] = pc[x] /\ [todo EXCEPT ![c] = todo'[c]][x] = todo[x]
      /\ [made EXCEPT ![c] = made'[c]][x] = made[x] /\ [result EXCEPT ![c] = result'[c]][x] = result[x]
      /\ [joined EXCEPT ![c] = joined'[c]][x] = joined[x] /\ [paths EXCEPT ![c] = paths'[c]][x] = paths[x]
      /\ [destroys EXCEPT ![c] = destroys'[c]][x] = destroys[x] /\ [proc EXCEPT ![c] = proc'[c]][x] = proc[x]
      /\ [alive EXCEPT ![c] = alive'[c]][x] = alive[x]
  BY Update DEF TypeOK
<1> QED  BY <1>1 DEF Same, Touch

LEMMA ChangeFacts ==
    ASSUME TypeOK, NEW c \in Containers, Change(c)
    PROVE  /\ dirs' = dirs \/ Adds(c) \/ AddsSub(c) \/ Drops \/ Stops(c)
           /\ dirs' \subseteq (Hierarchies \X AllPlaces)
<1>1. dirs' = dirs \/ Adds(c) \/ AddsSub(c) \/ Drops \/ Stops(c)
  BY DEF Change, Adds
<1>2. Places(c) \subseteq AllPlaces /\ Sub(c) \in AllPlaces
  BY DEF Places, AllPlaces
<1>3. \A h \in Hierarchies, d \in AllPlaces : Dir(h, d) \in Hierarchies \X AllPlaces
  BY DEF Dir
<1>4. dirs \subseteq (Hierarchies \X AllPlaces)
  BY DEF TypeOK
<1>5. CASE dirs' = dirs \/ Drops \/ Stops(c)  BY <1>4, <1>5 DEF Drops, Stops
<1>6. CASE Adds(c) \/ AddsSub(c)  BY <1>2, <1>3, <1>4, <1>6 DEF Adds, AddsSub
<1> QED  BY <1>1, <1>5, <1>6

LEMMA TypeKept ==
    ASSUME TypeOK, NEW c \in Containers, Touch(c), Typed(c), Change(c), alone' \in [Containers -> BOOLEAN]
    PROVE  TypeOK'
<1>1. dirs' \subseteq (Hierarchies \X AllPlaces)  BY ChangeFacts
<1>2. /\ [pc EXCEPT ![c] = pc'[c]] \in [Containers -> PCs]
      /\ [todo EXCEPT ![c] = todo'[c]] \in [Containers -> Seq(StepSet)]
      /\ [made EXCEPT ![c] = made'[c]] \in [Containers -> Seq(AllPlaces)]
      /\ [result EXCEPT ![c] = result'[c]] \in [Containers -> Results]
  BY Update DEF TypeOK, Typed
<1>3. /\ [joined EXCEPT ![c] = joined'[c]] \in [Containers -> SUBSET Hierarchies]
      /\ [paths EXCEPT ![c] = paths'[c]] \in [Containers -> SUBSET Hierarchies]
      /\ [destroys EXCEPT ![c] = destroys'[c]] \in [Containers -> Nat]
      /\ [proc EXCEPT ![c] = proc'[c]] \in [Containers -> [Hierarchies -> AllPlaces]]
      /\ [alive EXCEPT ![c] = alive'[c]] \in [Containers -> BOOLEAN]
  BY Update DEF TypeOK, Typed
<1>4. (AllPlaces = AllPlaces') /\ (StepSet = StepSet')
  BY DEF AllPlaces, StepSet, Own, Sub, Top, Mid
<1> HIDE DEF StepSet, AllPlaces
<1> QED  BY <1>1, <1>2, <1>3, <1>4 DEF TypeOK, Touch

LEMMA OthersKept ==
    ASSUME IInv, NEW c \in Containers, Touch(c), Change(c), env' = env, cpus \ {Own(c)} \subseteq cpus'
    PROVE  \A x \in Containers \ {c} : InPlace(x)' /\ Local(x)' /\ Known(x)'
<1> TAKE x \in Containers \ {c}
<1>1. TypeOK /\ Same(x) /\ Local(x) /\ InPlace(x) /\ Known(x) /\ x # c
  BY TouchFacts DEF IInv
<1>2. dirs' = dirs \/ Adds(c) \/ AddsSub(c) \/ Drops \/ Stops(c)
  BY <1>1, ChangeFacts
<1> QED  BY <1>1, <1>2, LocalOther, InPlaceOther, KnownOther

LEMMA CallStep ==
    ASSUME IInv, NEW c \in Containers, InCall(c), Touch(c), Typed(c), Change(c), env' = env, alone' = alone,
           cpus \ {Own(c)} \subseteq cpus', Local(c)', InPlace(c)', Known(c)', Clean(c)'
    PROVE  IInv'
<1>1. TypeOK'  BY TypeKept DEF IInv, TypeOK
<1>2. Tree'  BY TreeKept DEF IInv, Change
<1>3. <<>> \in cpus'  BY Distinct DEF IInv
<1>4. \A x \in Containers \ {c} : InPlace(x)' /\ Local(x)' /\ Known(x)'  BY OthersKept
<1>5. \A x \in Containers \ {c} : Same(x)  BY TouchFacts DEF IInv
<1>6. \A x \in Containers : Alone(x)  BY DEF IInv
<1>7. ASSUME NEW x \in Containers PROVE Alone(x)'
  <2>1. pc[c] # "new"  BY DEF InCall
  <2>2. \A y \in Containers \ {c} : InCall(y)' <=> InCall(y)  BY <1>5 DEF Same, InCall
  <2>3. CASE x = c  BY <1>6, <2>1, <2>2, <2>3 DEF Alone
  <2>4. CASE x # c  BY <1>5, <1>6, <2>4 DEF Alone, Same
  <2> QED  BY <2>3, <2>4
<1>8. ASSUME NEW x \in Containers \ {c} PROVE Clean(x)'
  <2>1. alone[x] => pc[x] = "new"  BY <1>6 DEF Alone
  <2>2. alone'[x] => pc'[x] = "new"  BY <1>5, <2>1 DEF Same
  <2> QED  BY <2>2 DEF Clean
<1> QED  BY <1>1, <1>2, <1>3, <1>4, <1>7, <1>8 DEF IInv

(* The step that is next.                                                  *)
LEMMA HeadFacts ==
    ASSUME IInv, NEW c \in Containers, InCall(c), todo[c] # <<>>
    PROVE  /\ TypeOK /\ Tree /\ Local(c) /\ InPlace(c) /\ Known(c) /\ Clean(c)
           /\ todo[c] \in Seq(StepSet) /\ Tail(todo[c]) \in Seq(StepSet)
           /\ Head(todo[c]) = todo[c][1] /\ 1 \in DOMAIN todo[c]
           /\ Shape(c, Head(todo[c])) /\ Phase(pc[c], paths[c], joined[c], Head(todo[c]))
           /\ H(c) \in Handled /\ H(c) \in Hierarchies /\ D(c) \in AllPlaces
           /\ Head(todo[c]).k # "controllers" => D(c) \in Places(c)
           /\ pc[c] = "apply" => H(c) \in paths[c]
           /\ Head(todo[c]).k \in ApplyKinds => pc[c] = "apply"
           /\ Head(todo[c]).k \in DestroyKinds => pc[c] = "destroy" /\ D(c) = Own(c)
           /\ Head(todo[c]).k = "undo" => pc[c] = "undo"
<1>1. TypeOK /\ Tree /\ Local(c) /\ InPlace(c) /\ Known(c) /\ Clean(c)  BY DEF IInv
<1>2. todo[c] \in Seq(StepSet)  BY <1>1 DEF TypeOK
<1>3. Head(todo[c]) = todo[c][1] /\ 1 \in DOMAIN todo[c] /\ Tail(todo[c]) \in Seq(StepSet)
  BY <1>2, TailFacts
<1>4. todo[c][1] \in StepSet  BY <1>2, <1>3, ElementOfSeq, LenProperties
<1>5. Shape(c, Head(todo[c])) /\ Phase(pc[c], paths[c], joined[c], Head(todo[c]))
  BY <1>1, <1>3 DEF Local
<1>6. H(c) \in Handled /\ H(c) \in Hierarchies /\ D(c) \in AllPlaces
  BY <1>3, <1>4, <1>5, HandledFacts DEF Shape, H, D, StepSet
<1>7. Head(todo[c]).k # "controllers" => D(c) \in Places(c)
  BY <1>5 DEF Shape, D
<1>8. pc[c] = "apply" => H(c) \in paths[c]
  BY <1>5 DEF Phase, H
<1>9. /\ Head(todo[c]).k \in ApplyKinds => pc[c] = "apply"
      /\ Head(todo[c]).k \in DestroyKinds => pc[c] = "destroy"
      /\ Head(todo[c]).k = "undo" => pc[c] = "undo"
  BY <1>5 DEF Phase, InCall, ApplyKinds, DestroyKinds
<1>10. Head(todo[c]).k \in DestroyKinds => D(c) = Own(c)
  BY <1>5 DEF Shape, D
<1> QED  BY <1>1, <1>2, <1>3, <1>5, <1>6, <1>7, <1>8, <1>9, <1>10

LEMMA ContinueStep ==
    ASSUME IInv, NEW c \in Containers, InCall(c), todo[c] # <<>>, Continue(c), env' = env, alone' = alone,
           destroys' = destroys, made' = [made EXCEPT ![c] = made'[c]], joined' = [joined EXCEPT ![c] = joined'[c]],
           paths' = [paths EXCEPT ![c] = paths'[c]], proc' = [proc EXCEPT ![c] = proc'[c]],
           alive' = [alive EXCEPT ![c] = alive'[c]], proc'[c] \in [Hierarchies -> AllPlaces], alive'[c] \in BOOLEAN,
           Change(c), cpus \ {Own(c)} \subseteq cpus',
           \/ made'[c] = made[c] \/ made'[c] = <<>>
           \/ made'[c] = Append(made[c], D(c)) /\ Head(todo[c]).k = "create",
           \/ paths'[c] = paths[c]
           \/ pc[c] = "destroy" /\ ~V2 /\ paths'[c] \subseteq paths[c],
           \/ joined'[c] = joined[c] /\ Head(todo[c]).k \notin {"join", "start"}
           \/ joined'[c] = joined[c] \cup {H(c)} /\ Head(todo[c]).k \in {"join", "start"},
           cpus \cap ({<<>>} \cup Places(c)) \subseteq cpus' \/ pc[c] = "destroy",
           Head(todo[c]).k = "copy" /\ H(c) = "cpuset" => D(c) \in cpus',
           InPlace(c)', Known(c)', Clean(c)'
    PROVE  IInv'
<1>1. /\ TypeOK /\ Local(c) /\ Tail(todo[c]) \in Seq(StepSet) /\ H(c) \in Hierarchies /\ D(c) \in AllPlaces
  BY HeadFacts
<1>2. pc' = pc /\ result' = result /\ todo' = [todo EXCEPT ![c] = Tail(todo[c])]
  BY DEF Continue
<1>3. todo'[c] = Tail(todo[c]) /\ todo' = [todo EXCEPT ![c] = todo'[c]]
  BY <1>1, <1>2, Update DEF TypeOK
<1>4. pc' = [pc EXCEPT ![c] = pc'[c]] /\ result' = [result EXCEPT ![c] = result'[c]] /\ destroys' = [destroys EXCEPT ![c] = destroys'[c]]
  BY <1>1, <1>2, Update DEF TypeOK
<1>5. Touch(c)  BY <1>3, <1>4 DEF Touch
<1>6. made'[c] \in Seq(AllPlaces)
  <2>1. made[c] \in Seq(AllPlaces)  BY <1>1 DEF TypeOK
  <2>2. Append(made[c], D(c)) \in Seq(AllPlaces)  BY <1>1, <2>1, AppendProperties
  <2>3. <<>> \in Seq(AllPlaces)  BY EmptySeq
  <2> QED  BY <2>1, <2>2, <2>3
<1>7. joined'[c] \in SUBSET Hierarchies /\ paths'[c] \in SUBSET Hierarchies
  BY <1>1 DEF TypeOK
<1>8. pc'[c] \in PCs /\ result'[c] \in Results /\ destroys'[c] \in Nat
  BY <1>1, <1>2 DEF TypeOK
<1>9. Typed(c)  BY <1>1, <1>3, <1>6, <1>7, <1>8 DEF Typed
<1>10. Local(c)'  BY <1>1, <1>2, <1>3, LocalContinue
<1> QED  BY <1>5, <1>9, <1>10, CallStep

(* The process stays where it is, and so does its directory.               *)
LEMMA InPlaceSelf ==
    ASSUME NEW c \in Containers, InPlace(c), env' = env, proc'[c] = proc[c], joined'[c] = joined[c],
           alive'[c] = alive[c] \/ ~alive'[c], ~alive'[c] \/ dirs \subseteq dirs' \/ Drops
    PROVE  InPlace(c)'
<1> SUFFICES ASSUME NEW h \in Hierarchies, alive'[c], h \in joined[c], Dir(h, proc[c][h]) \in dirs
             PROVE  Dir(h, proc[c][h]) \in dirs'
  BY DEF InPlace
<1>1. CASE Drops
  <2>1. PICK g \in Hierarchies, d \in AllPlaces : dirs' = dirs \ {Dir(g, d)} /\ ~Busy(g, d)  BY <1>1 DEF Drops
  <2>2. ~(g = h /\ d = proc[c][h])  BY <2>1, BusyFacts
  <2> QED  BY <2>1, <2>2, DirFacts
<1> QED  BY <1>1

(* Nothing is forgotten before Destroy.                                    *)
LEMMA KnownApply ==
    ASSUME IInv, NEW c \in Containers, pc[c] \in {"apply", "undo"}, todo[c] # <<>>, pc'[c] \in {"apply", "undo", "idle"},
           destroys'[c] = destroys[c], paths'[c] = paths[c],
           \/ joined'[c] = joined[c] /\ dirs' \subseteq dirs
           \/ pc[c] = "apply" /\ joined'[c] \subseteq joined[c] \cup {H(c)} /\ dirs' \subseteq dirs \cup {Dir(H(c), d) : d \in Places(c)}
    PROVE  Known(c)'
<1>0. InCall(c)  BY DEF InCall
<1>1. Local(c) /\ Known(c) /\ (pc[c] = "apply" => H(c) \in paths[c])  BY <1>0, HeadFacts
<1>2. destroys'[c] = 0  BY <1>1 DEF Local
<1>3. \A h \in joined'[c] : Dir(h, Own(c)) \in dirs' => h \in paths'[c]
  BY <1>1, DirFacts DEF Known
<1> QED  BY <1>2, <1>3 DEF Known

(* CreateCgroupPath's bookkeeping is not concerned by other hierarchies.   *)
LEMMA MakingKept ==
    ASSUME TypeOK, NEW c \in Containers, Making(c), todo[c] # <<>>, env' = env, made'[c] = made[c],
           "unified" \in joined'[c] => "unified" \in joined[c],
           \A j \in DOMAIN todo'[c] : \E i \in DOMAIN todo[c] : todo'[c][j] = todo[c][i],
           \A e \in dirs' : e[1] = "unified" => e \in dirs,
           \A d : Dir("unified", d) \in dirs => Dir("unified", d) \in dirs'
    PROVE  Making(c)'
<1>1. Covered(c)'
  BY DEF Making, Covered
<1>2. \A j \in DOMAIN todo'[c] : todo'[c][j].k = "start" => made'[c] = <<>>
  BY DEF Making
<1>3. ~env.noPid /\ "unified" \in joined'[c] => made'[c] = <<>> /\ \A d \in Places(c) : Dir("unified", d) \in dirs'
  BY DEF Making
<1>4. (\A d \in Places(c) : Dir("unified", d) \in dirs)' <=> \A d \in Places(c) : Dir("unified", d) \in dirs'
  BY DEF Places, Dir, Own, Top, Mid
<1> QED  BY <1>1, <1>2, <1>3, <1>4 DEF Making

LEMMA CleanApply ==
    ASSUME IInv, NEW c \in Containers, pc[c] = "apply", pc'[c] = "apply", env' = env, alone' = alone, todo[c] # <<>>, Continue(c),
           made'[c] = made[c], "unified" \in joined'[c] => "unified" \in joined[c],
           \A e \in dirs' : e[1] = "unified" => e \in dirs, dirs \subseteq dirs'
    PROVE  Clean(c)'
<1>1. InCall(c) /\ TypeOK /\ Clean(c) /\ todo[c] \in Seq(StepSet)  BY HeadFacts DEF InCall
<1>2. todo'[c] = Tail(todo[c])  BY <1>1 DEF Continue, TypeOK
<1>3. \A j \in DOMAIN todo'[c] : \E i \in DOMAIN todo[c] : todo'[c][j] = todo[c][i]
  BY <1>1, <1>2, TailFacts
<1>4. alone[c] => Making(c)  BY <1>1 DEF Clean
<1>5. alone[c] => Making(c)'  BY <1>1, <1>3, <1>4, MakingKept
<1> QED  BY <1>5 DEF Clean

-----------------------------------------------------------------------------
(* Apply, one step at a time.                                              *)

LEMMA MkdirStep ==
    ASSUME IInv, NEW c \in Containers, Mkdir(c)
    PROVE  IInv'
<1>1. /\ InCall(c) /\ todo[c] # <<>> /\ Head(todo[c]).k = "mkdir" /\ Exists(H(c), Front(D(c)))
      /\ dirs' = dirs \cup {Dir(H(c), D(c))} /\ Continue(c) /\ pc' = pc
      /\ cpus' = cpus /\ proc' = proc /\ alive' = alive /\ made' = made /\ joined' = joined
      /\ env' = env /\ paths' = paths /\ alone' = alone /\ destroys' = destroys
  BY DEF Mkdir, AtStep, call, OnlyKernel, Continue
<1>2. /\ TypeOK /\ InPlace(c) /\ pc[c] = "apply" /\ D(c) \in Places(c) /\ H(c) \in Hierarchies
      /\ H(c) \in Handled /\ Shape(c, Head(todo[c]))
  BY <1>1, HeadFacts DEF ApplyKinds
<1>3. H(c) # "unified"
  BY <1>1, <1>2, HandledFacts DEF Shape
<1>4. Change(c)
  BY <1>1, <1>2 DEF Change, Exists
<1>5. InPlace(c)'
  BY <1>1, <1>2, InPlaceSelf
<1>6. Known(c)'
  BY <1>1, <1>2, KnownApply
<1>7. Clean(c)'
  <2>1. Dir(H(c), D(c))[1] = H(c)  BY DEF Dir
  <2>2. \A e \in dirs' : e[1] = "unified" => e \in dirs  BY <1>1, <1>3, <2>1
  <2> QED  BY <1>1, <1>2, <2>2, CleanApply
<1>8. /\ made' = [made EXCEPT ![c] = made'[c]] /\ joined' = [joined EXCEPT ![c] = joined'[c]]
      /\ paths' = [paths EXCEPT ![c] = paths'[c]] /\ proc' = [proc EXCEPT ![c] = proc'[c]]
      /\ alive' = [alive EXCEPT ![c] = alive'[c]] /\ proc'[c] \in [Hierarchies -> AllPlaces] /\ alive'[c] \in BOOLEAN
  BY <1>1, <1>2, Update DEF TypeOK
<1> QED  BY <1>1, <1>4, <1>5, <1>6, <1>7, <1>8, ContinueStep

LEMMA Stutter ==
    ASSUME IInv, UNCHANGED <<env, dirs, cpus, proc, alive, paths, pc, todo, made, result, joined, alone, destroys>>
    PROVE  IInv'
<1>1. TypeOK'  BY DEF IInv, TypeOK, StepSet, AllPlaces, Own, Sub, Top, Mid
<1>2. Tree' /\ <<>> \in cpus'  BY DEF IInv, Tree
<1>3. ASSUME NEW c \in Containers PROVE (InPlace(c) /\ Local(c) /\ Known(c) /\ Alone(c) /\ Clean(c))'
  <2>1. InPlace(c) /\ Local(c) /\ Known(c) /\ Alone(c) /\ Clean(c)  BY DEF IInv
  <2>2. InPlace(c)'  BY <2>1 DEF InPlace
  <2>3. Local(c)'
    <3>1. (\A i \in DOMAIN todo[c] : Shape(c, todo[c][i]) /\ Phase(pc[c], paths[c], joined[c], todo[c][i]))'
      BY <2>1, EnvFacts DEF Local
    <3> QED  BY <2>1, <3>1, EnvFacts DEF Local, Pending
  <2>4. Known(c)'  BY <2>1, EnvFacts DEF Known, Removing
  <2>5. Alone(c)'  BY <2>1 DEF Alone, InCall
  <2>6. Covered(c)' <=> Covered(c)  BY DEF Covered
  <2>7. Clean(c)'  BY <2>1, <2>6 DEF Clean, Making, Undoing
  <2> QED  BY <2>2, <2>3, <2>4, <2>5, <2>7
<1> QED  BY <1>1, <1>2, <1>3 DEF IInv

(* A step of Apply that changes no directory and moves no process.         *)
LEMMA QuietStep ==
    ASSUME IInv, NEW c \in Containers, InCall(c), todo[c] # <<>>, Head(todo[c]).k \in ApplyKinds \ {"join", "start"}, Continue(c),
           UNCHANGED <<env, dirs, proc, alive, paths, made, joined, alone, destroys>>,
           cpus \subseteq cpus', Head(todo[c]).k = "copy" /\ H(c) = "cpuset" => D(c) \in cpus'
    PROVE  IInv'
<1>1. TypeOK /\ InPlace(c) /\ pc[c] = "apply"
  BY HeadFacts
<1>2. pc' = pc  BY DEF Continue
<1>3. InPlace(c)'
  BY <1>1, InPlaceSelf
<1>4. Known(c)'
  BY <1>1, <1>2, KnownApply
<1>5. Clean(c)'
  BY <1>1, <1>2, CleanApply
<1>6. /\ made' = [made EXCEPT ![c] = made'[c]] /\ joined' = [joined EXCEPT ![c] = joined'[c]]
      /\ paths' = [paths EXCEPT ![c] = paths'[c]] /\ proc' = [proc EXCEPT ![c] = proc'[c]]
      /\ alive' = [alive EXCEPT ![c] = alive'[c]] /\ proc'[c] \in [Hierarchies -> AllPlaces] /\ alive'[c] \in BOOLEAN
  BY <1>1, Update DEF TypeOK
<1>7. Change(c)  BY DEF Change
<1> QED  BY <1>3, <1>4, <1>5, <1>6, <1>7, ContinueStep

LEMMA CopyStep ==
    ASSUME IInv, NEW c \in Containers, cpusetCopyIfNeeded(c)
    PROVE  IInv'
<1>1. /\ InCall(c) /\ todo[c] # <<>> /\ Head(todo[c]).k = "copy" /\ Continue(c)
      /\ cpus' = (IF Front(D(c)) \in cpus THEN cpus \cup {D(c)} ELSE cpus)
      /\ UNCHANGED <<env, dirs, proc, alive, paths, made, joined, alone, destroys>>
  BY DEF cpusetCopyIfNeeded, AtStep, call, OnlyKernel
<1>2. Local(c) /\ 1 \in DOMAIN todo[c] /\ Head(todo[c]) = todo[c][1]
  BY <1>1, HeadFacts
<1>3. H(c) = "cpuset" => Front(D(c)) \in cpus
  BY <1>1, <1>2 DEF Local, Ready, CopyBefore, H, D
<1> QED  BY <1>1, <1>3, QuietStep DEF ApplyKinds

LEMMA CpusStep ==
    ASSUME IInv, NEW c \in Containers, SetCpus(c)
    PROVE  IInv'
<1>1. /\ InCall(c) /\ todo[c] # <<>> /\ Head(todo[c]).k = "cpus" /\ Continue(c)
      /\ cpus \subseteq cpus'
      /\ UNCHANGED <<env, dirs, proc, alive, paths, made, joined, alone, destroys>>
  BY DEF SetCpus, AtStep, call, OnlyKernel
<1> QED  BY <1>1, QuietStep DEF ApplyKinds

LEMMA ChownStep ==
    ASSUME IInv, NEW c \in Containers, Chown(c)
    PROVE  IInv'
<1>1. /\ InCall(c) /\ todo[c] # <<>> /\ Head(todo[c]).k = "chown" /\ Continue(c)
      /\ cpus \subseteq cpus'
      /\ UNCHANGED <<env, dirs, proc, alive, paths, made, joined, alone, destroys>>
  BY DEF Chown, AtStep, call, OnlyKernel, kernel
<1> QED  BY <1>1, QuietStep DEF ApplyKinds

LEMMA JoinsStep ==
    ASSUME IInv, NEW c \in Containers, InCall(c), todo[c] # <<>>, Head(todo[c]).k \in {"join", "start"}, Joins(c),
           ~env.noPid => Dir(H(c), D(c)) \in dirs', Change(c), dirs \subseteq dirs', dirs' \subseteq dirs \cup {Dir(H(c), d) : d \in Places(c)},
           UNCHANGED <<env, cpus, alive, paths, made, alone, destroys>>, Clean(c)'
    PROVE  IInv'
<1>1. /\ TypeOK /\ InPlace(c) /\ pc[c] = "apply" /\ H(c) \in Hierarchies /\ D(c) \in AllPlaces /\ Shape(c, Head(todo[c]))
  BY HeadFacts DEF ApplyKinds
<1>2. D(c) = Own(c)  BY <1>1 DEF Shape, D
<1>3. /\ Continue(c) /\ pc' = pc
      /\ proc' = (IF env.noPid THEN proc ELSE [proc EXCEPT ![c] = [proc[c] EXCEPT ![H(c)] = D(c)]])
      /\ joined' = [joined EXCEPT ![c] = joined[c] \cup {H(c)}]
  BY DEF Joins, Continue
<1>4. /\ proc'[c] = (IF env.noPid THEN proc[c] ELSE [proc[c] EXCEPT ![H(c)] = D(c)])
      /\ joined'[c] = joined[c] \cup {H(c)} /\ proc[c] \in [Hierarchies -> AllPlaces]
  BY <1>1, <1>3, Update DEF TypeOK
<1>5. /\ proc'[c] \in [Hierarchies -> AllPlaces] /\ (~env.noPid => proc'[c][H(c)] = Own(c))
      /\ \A h \in Hierarchies \ {H(c)} : proc'[c][h] = proc[c][h]
  BY <1>1, <1>2, <1>4
<1>6. /\ made' = [made EXCEPT ![c] = made'[c]] /\ joined' = [joined EXCEPT ![c] = joined'[c]]
      /\ paths' = [paths EXCEPT ![c] = paths'[c]] /\ proc' = [proc EXCEPT ![c] = proc'[c]]
      /\ alive' = [alive EXCEPT ![c] = alive'[c]] /\ alive'[c] \in BOOLEAN
  BY <1>1, <1>3, <1>4, Update DEF TypeOK
<1>7. InPlace(c)'
  <2>1. CASE env.noPid  BY <1>1, <1>4, <2>1 DEF InPlace
  <2>2. CASE ~env.noPid
    <3> SUFFICES ASSUME NEW h \in Hierarchies
                 PROVE  /\ proc'[c][h] \in {<<>>, Own(c), Sub(c)}
                        /\ proc'[c][h] # <<>> <=> h \in joined'[c]
                        /\ alive'[c] /\ h \in joined'[c] => Dir(h, proc'[c][h]) \in dirs'
      BY <2>2 DEF InPlace
    <3>1. CASE h = H(c)  BY <1>2, <1>4, <1>5, <2>2, <3>1, Distinct
    <3>2. CASE h # H(c)  BY <1>1, <1>4, <1>5, <2>2, <3>2 DEF InPlace
    <3> QED  BY <3>1, <3>2
  <2> QED  BY <2>1, <2>2
<1>8. Known(c)'
  BY <1>1, <1>3, <1>4, KnownApply
<1> QED  BY <1>1, <1>3, <1>4, <1>5, <1>6, <1>7, <1>8, ContinueStep

LEMMA JoinStep ==
    ASSUME IInv, NEW c \in Containers, WriteCgroupProc(c)
    PROVE  IInv'
<1>1. /\ InCall(c) /\ todo[c] # <<>> /\ Head(todo[c]).k = "join" /\ (env.noPid \/ Exists(H(c), D(c)))
      /\ UNCHANGED <<env, dirs, cpus, alive, paths, made, alone, destroys>>
      /\ Joins(c) \/ UNCHANGED <<proc, joined, pc, todo, result>>
  BY DEF WriteCgroupProc, AtStep, OnlyKernel
<1>2. CASE UNCHANGED <<proc, joined, pc, todo, result>>
  BY <1>1, <1>2, Stutter
<1>3. CASE Joins(c)
  <2>1. /\ TypeOK /\ Local(c) /\ pc[c] = "apply" /\ H(c) \in Handled /\ Shape(c, Head(todo[c])) /\ Clean(c)
        /\ todo[c] \in Seq(StepSet) /\ Head(todo[c]) = todo[c][1] /\ 1 \in DOMAIN todo[c]
    BY <1>1, HeadFacts DEF ApplyKinds
  <2>2. Continue(c) /\ pc' = pc /\ joined' = [joined EXCEPT ![c] = joined[c] \cup {H(c)}]  BY <1>3 DEF Joins, Continue
  <2>3. todo'[c] = Tail(todo[c]) /\ joined'[c] = joined[c] \cup {H(c)}  BY <2>1, <2>2, Update DEF TypeOK, Continue
  <2>4. ~env.noPid => Dir(H(c), D(c)) \in dirs'  BY <1>1, <2>1, Distinct DEF Exists, Shape, D
  <2>5. Clean(c)'
    <3>1. CASE H(c) # "unified"  BY <1>1, <2>1, <2>2, <2>3, <3>1, CleanApply
    <3>2. CASE H(c) = "unified"
      <4>1. V2 /\ Handled = {"unified"}  BY <2>1, <3>2, HandledFacts
      <4>2. ASSUME NEW i \in DOMAIN Tail(todo[c]) PROVE FALSE
        <5>1. i + 1 \in DOMAIN todo[c] /\ i \in Nat /\ i > 0  BY <1>1, <2>1, TailFacts
        <5>2. PairOK(env.flavour, todo[c][1], todo[c][i + 1])  BY <2>1, <5>1 DEF Local, Ordered
        <5>3. todo[c][i + 1].h = "unified" /\ todo[c][1].h = "unified"  BY <2>1, <4>1, <5>1 DEF Local, Shape
        <5> QED  BY <1>1, <2>1, <5>2, <5>3 DEF PairOK
      <4>3. todo'[c] = <<>>
        <5>1. Tail(todo[c]) \in Seq(StepSet)  BY <1>1, HeadFacts
        <5> DEFINE t == Tail(todo[c])
        <5>3. DOMAIN t = 1..Len(t) /\ Len(t) \in Nat  BY <5>1, LenProperties
        <5>4. ~(1 \in DOMAIN t)  BY <4>2
        <5> HIDE DEF t
        <5>5. Len(t) = 0  BY <5>3, <5>4
        <5>2. Len(Tail(todo[c])) = 0  BY <5>5 DEF t
        <5> QED  BY <2>3, <5>1, <5>2, EmptySeq
      <4>4. DOMAIN todo'[c] = {}  BY <4>3
      <4>5. alone[c] => Covered(c)'  BY <1>1, <2>1 DEF Clean, Making, Covered
      <4> QED  BY <1>1, <2>1, <2>2, <4>3, <4>4, <4>5 DEF Clean, Making
    <3> QED  BY <3>1, <3>2
  <2>6. Change(c)  BY <1>1 DEF Change
  <2> QED  BY <1>1, <1>3, <2>4, <2>5, <2>6, JoinsStep
<1> QED  BY <1>1, <1>2, <1>3

LEMMA StartStep ==
    ASSUME IInv, NEW c \in Containers, StartUnit(c)
    PROVE  IInv'
<1>1. /\ InCall(c) /\ todo[c] # <<>> /\ Head(todo[c]).k = "start" /\ Joins(c)
      /\ \/ dirs' = dirs \cup {Dir(H(c), d) : d \in Range(Ancestors) \cup {D(c)}}
         \/ env.noPid /\ dirs' = dirs
      /\ UNCHANGED <<env, cpus, alive, paths, made, alone, destroys>>
  BY DEF StartUnit, AtStep, OnlyKernel
<1>2. /\ TypeOK /\ Local(c) /\ pc[c] = "apply" /\ H(c) \in Handled /\ H(c) \in Hierarchies /\ Shape(c, Head(todo[c])) /\ Clean(c)
      /\ todo[c] \in Seq(StepSet) /\ Head(todo[c]) = todo[c][1] /\ 1 \in DOMAIN todo[c]
  BY <1>1, HeadFacts DEF ApplyKinds
<1>3. D(c) = Own(c)  BY <1>1, <1>2 DEF Shape, D
<1>4. Range(Ancestors) \cup {D(c)} = Places(c)
  <2>1. Range(Ancestors) = {Top, Mid}  BY DEF Range, Ancestors, Top, Mid
  <2> QED  BY <1>3, <2>1 DEF Places
<1>5. dirs' = dirs \cup {Dir(H(c), d) : d \in Places(c)} \/ (env.noPid /\ dirs' = dirs)  BY <1>1, <1>4
<1>6. Change(c) /\ dirs \subseteq dirs' /\ (~env.noPid => Dir(H(c), D(c)) \in dirs')  BY <1>2, <1>3, <1>5 DEF Change, Places
<1>7. Continue(c) /\ pc' = pc /\ joined' = [joined EXCEPT ![c] = joined[c] \cup {H(c)}]  BY <1>1 DEF Joins, Continue
<1>8. joined'[c] = joined[c] \cup {H(c)}  BY <1>2, <1>7, Update DEF TypeOK
<1>9. Clean(c)'
  <2>1. CASE H(c) # "unified"
    <3>1. \A d : Dir(H(c), d)[1] = H(c)  BY DEF Dir
    <3>2. \A e \in dirs' : e[1] = "unified" => e \in dirs  BY <1>5, <2>1, <3>1
    <3> QED  BY <1>1, <1>2, <1>6, <1>7, <1>8, <2>1, <3>2, CleanApply
  <2>2. CASE H(c) = "unified"
    <3>1. alone[c] => made'[c] = <<>>  BY <1>1, <1>2 DEF Clean, Making
    <3>2. alone[c] => Covered(c)' /\ DOMAIN made'[c] = {}  BY <3>1 DEF Covered
    <3>3. ~env.noPid => (\A d \in Places(c) : Dir("unified", d) \in dirs)'
      <4>1. ~env.noPid => \A d \in Places(c) : Dir("unified", d) \in dirs'  BY <1>5, <2>2
      <4> QED  BY <4>1 DEF Places, Dir, Own, Top, Mid
    <3> QED  BY <1>1, <1>2, <1>7, <3>1, <3>2, <3>3 DEF Clean, Making
  <2> QED  BY <2>1, <2>2
<1> QED  BY <1>1, <1>5, <1>6, <1>9, JoinsStep

LEMMA ControllersStep ==
    ASSUME IInv, NEW c \in Containers, supportedControllers(c)
    PROVE  IInv'
<1>1. /\ InCall(c) /\ todo[c] # <<>> /\ Head(todo[c]).k = "controllers" /\ Continue(c) /\ pc' = pc
      /\ made' = [made EXCEPT ![c] = <<>>]
      /\ UNCHANGED <<env, dirs, cpus, proc, alive, paths, joined, alone, destroys>>
  BY DEF supportedControllers, AtStep, OnlyKernel, kernel, Continue
<1>2. TypeOK /\ InPlace(c) /\ pc[c] = "apply" /\ Clean(c)
  BY <1>1, HeadFacts DEF ApplyKinds
<1>3. made'[c] = <<>>  BY <1>1, <1>2, Update DEF TypeOK
<1>4. InPlace(c)'  BY <1>1, <1>2, InPlaceSelf
<1>5. Known(c)'  BY <1>1, <1>2, KnownApply
<1>6. Clean(c)'
  <2>1. DOMAIN made'[c] = {}  BY <1>3
  <2>2. Covered(c)'  BY <2>1 DEF Covered
  <2>3. alone[c] /\ ~env.noPid /\ "unified" \in joined[c] => \A d \in Places(c) : Dir("unified", d) \in dirs
    BY <1>1, <1>2 DEF Clean, Making
  <2>4. (\A d \in Places(c) : Dir("unified", d) \in dirs)' <=> \A d \in Places(c) : Dir("unified", d) \in dirs
    BY <1>1 DEF Places, Dir, Own, Top, Mid
  <2> QED  BY <1>1, <1>2, <1>3, <2>2, <2>3, <2>4 DEF Clean, Making
<1>7. /\ made' = [made EXCEPT ![c] = made'[c]] /\ joined' = [joined EXCEPT ![c] = joined'[c]]
      /\ paths' = [paths EXCEPT ![c] = paths'[c]] /\ proc' = [proc EXCEPT ![c] = proc'[c]]
      /\ alive' = [alive EXCEPT ![c] = alive'[c]] /\ proc'[c] \in [Hierarchies -> AllPlaces] /\ alive'[c] \in BOOLEAN
  BY <1>1, <1>2, <1>3, Update DEF TypeOK
<1>8. Change(c)  BY <1>1 DEF Change
<1> QED  BY <1>1, <1>3, <1>4, <1>5, <1>6, <1>7, <1>8, ContinueStep

(* Nothing is below a directory that is not there.                         *)
LEMMA NothingBelow ==
    ASSUME TypeOK, Tree, NEW c \in Containers, NEW e \in dirs, NEW d \in Places(c), Under(e[2], d)
    PROVE  Dir(e[1], d) \in dirs
<1>1. e[1] \in Hierarchies /\ e[2] \in AllPlaces /\ e = Dir(e[1], e[2])
  BY DEF TypeOK, Dir
<1>2. Len(e[2]) > Len(d)  BY DEF Under
<1>3. CASE e[2] = <<>> \/ e[2] = Top
  <2>1. Len(d) = 1 \/ Len(d) = 2 \/ Len(d) = 3  BY PathFacts DEF Places
  <2>2. Len(e[2]) = 0 \/ Len(e[2]) = 1  BY <1>3, PathFacts
  <2>3. ASSUME NEW m, NEW n, m > n, n = 1 \/ n = 2 \/ n = 3, m = 0 \/ m = 1 PROVE FALSE  BY <2>3
  <2> QED  BY <1>2, <2>1, <2>2, <2>3
<1>4. CASE e[2] = Mid  BY <1>1, <1>2, <1>4, PathFacts DEF Places, Tree
<1>5. ASSUME NEW x \in Containers, e[2] = Own(x) PROVE Dir(e[1], d) \in dirs
  <2>1. Dir(e[1], Mid) \in dirs /\ Dir(e[1], Top) \in dirs  BY <1>1, <1>5 DEF Tree
  <2>2. d \in {Top, Mid}  BY <1>2, <1>5, PathFacts DEF Places
  <2> QED  BY <2>1, <2>2
<1>6. ASSUME NEW x \in Containers, e[2] = Sub(x) PROVE Dir(e[1], d) \in dirs
  <2>1. Dir(e[1], Own(x)) \in dirs /\ Dir(e[1], Mid) \in dirs /\ Dir(e[1], Top) \in dirs  BY <1>1, <1>6 DEF Tree
  <2>2. d = Own(c) => x = c  BY <1>6, UnderFacts
  <2> QED  BY <2>1, <2>2 DEF Places
<1> QED  BY <1>1, <1>3, <1>4, <1>5, <1>6 DEF AllPlaces

LEMMA CreateStep ==
    ASSUME IInv, NEW c \in Containers, CreateDir(c)
    PROVE  IInv'
<1>1. /\ InCall(c) /\ todo[c] # <<>> /\ Head(todo[c]).k = "create" /\ Continue(c) /\ pc' = pc
      /\ Exists("unified", Front(D(c)))
      /\ \/ Exists("unified", D(c)) /\ UNCHANGED <<dirs, made>>
         \/ /\ ~Exists("unified", D(c))
            /\ dirs' = dirs \cup {Dir("unified", D(c))}
            /\ made' = [made EXCEPT ![c] = Append(made[c], D(c))]
      /\ UNCHANGED <<env, cpus, proc, alive, paths, joined, alone, destroys>>
  BY DEF CreateDir, AtStep, OnlyKernel, Continue
<1>2. CASE UNCHANGED <<dirs, made>>
  BY <1>1, <1>2, QuietStep DEF ApplyKinds
<1>3. CASE /\ ~Exists("unified", D(c))
           /\ dirs' = dirs \cup {Dir("unified", D(c))}
           /\ made' = [made EXCEPT ![c] = Append(made[c], D(c))]
  <2>1. /\ TypeOK /\ Tree /\ Local(c) /\ InPlace(c) /\ pc[c] = "apply" /\ H(c) \in Handled /\ H(c) \in Hierarchies /\ Shape(c, Head(todo[c])) /\ Clean(c)
        /\ todo[c] \in Seq(StepSet) /\ Head(todo[c]) = todo[c][1] /\ 1 \in DOMAIN todo[c]
        /\ D(c) \in Places(c) /\ D(c) \in AllPlaces
    BY <1>1, HeadFacts DEF ApplyKinds
  <2>2. H(c) = "unified"  BY <1>1, <2>1, HandledFacts DEF Shape
  <2>3. Dir("unified", D(c)) \notin dirs  BY <1>3 DEF Exists
  <2>4. made'[c] = Append(made[c], D(c)) /\ made[c] \in Seq(AllPlaces)  BY <1>3, <2>1, Update DEF TypeOK
  <2>5. Change(c)  BY <1>1, <1>3, <2>1, <2>2 DEF Change, Exists
  <2>6. InPlace(c)'  BY <1>1, <1>3, <2>1, InPlaceSelf
  <2>7. Known(c)'
    BY <1>1, <1>3, <2>1, <2>2, KnownApply
  <2>8. Clean(c)'
    <3> SUFFICES ASSUME alone[c] PROVE Making(c)'
      BY <1>1, <2>1 DEF Clean
    <3>1. Making(c)  BY <2>1 DEF Clean
    <3>2. ~env.noPid => "unified" \notin joined[c]  BY <1>1, <2>1, <2>3, <3>1 DEF Making
    <3>3. todo'[c] = Tail(todo[c])  BY <1>1, <2>1 DEF Continue, TypeOK
    <3>4. \A j \in DOMAIN todo'[c] : todo'[c][j].k # "start"
      <4> TAKE j \in DOMAIN todo'[c]
      <4>1. j \in Nat /\ j > 0 /\ j + 1 \in DOMAIN todo[c] /\ todo'[c][j] = todo[c][j + 1]
        BY <1>1, <2>1, <3>3, TailFacts
      <4>2. PairOK(env.flavour, todo[c][1], todo[c][j + 1])  BY <2>1, <4>1 DEF Local, Ordered
      <4> QED  BY <4>1, <4>2 DEF PairOK
    <3> DEFINE m == made[c]
               n == made'[c]
    <3>5. /\ DOMAIN m = 1..Len(m) /\ Len(m) \in Nat
          /\ DOMAIN n = 1..Len(m) + 1
      BY <2>1, <2>4, AppendProperties, LenProperties
    <3>6. n[Len(m) + 1] = D(c) /\ \A i \in DOMAIN m : n[i] = m[i]
      BY <2>1, <2>4, <3>5, AppendProperties
    <3>7. Covered(c)  BY <3>1 DEF Making
    <3>8. Covered(c)'
      <4> SUFFICES ASSUME NEW e \in dirs', NEW i \in DOMAIN n, e[1] = "unified", Under(e[2], n[i])
                   PROVE  \E j \in DOMAIN n : n[j] = e[2]
        BY DEF Covered, Under
      <4> HIDE DEF m, n
      <4>1. Len(m) + 1 \in DOMAIN n /\ \A j \in DOMAIN m : j \in DOMAIN n  BY <3>5
      <4>2. CASE e = Dir("unified", D(c))
        <5>1. e[2] = D(c)  BY <4>2 DEF Dir
        <5> QED  BY <3>6, <4>1, <5>1
      <4>3. CASE e \in dirs /\ i \in DOMAIN m
        <5>1. PICK j \in DOMAIN m : m[j] = e[2]  BY <3>6, <3>7, <4>3 DEF Covered, m
        <5> QED  BY <3>6, <4>1, <5>1
      <4>4. CASE e \in dirs /\ i = Len(m) + 1
        BY <2>1, <2>3, <3>6, <4>4, NothingBelow
      <4>5. i \in DOMAIN m \/ i = Len(m) + 1  BY <3>5
      <4> QED  BY <1>3, <4>2, <4>3, <4>4, <4>5
    <3> QED  BY <1>1, <3>2, <3>4, <3>8 DEF Making
  <2>9. /\ made' = [made EXCEPT ![c] = made'[c]] /\ joined' = [joined EXCEPT ![c] = joined'[c]]
        /\ paths' = [paths EXCEPT ![c] = paths'[c]] /\ proc' = [proc EXCEPT ![c] = proc'[c]]
        /\ alive' = [alive EXCEPT ![c] = alive'[c]] /\ proc'[c] \in [Hierarchies -> AllPlaces] /\ alive'[c] \in BOOLEAN
    BY <1>1, <1>3, <2>1, <2>4, Update DEF TypeOK
  <2> QED  BY <1>1, <2>4, <2>5, <2>6, <2>7, <2>8, <2>9, ContinueStep
<1> QED  BY <1>1, <1>2, <1>3

(* CreateCgroupPath fails.                                                 *)
LEMMA UndoStep ==
    ASSUME IInv, NEW c \in Containers, pc[c] = "apply", todo[c] # <<>>, V2,
           pc' = [pc EXCEPT ![c] = "undo"], todo' = [todo EXCEPT ![c] = Undo(c)],
           UNCHANGED <<env, dirs, cpus, proc, alive, paths, made, result, joined, alone, destroys>>
    PROVE  IInv'
<1>0. InCall(c)  BY DEF InCall
<1>1. TypeOK /\ Local(c) /\ InPlace(c) /\ Known(c) /\ Clean(c)  BY <1>0, HeadFacts
<1>2. pc'[c] = "undo" /\ todo'[c] = Undo(c)  BY <1>1, Update DEF TypeOK
<1>3. Local(c)' /\ todo'[c] \in Seq(StepSet)  BY <1>1, <1>2, LocalUndo
<1>4. Touch(c)
  <2>1. /\ result = [result EXCEPT ![c] = result[c]] /\ paths = [paths EXCEPT ![c] = paths[c]]
        /\ destroys = [destroys EXCEPT ![c] = destroys[c]] /\ joined = [joined EXCEPT ![c] = joined[c]]
        /\ made = [made EXCEPT ![c] = made[c]] /\ proc = [proc EXCEPT ![c] = proc[c]] /\ alive = [alive EXCEPT ![c] = alive[c]]
    BY <1>1, Update DEF TypeOK
  <2> QED  BY <1>2, <2>1 DEF Touch
<1>5. Typed(c)  BY <1>1, <1>2, <1>3 DEF Typed, TypeOK, PCs
<1>6. InPlace(c)'  BY <1>1, InPlaceSelf
<1>7. Known(c)'  BY <1>2, KnownApply
<1>8. Clean(c)'
  <2> SUFFICES ASSUME alone[c] PROVE Undoing(c)'  BY <1>2 DEF Clean
  <2>1. Making(c)  BY <1>1 DEF Clean
  <2> DEFINE m == made[c]
  <2>2. DOMAIN m = 1..Len(m) /\ Len(m) \in Nat  BY <1>1, LenProperties DEF TypeOK
  <2>3. Covered(c)'  BY <2>1 DEF Making, Covered
  <2>4. ASSUME NEW i \in DOMAIN m PROVE \E j \in DOMAIN todo'[c] : todo'[c][j].d = m[i]
    <3>1. Len(m) + 1 - i \in DOMAIN m /\ Len(m) + 1 - (Len(m) + 1 - i) = i  BY <2>2
    <3>2. todo'[c] = [k \in DOMAIN m |-> Step("undo", "unified", m[Len(m) + 1 - k])]  BY <1>2 DEF Undo
    <3>3. todo'[c][Len(m) + 1 - i].d = m[i]  BY <3>1, <3>2 DEF Step
    <3> QED  BY <3>1, <3>2, <3>3
  <2>5. ~env.noPid /\ "unified" \in joined[c] => made[c] = <<>>  BY <2>1 DEF Making
  <2> QED  BY <2>3, <2>4, <2>5 DEF Undoing
<1>9. Change(c)  BY DEF Change
<1> QED  BY <1>0, <1>3, <1>4, <1>5, <1>6, <1>7, <1>8, <1>9, CallStep

LEMMA TypeStep ==
    ASSUME IInv, NEW c \in Containers, CheckType(c)
    PROVE  IInv'
<1>1. /\ InCall(c) /\ todo[c] # <<>> /\ Head(todo[c]).k = "type"
      /\ \/ pc' = [pc EXCEPT ![c] = "undo"] /\ todo' = [todo EXCEPT ![c] = Undo(c)] /\ UNCHANGED result
         \/ Continue(c)
      /\ UNCHANGED <<env, dirs, cpus, proc, alive, paths, made, joined, alone, destroys>>
  BY DEF CheckType, AtStep, call, OnlyKernel
<1>2. V2 /\ pc[c] = "apply"
  BY <1>1, HeadFacts DEF Shape, ApplyKinds
<1>3. CASE Continue(c)  BY <1>1, <1>3, QuietStep DEF ApplyKinds
<1> QED  BY <1>1, <1>2, <1>3, UndoStep

(* A call returns what has been done so far.                               *)
LEMMA ReturnStep ==
    ASSUME IInv, NEW c \in Containers, InCall(c), NEW r \in Results, Return(c, r),
           UNCHANGED <<env, dirs, cpus, proc, alive, paths, made, joined, alone, destroys>>,
           r = "nil" => pc[c] = "destroy" \/ (pc[c] = "apply" /\ todo[c] = <<>>) \/ (pc[c] = "undo" /\ MayGoWithout),
           r = "nil" /\ pc[c] = "destroy" => \A h \in joined[c] : Dir(h, Own(c)) \notin dirs
    PROVE  IInv'
<1>1. TypeOK /\ Local(c) /\ InPlace(c) /\ Known(c) /\ Clean(c)  BY DEF IInv
<1>2. pc' = [pc EXCEPT ![c] = "idle"] /\ todo' = [todo EXCEPT ![c] = <<>>] /\ result' = [result EXCEPT ![c] = r]
  BY DEF Return
<1>3. pc'[c] = "idle" /\ todo'[c] = <<>> /\ result'[c] = r
  BY <1>1, <1>2, Update DEF TypeOK
<1>4. Touch(c)
  <2>1. /\ paths = [paths EXCEPT ![c] = paths[c]]
        /\ destroys = [destroys EXCEPT ![c] = destroys[c]] /\ joined = [joined EXCEPT ![c] = joined[c]]
        /\ made = [made EXCEPT ![c] = made[c]] /\ proc = [proc EXCEPT ![c] = proc[c]] /\ alive = [alive EXCEPT ![c] = alive[c]]
    BY <1>1, Update DEF TypeOK
  <2> QED  BY <1>2, <1>3, <2>1 DEF Touch
<1>5. Typed(c)
  <2>1. <<>> \in Seq(StepSet)  BY EmptySeq
  <2> QED  BY <1>1, <1>3, <2>1 DEF Typed, TypeOK, PCs
<1>6. Local(c)'  BY <1>1, <1>3, LocalReturn
<1>7. InPlace(c)'  BY <1>1, InPlaceSelf
<1>8. Known(c)'
  <2>1. r = "nil" /\ destroys[c] > 0 => pc[c] = "destroy"
    BY <1>1 DEF Local, TypeOK
  <2> QED  BY <1>1, <1>3, <2>1 DEF Known
<1>9. Clean(c)'  BY <1>3 DEF Clean
<1>10. Change(c)  BY DEF Change
<1> QED  BY <1>4, <1>5, <1>6, <1>7, <1>8, <1>9, <1>10, CallStep

LEMMA CreateFailedStep ==
    ASSUME IInv, NEW c \in Containers, CreateFailed(c)
    PROVE  IInv'
<1>1. /\ pc[c] = "undo" /\ todo[c] = <<>>
      /\ UNCHANGED <<env, dirs, cpus, proc, alive, paths, made, joined, alone, destroys>>
      /\ Return(c, "err") \/ (MayGoWithout /\ Return(c, "nil"))
  BY DEF CreateFailed, kernel, call, OnlyKernel
<1> QED  BY <1>1, ReturnStep DEF InCall, Results

LEMMA AppliedStep ==
    ASSUME IInv, NEW c \in Containers, Applied(c)
    PROVE  IInv'
<1>1. /\ pc[c] = "apply" /\ todo[c] = <<>> /\ Return(c, "nil")
      /\ UNCHANGED <<env, dirs, cpus, proc, alive, paths, made, joined, alone, destroys>>
  BY DEF Applied, kernel, call, OnlyKernel
<1> QED  BY <1>1, ReturnStep DEF InCall, Results

(* A subsystem is passed over, by a rootless Apply or by RemovePaths.      *)
LEMMA SkipStep ==
    ASSUME IInv, NEW c \in Containers, todo[c] # <<>>, NextSubsystem(c),
           UNCHANGED <<env, dirs, cpus, proc, alive, made, joined, alone, destroys>>,
           \/ pc[c] = "apply" /\ env.flavour = "fs" /\ env.rootless /\ paths' = [paths EXCEPT ![c] = paths[c] \ {H(c)}]
           \/ pc[c] = "destroy" /\ ~V2 /\ paths' = paths
    PROVE  IInv'
<1>0. InCall(c)  BY DEF InCall
<1>1. /\ TypeOK /\ Local(c) /\ InPlace(c) /\ Known(c) /\ Clean(c) /\ todo[c] \in Seq(StepSet)
      /\ Phase(pc[c], paths[c], joined[c], Head(todo[c])) /\ H(c) \in Hierarchies
  BY <1>0, HeadFacts
<1>2. pc' = pc /\ result' = result  BY DEF NextSubsystem
<1>3. \/ pc[c] = "apply" /\ env.flavour = "fs" /\ env.rootless /\ paths'[c] = paths[c] \ {H(c)}
      \/ pc[c] = "destroy" /\ paths'[c] = paths[c]
  BY <1>1, Update DEF TypeOK
<1>4. Local(c)' /\ todo' = [todo EXCEPT ![c] = todo'[c]] /\ todo'[c] \in Seq(StepSet)
  BY <1>1, <1>3, LocalSkip
<1>5. Touch(c)
  <2>1. /\ pc = [pc EXCEPT ![c] = pc[c]] /\ result = [result EXCEPT ![c] = result[c]]
        /\ destroys = [destroys EXCEPT ![c] = destroys[c]] /\ joined = [joined EXCEPT ![c] = joined[c]]
        /\ made = [made EXCEPT ![c] = made[c]] /\ proc = [proc EXCEPT ![c] = proc[c]] /\ alive = [alive EXCEPT ![c] = alive[c]]
    BY <1>1, Update DEF TypeOK
  <2>2. paths' = [paths EXCEPT ![c] = paths'[c]]  BY <1>1, Update DEF TypeOK
  <2> QED  BY <1>2, <1>4, <2>1, <2>2 DEF Touch
<1>6. Typed(c)  BY <1>1, <1>2, <1>3, <1>4 DEF Typed, TypeOK
<1>7. InPlace(c)'  BY <1>1, InPlaceSelf
<1>8. Known(c)'
  <2>1. CASE pc[c] = "apply" /\ env.flavour = "fs" /\ paths'[c] = paths[c] \ {H(c)}
    <3>1. H(c) \notin joined[c]  BY <1>1, <2>1, HandledFacts DEF Phase, H
    <3> QED  BY <1>1, <1>2, <2>1, <3>1 DEF Known
  <2>2. CASE pc[c] = "destroy" /\ ~V2 /\ paths'[c] = paths[c]
    <3>1. ~V2'  BY <2>2, EnvFacts
    <3> QED  BY <1>1, <1>2, <2>2, <3>1 DEF Known
  <2> QED  BY <1>3, <2>1, <2>2
<1>9. Clean(c)'
  <2>1. PICK n \in 1..Len(todo[c]) + 1 : todo' = [todo EXCEPT ![c] = SubSeq(todo[c], n, Len(todo[c]))]
    BY DEF NextSubsystem
  <2>2. todo'[c] = SubSeq(todo[c], n, Len(todo[c]))  BY <1>1, <2>1, Update DEF TypeOK
  <2>3. \A i \in DOMAIN SubSeq(todo[c], n, Len(todo[c])) : i + n - 1 \in DOMAIN todo[c] /\ SubSeq(todo[c], n, Len(todo[c]))[i] = todo[c][i + n - 1]
    BY <1>1, SuffixFacts
  <2>4. \A j \in DOMAIN todo'[c] : \E i \in DOMAIN todo[c] : todo'[c][j] = todo[c][i]
    BY <2>2, <2>3
  <2>5. pc[c] = "apply" /\ alone[c] => Making(c)  BY <1>1 DEF Clean
  <2>6. pc[c] = "apply" /\ alone[c] => Making(c)'  BY <1>1, <2>4, <2>5, MakingKept
  <2> QED  BY <1>2, <1>3, <2>6 DEF Clean
<1>10. Change(c)  BY DEF Change
<1> QED  BY <1>0, <1>4, <1>5, <1>6, <1>7, <1>8, <1>9, <1>10, CallStep

LEMMA FailStep ==
    ASSUME IInv, NEW c \in Containers, ApplyFails(c)
    PROVE  IInv'
<1>0. InCall(c)  BY DEF ApplyFails, InCall
<1>1. /\ pc[c] = "apply" /\ todo[c] # <<>>
      /\ UNCHANGED <<env, dirs, cpus, proc, alive, made, joined, alone, destroys>>
      /\ \/ /\ env.flavour = "fs" /\ env.rootless /\ paths' = [paths EXCEPT ![c] = paths[c] \ {H(c)}]
            /\ NextSubsystem(c)
         \/ Return(c, "err") /\ UNCHANGED paths
         \/ /\ Head(todo[c]).k \in {"controllers", "create"}
            /\ pc' = [pc EXCEPT ![c] = "undo"] /\ todo' = [todo EXCEPT ![c] = Undo(c)] /\ UNCHANGED <<result, paths>>
  BY DEF ApplyFails, kernel, call
<1>2. CASE env.flavour = "fs" /\ env.rootless /\ paths' = [paths EXCEPT ![c] = paths[c] \ {H(c)}] /\ NextSubsystem(c)
  BY <1>1, <1>2, SkipStep
<1>3. CASE Return(c, "err") /\ UNCHANGED paths
  BY <1>0, <1>1, <1>3, ReturnStep DEF Results
<1>4. CASE /\ Head(todo[c]).k \in {"controllers", "create"}
           /\ pc' = [pc EXCEPT ![c] = "undo"] /\ todo' = [todo EXCEPT ![c] = Undo(c)] /\ UNCHANGED <<result, paths>>
  <2>1. V2  BY <1>0, <1>1, <1>4, HeadFacts DEF Shape
  <2> QED  BY <1>1, <1>4, <2>1, UndoStep
<1> QED  BY <1>1, <1>2, <1>3, <1>4

(* A deferred removal: the directory is the deepest that is left, nothing  *)
(* is in it, and so it goes.                                               *)
LEMMA RemoveMadeStep ==
    ASSUME IInv, NEW c \in Containers, RemoveMade(c)
    PROVE  IInv'
<1>1. /\ InCall(c) /\ todo[c] # <<>> /\ Head(todo[c]).k = "undo" /\ Continue(c) /\ pc' = pc
      /\ dirs' = (IF Busy("unified", D(c)) THEN dirs ELSE dirs \ {Dir("unified", D(c))})
      /\ UNCHANGED <<env, cpus, proc, alive, paths, made, joined, alone, destroys>>
  BY DEF RemoveMade, AtStep, call, OnlyKernel, Continue
<1>2. /\ TypeOK /\ Local(c) /\ InPlace(c) /\ pc[c] = "undo" /\ Clean(c) /\ D(c) \in AllPlaces /\ D(c) \in Places(c)
      /\ todo[c] \in Seq(StepSet) /\ Head(todo[c]) = todo[c][1] /\ 1 \in DOMAIN todo[c]
  BY <1>1, HeadFacts
<1>3. dirs' = dirs \/ Drops
  <2>1. "unified" \in Hierarchies  BY DEF Hierarchies
  <2> QED  BY <1>1, <1>2, <2>1 DEF Drops
<1>4. Change(c)  BY <1>3 DEF Change
<1>5. InPlace(c)'  BY <1>1, <1>2, <1>3, InPlaceSelf
<1>6. Known(c)'
  <2>1. dirs' \subseteq dirs  BY <1>1
  <2> QED  BY <1>1, <1>2, <2>1, KnownApply
<1>7. Clean(c)'
  <2> SUFFICES ASSUME alone[c] PROVE Undoing(c)'  BY <1>1, <1>2 DEF Clean
  <2>1. Undoing(c) /\ Covered(c)  BY <1>2 DEF Clean, Undoing
  <2>2. todo'[c] = Tail(todo[c])  BY <1>1, <1>2, Update DEF TypeOK, Continue
  <2>3. dirs' \subseteq dirs  BY <1>1
  <2>4. Covered(c)'  BY <1>1, <2>1, <2>3 DEF Covered
  <2>5. \A j \in DOMAIN todo[c] : todo[c][j].k = "undo" /\ (j = 1 \/ Len(D(c)) > Len(todo[c][j].d))
    <3> TAKE j \in DOMAIN todo[c]
    <3>1. todo[c][j].k = "undo" /\ todo[c][1].k = "undo"  BY <1>2 DEF Local, Phase
    <3>2. j = 1 \/ 1 < j  BY <1>2, LenProperties
    <3>3. 1 < j => PairOK(env.flavour, todo[c][1], todo[c][j])  BY <1>2 DEF Local, Ordered
    <3> QED  BY <1>2, <3>1, <3>2, <3>3 DEF PairOK, D
  <2>6. ASSUME NEW i \in DOMAIN made[c], made[c][i] = D(c) PROVE ~Busy("unified", D(c))
    <3>1. ASSUME NEW e \in dirs, e[1] = "unified", Under(e[2], D(c)) PROVE FALSE
      <4>1. PICK k \in DOMAIN made[c] : made[c][k] = e[2]  BY <2>1, <2>6, <3>1 DEF Covered
      <4>2. e = Dir("unified", made[c][k])  BY <1>2, <3>1, <4>1 DEF TypeOK, Dir
      <4>3. PICK j \in DOMAIN todo[c] : todo[c][j].d = e[2]  BY <2>1, <4>1, <4>2 DEF Undoing
      <4>4. Len(e[2]) > Len(D(c))  BY <3>1 DEF Under
      <4>5. Len(D(c)) = Len(e[2]) \/ Len(D(c)) > Len(e[2])  BY <1>2, <2>5, <4>3 DEF D
      <4>6. Len(D(c)) \in Nat /\ Len(e[2]) \in Nat
        <5>1. \A d \in Places(c) : Len(d) \in Nat  BY PathFacts DEF Places
        <5> QED  BY <1>2, <4>1, <5>1 DEF Local
      <4> QED  BY ONLY <4>4, <4>5, <4>6
    <3>2. ASSUME NEW x \in Containers, alive[x], proc[x]["unified"] = D(c) PROVE FALSE
      <4>1. InPlace(x) /\ "unified" \in Hierarchies  BY DEF IInv, Hierarchies
      <4>2. proc[x]["unified"] \in {<<>>, Own(x), Sub(x)}  BY <4>1 DEF InPlace
      <4>3. D(c) = Own(c) /\ x = c  BY <1>2, <3>2, <4>2, PathFacts, Distinct DEF Places
      <4>4. ~env.noPid /\ "unified" \in joined[c]  BY <3>2, <4>1, <4>3, Distinct DEF InPlace
      <4>5. made[c] = <<>>  BY <2>1, <4>4 DEF Undoing
      <4> QED  BY <2>6, <4>5
    <3> QED  BY <3>1, <3>2 DEF Busy, Under
  <2>7. ASSUME NEW i \in DOMAIN made[c], Dir("unified", made[c][i]) \in dirs'
        PROVE  \E j \in DOMAIN todo'[c] : todo'[c][j].d = made[c][i]
    <3>1. PICK j \in DOMAIN todo[c] : todo[c][j].d = made[c][i]  BY <2>1, <2>3, <2>7 DEF Undoing
    <3>2. made[c][i] # D(c)  BY <1>1, <2>6, <2>7
    <3>3. j # 1  BY <1>2, <3>1, <3>2 DEF D
    <3>4. \A k \in DOMAIN todo[c] : k = 1 \/ (k - 1 \in DOMAIN Tail(todo[c]) /\ Tail(todo[c])[k - 1] = todo[c][k])
      BY <1>1, <1>2, TailFacts
    <3> QED  BY <2>2, <3>1, <3>3, <3>4
  <2> QED  BY <1>1, <2>1, <2>4, <2>7 DEF Undoing
<1>8. /\ made' = [made EXCEPT ![c] = made'[c]] /\ joined' = [joined EXCEPT ![c] = joined'[c]]
      /\ paths' = [paths EXCEPT ![c] = paths'[c]] /\ proc' = [proc EXCEPT ![c] = proc'[c]]
      /\ alive' = [alive EXCEPT ![c] = alive'[c]] /\ proc'[c] \in [Hierarchies -> AllPlaces] /\ alive'[c] \in BOOLEAN
  BY <1>1, <1>2, Update DEF TypeOK
<1> QED  BY <1>1, <1>4, <1>5, <1>6, <1>7, <1>8, ContinueStep

-----------------------------------------------------------------------------
(* Destroy, one step at a time.                                            *)

(* A step of Destroy that goes on with the next one.                       *)
LEMMA DestroyContinue ==
    ASSUME IInv, NEW c \in Containers, InCall(c), todo[c] # <<>>, Head(todo[c]).k \in DestroyKinds, Continue(c),
           UNCHANGED <<env, proc, made, joined, alone, destroys>>, alive' = [alive EXCEPT ![c] = alive'[c]],
           alive'[c] = alive[c] \/ alive'[c] = FALSE, paths' = [paths EXCEPT ![c] = paths'[c]],
           dirs' = dirs \/ Drops \/ (Stops(c) /\ ~alive'[c]), cpus \ {Own(c)} \subseteq cpus',
           \/ paths'[c] = paths[c]
           \/ ~V2 /\ paths'[c] = paths[c] \ {H(c)} /\ Dir(H(c), Own(c)) \notin dirs',
           V2 => Dir("unified", Own(c)) \notin dirs' \/ Head(todo[c]).k \notin {"rm", "read", "last"}
    PROVE  IInv'
<1>1. /\ TypeOK /\ Local(c) /\ InPlace(c) /\ Known(c) /\ Clean(c) /\ pc[c] = "destroy"
      /\ todo[c] \in Seq(StepSet) /\ Head(todo[c]) = todo[c][1]
  BY HeadFacts
<1>2. pc' = pc /\ todo' = [todo EXCEPT ![c] = Tail(todo[c])]  BY DEF Continue
<1>3. todo'[c] = Tail(todo[c])  BY <1>1, <1>2, Update DEF TypeOK
<1>4. dirs' \subseteq dirs  BY DEF Drops, Stops
<1>5. InPlace(c)'  BY <1>1, InPlaceSelf
<1>6. Known(c)'
  <2>1. \A h \in joined'[c] : Dir(h, Own(c)) \in dirs' => h \in paths'[c]  BY <1>1, <1>4 DEF Known
  <2>2. V2 => Dir("unified", Own(c)) \notin dirs' \/ Removing(c)'
    <3> SUFFICES ASSUME V2, Dir("unified", Own(c)) \in dirs' PROVE Removing(c)'  OBVIOUS
    <3>1. Removing(c) /\ Head(todo[c]).k \notin {"rm", "read", "last"}  BY <1>1, <1>4 DEF Known
    <3>2. PICK j \in DOMAIN todo[c] : todo[c][j].k \in {"rm", "read", "last"}  BY <3>1 DEF Removing
    <3>3. \A k \in DOMAIN todo[c] : k = 1 \/ (k - 1 \in DOMAIN Tail(todo[c]) /\ Tail(todo[c])[k - 1] = todo[c][k])
      BY <1>1, TailFacts
    <3>4. j # 1  BY <1>1, <3>1, <3>2
    <3> QED  BY <1>3, <3>2, <3>3, <3>4 DEF Removing
  <2> QED  BY <1>1, <1>2, <2>1, <2>2, EnvFacts DEF Known
<1>7. Clean(c)'  BY <1>1, <1>2 DEF Clean
<1>8. Change(c)  BY DEF Change
<1>9. /\ made' = [made EXCEPT ![c] = made'[c]] /\ joined' = [joined EXCEPT ![c] = joined'[c]]
      /\ proc' = [proc EXCEPT ![c] = proc'[c]]
      /\ proc'[c] \in [Hierarchies -> AllPlaces] /\ alive'[c] \in BOOLEAN
  BY <1>1, Update DEF TypeOK
<1>10. /\ Head(todo[c]).k \notin {"join", "start", "copy"} /\ joined'[c] = joined[c] /\ made'[c] = made[c]
       /\ paths'[c] = paths[c] \/ (pc[c] = "destroy" /\ ~V2 /\ paths'[c] \subseteq paths[c])
  BY <1>1 DEF DestroyKinds
<1> QED  BY <1>1, <1>5, <1>6, <1>7, <1>8, <1>9, <1>10, ContinueStep

LEMMA StopStep ==
    ASSUME IInv, NEW c \in Containers, StopUnit(c)
    PROVE  IInv'
<1>1. /\ InCall(c) /\ todo[c] # <<>> /\ Head(todo[c]).k = "stop" /\ Continue(c)
      /\ \/ /\ alive' = [alive EXCEPT ![c] = FALSE]
            /\ dirs' \in {dirs, dirs \ {Dir(H(c), D(c)), Dir(H(c), Sub(c))}}
         \/ UNCHANGED <<alive, dirs>>
      /\ UNCHANGED <<env, cpus, proc, paths, made, joined, alone, destroys>>
  BY DEF StopUnit, AtStep, call, OnlyKernel
<1>2. TypeOK /\ H(c) \in Hierarchies /\ D(c) = Own(c)  BY <1>1, HeadFacts DEF DestroyKinds
<1>3. /\ alive'[c] = FALSE \/ (alive'[c] = alive[c] /\ dirs' = dirs)
      /\ alive' = [alive EXCEPT ![c] = alive'[c]] /\ paths' = [paths EXCEPT ![c] = paths'[c]]
  BY <1>1, <1>2, Update DEF TypeOK
<1>4. dirs' = dirs \/ (Stops(c) /\ ~alive'[c])  BY <1>1, <1>2, <1>3 DEF Stops
<1> QED  BY <1>1, <1>3, <1>4, DestroyContinue DEF DestroyKinds

LEMMA GoneStep ==
    ASSUME IInv, NEW c \in Containers, InCall(c), todo[c] # <<>>, Head(todo[c]).k \in {"rm", "last"}, Gone(c), ~Busy(H(c), D(c)),
           UNCHANGED <<env, proc, alive, made, joined, alone, destroys>>
    PROVE  IInv'
<1>1. /\ dirs' = dirs \ {Dir(H(c), D(c))} /\ Continue(c)
      /\ cpus' = (IF H(c) = "cpuset" THEN cpus \ {D(c)} ELSE cpus)
      /\ paths' = [paths EXCEPT ![c] = IF V2 THEN paths[c] ELSE paths[c] \ {H(c)}]
  BY DEF Gone
<1>2. TypeOK /\ H(c) \in Handled /\ H(c) \in Hierarchies /\ D(c) = Own(c) /\ D(c) \in AllPlaces  BY HeadFacts DEF DestroyKinds
<1>3. /\ alive' = [alive EXCEPT ![c] = alive'[c]] /\ paths' = [paths EXCEPT ![c] = paths'[c]]
      /\ paths'[c] = (IF V2 THEN paths[c] ELSE paths[c] \ {H(c)})
  BY <1>1, <1>2, Update DEF TypeOK
<1>4. Drops  BY <1>1, <1>2 DEF Drops
<1>5. Dir(H(c), Own(c)) \notin dirs'  BY <1>1, <1>2
<1>6. V2 => H(c) = "unified"  BY <1>2, HandledFacts
<1> QED  BY <1>1, <1>2, <1>3, <1>4, <1>5, <1>6, DestroyContinue DEF DestroyKinds

(* RemovePath failed: the v2 manager returns, the others try the next.     *)
LEMMA StillStep ==
    ASSUME IInv, NEW c \in Containers, InCall(c), todo[c] # <<>>, Head(todo[c]).k \in DestroyKinds, StillThere(c),
           UNCHANGED <<env, proc, alive, made, joined, alone, destroys>>
    PROVE  IInv'
<1>1. UNCHANGED <<dirs, cpus, paths>> /\ IF V2 THEN Return(c, "err") ELSE NextSubsystem(c)
  BY DEF StillThere
<1>2. pc[c] = "destroy"  BY HeadFacts
<1>3. CASE V2  BY <1>1, <1>3, ReturnStep DEF Results
<1>4. CASE ~V2  BY <1>1, <1>2, <1>4, SkipStep
<1> QED  BY <1>3, <1>4

(* Destroy has other steps to do.                                          *)
LEMMA DestroyTurn ==
    ASSUME IInv, NEW c \in Containers, pc[c] = "destroy", todo' = [todo EXCEPT ![c] = todo'[c]],
           Removal(c, todo'[c]), V2 => Removing(c)',
           UNCHANGED <<env, dirs, cpus, proc, alive, paths, pc, made, result, joined, alone, destroys>>
    PROVE  IInv'
<1>0. InCall(c)  BY DEF InCall
<1>1. TypeOK /\ Local(c) /\ InPlace(c) /\ Known(c) /\ Clean(c)  BY DEF IInv
<1>2. destroys[c] > 0 /\ destroys[c] \in Nat  BY <1>1 DEF Local, TypeOK
<1>3. Local(c)'  BY <1>1, <1>2, LocalDestroy
<1>4. Touch(c)
  <2>1. /\ pc = [pc EXCEPT ![c] = pc[c]] /\ result = [result EXCEPT ![c] = result[c]] /\ paths = [paths EXCEPT ![c] = paths[c]]
        /\ destroys = [destroys EXCEPT ![c] = destroys[c]] /\ joined = [joined EXCEPT ![c] = joined[c]]
        /\ made = [made EXCEPT ![c] = made[c]] /\ proc = [proc EXCEPT ![c] = proc[c]] /\ alive = [alive EXCEPT ![c] = alive[c]]
    BY <1>1, Update DEF TypeOK
  <2> QED  BY <2>1 DEF Touch
<1>5. Typed(c)  BY <1>1 DEF Typed, TypeOK, Removal
<1>6. InPlace(c)'  BY <1>1, InPlaceSelf
<1>7. Known(c)'  BY <1>1, EnvFacts DEF Known
<1>8. Clean(c)'  BY DEF Clean
<1>9. Change(c)  BY DEF Change
<1> QED  BY <1>0, <1>3, <1>4, <1>5, <1>6, <1>7, <1>8, <1>9, CallStep

LEMMA StopFailsStep ==
    ASSUME IInv, NEW c \in Containers, StopFails(c)
    PROVE  IInv'
<1>1. /\ InCall(c) /\ todo[c] # <<>> /\ Head(todo[c]).k = "stop"
      /\ IF V2 THEN Return(c, "err") ELSE todo' = [todo EXCEPT ![c] = Tail(todo[c])] /\ result' = [result EXCEPT ![c] = "stop"] /\ pc' = pc
      /\ UNCHANGED <<env, dirs, cpus, proc, alive, paths, made, joined, alone, destroys>>
  BY DEF StopFails, AtStep, call, OnlyKernel, kernel
<1>2. /\ TypeOK /\ Local(c) /\ InPlace(c) /\ Known(c) /\ Clean(c) /\ pc[c] = "destroy" /\ Tail(todo[c]) \in Seq(StepSet)
  BY <1>1, HeadFacts DEF DestroyKinds
<1>3. CASE V2  BY <1>1, <1>2, <1>3, ReturnStep DEF Results
<1>4. CASE ~V2
  <2>1. todo'[c] = Tail(todo[c]) /\ result'[c] = "stop"  BY <1>1, <1>2, <1>4, Update DEF TypeOK
  <2>2. Local(c)'  BY <1>1, <1>2, <1>4, <2>1, LocalContinue
  <2>3. Touch(c)
    <3>1. /\ pc = [pc EXCEPT ![c] = pc[c]] /\ paths = [paths EXCEPT ![c] = paths[c]]
          /\ destroys = [destroys EXCEPT ![c] = destroys[c]] /\ joined = [joined EXCEPT ![c] = joined[c]]
          /\ made = [made EXCEPT ![c] = made[c]] /\ proc = [proc EXCEPT ![c] = proc[c]] /\ alive = [alive EXCEPT ![c] = alive[c]]
      BY <1>2, Update DEF TypeOK
    <3> QED  BY <1>1, <1>4, <2>1, <3>1 DEF Touch
  <2>4. Typed(c)  BY <1>1, <1>2, <1>4, <2>1 DEF Typed, TypeOK, Results
  <2>5. InPlace(c)'  BY <1>1, <1>2, InPlaceSelf
  <2>6. Known(c)'  BY <1>1, <1>2, <1>4, EnvFacts DEF Known
  <2>7. Clean(c)'  BY <1>1, <1>2, <1>4 DEF Clean
  <2>8. Change(c)  BY <1>1 DEF Change
  <2> QED  BY <1>1, <2>2, <2>3, <2>4, <2>5, <2>6, <2>7, <2>8, CallStep
<1> QED  BY <1>3, <1>4

LEMMA RemovalTail ==
    ASSUME IInv, NEW c \in Containers, InCall(c), pc[c] = "destroy", todo[c] # <<>>
    PROVE  /\ Removal(c, Tail(todo[c]))
           /\ env.flavour = "fs" => H(c) # "memory" \/ \A i \in DOMAIN Tail(todo[c]) : Tail(todo[c])[i].h = "memory"
<1> DEFINE s == todo[c]
           t == Tail(s)
<1>1. /\ Local(c) /\ s \in Seq(StepSet) /\ t \in Seq(StepSet) /\ Head(s) = s[1] /\ 1 \in DOMAIN s /\ s # <<>>
  BY HeadFacts
<1>2. \A i \in DOMAIN s : s[i].k \in DestroyKinds /\ s[i].h \in Handled /\ s[i].d = Own(c)
  BY <1>1 DEF Local, Shape, Phase
<1>3. Ordered(env.flavour, s) /\ H(c) = s[1].h  BY <1>1 DEF Local, H
<1> HIDE DEF s
<1>4. \A i \in DOMAIN t : i \in Nat /\ i > 0 /\ i + 1 \in DOMAIN s /\ t[i] = s[i + 1]
  BY <1>1, TailFacts
<1> HIDE DEF t
<1>5. \A i \in DOMAIN t : PairOK(env.flavour, s[1], t[i])
  <2> TAKE i \in DOMAIN t
  <2>1. 1 < i + 1  BY <1>4
  <2> QED  BY <1>1, <1>3, <1>4, <2>1 DEF Ordered
<1>6. \A i, j \in DOMAIN t : i < j => PairOK(env.flavour, t[i], t[j])
  <2> TAKE i, j \in DOMAIN t
  <2> HAVE i < j
  <2>1. i + 1 < j + 1  BY <1>4
  <2> QED  BY <1>3, <1>4, <2>1 DEF Ordered
<1>7. Removal(c, t)  BY <1>1, <1>2, <1>4, <1>6 DEF Removal, PairOK
<1> QED  BY <1>3, <1>5, <1>7 DEF PairOK, s, t

(* One step of RemovePath turns into others for the same directory.        *)
LEMMA TurnInto ==
    ASSUME IInv, NEW c \in Containers, InCall(c), pc[c] = "destroy", todo[c] # <<>>, NEW s, Removal(c, s),
           \A i \in DOMAIN s : s[i].h = H(c), \E i \in DOMAIN s : s[i].k \in {"read", "last"},
           todo' = [todo EXCEPT ![c] = s \o Tail(todo[c])],
           UNCHANGED <<env, dirs, cpus, proc, alive, paths, pc, made, result, joined, alone, destroys>>
    PROVE  IInv'
<1> DEFINE t == Tail(todo[c])
<1>1. Removal(c, t) /\ (env.flavour = "fs" => H(c) # "memory" \/ \A i \in DOMAIN t : t[i].h = "memory")
  BY RemovalTail
<1>2. TypeOK  BY DEF IInv
<1>3. todo'[c] = s \o t /\ todo' = [todo EXCEPT ![c] = todo'[c]]  BY <1>2, Update DEF TypeOK
<1> HIDE DEF t
<1>4. Removal(c, s \o t)
  <2>1. env.flavour = "fs" => (\A i \in DOMAIN s : s[i].h # "memory") \/ (\A i \in DOMAIN t : t[i].h = "memory")  BY <1>1
  <2> QED  BY <1>1, <2>1, RemovalConcat
<1>5. \E i \in DOMAIN (s \o t) : (s \o t)[i].k \in {"read", "last"}
  <2>1. s \in Seq(StepSet) /\ t \in Seq(StepSet)  BY <1>1 DEF Removal
  <2>2. \A i \in DOMAIN s : i \in DOMAIN (s \o t) /\ (s \o t)[i] = s[i]  BY <2>1, ConcatFacts
  <2> QED  BY <2>2
<1>6. Removing(c)'  BY <1>3, <1>5 DEF Removing
<1> QED  BY <1>3, <1>4, <1>6, DestroyTurn

LEMMA FastStep ==
    ASSUME IInv, NEW c \in Containers, RemoveFast(c)
    PROVE  IInv'
<1>1. /\ InCall(c) /\ todo[c] # <<>> /\ Head(todo[c]).k = "rm"
      /\ \/ Gone(c) /\ ~Busy(H(c), D(c))
         \/ /\ todo' = [todo EXCEPT ![c] = <<Step("read", H(c), D(c))>> \o Tail(todo[c])]
            /\ UNCHANGED <<dirs, cpus, paths, pc, result>>
      /\ UNCHANGED <<env, proc, alive, made, joined, alone, destroys>>
  BY DEF RemoveFast, AtStep, call
<1>2. CASE Gone(c) /\ ~Busy(H(c), D(c))  BY <1>1, <1>2, GoneStep
<1>3. CASE /\ todo' = [todo EXCEPT ![c] = <<Step("read", H(c), D(c))>> \o Tail(todo[c])]
           /\ UNCHANGED <<dirs, cpus, paths, pc, result>>
  <2> DEFINE s == <<Step("read", H(c), D(c))>>
  <2>1. pc[c] = "destroy" /\ H(c) \in Handled /\ D(c) = Own(c)  BY <1>1, HeadFacts DEF DestroyKinds
  <2>2. Removal(c, s) /\ DOMAIN s = {1} /\ s[1].h = H(c) /\ s[1].k = "read"  BY <2>1, RemovalOne DEF DestroyKinds
  <2> HIDE DEF s
  <2> QED  BY <1>1, <1>3, <2>1, <2>2, TurnInto DEF s
<1> QED  BY <1>1, <1>2, <1>3

LEMMA ReadStep ==
    ASSUME IInv, NEW c \in Containers, RemoveRead(c)
    PROVE  IInv'
<1> DEFINE a == <<Step("sub", H(c), D(c)), Step("last", H(c), D(c))>>
           b == <<Step("last", H(c), D(c))>>
<1>1. /\ InCall(c) /\ todo[c] # <<>> /\ Head(todo[c]).k = "read"
      /\ todo' = [todo EXCEPT ![c] = a \o Tail(todo[c])] \/ todo' = [todo EXCEPT ![c] = b \o Tail(todo[c])]
      /\ UNCHANGED <<env, dirs, cpus, proc, alive, paths, pc, made, result, joined, alone, destroys>>
  BY DEF RemoveRead, AtStep, call, kernel
<1>2. pc[c] = "destroy" /\ H(c) \in Handled /\ D(c) = Own(c)  BY <1>1, HeadFacts DEF DestroyKinds
<1>3. Removal(c, b) /\ DOMAIN b = {1} /\ b[1].h = H(c) /\ b[1].k = "last"  BY <1>2, RemovalOne DEF DestroyKinds
<1>4. Removal(c, a) /\ DOMAIN a = {1, 2} /\ a[1].h = H(c) /\ a[2].h = H(c) /\ a[2].k = "last"
  <2> DEFINE e == Step("sub", H(c), D(c))
             f == Step("last", H(c), D(c))
  <2>1. /\ H(c) \in Hierarchies /\ D(c) \in AllPlaces /\ "sub" \in Kinds /\ "last" \in Kinds
        /\ "sub" \in DestroyKinds /\ "last" \in DestroyKinds
    BY <1>1, HeadFacts DEF Kinds, DestroyKinds
  <2>2. /\ e \in StepSet /\ e.k = "sub" /\ e.h = H(c) /\ e.d = D(c)
        /\ f \in StepSet /\ f.k = "last" /\ f.h = H(c) /\ f.d = D(c)
    BY <2>1, StepFacts
  <2> HIDE DEF e, f
  <2>3. DOMAIN <<e, f>> = {1, 2} /\ <<e, f>>[1] = e /\ <<e, f>>[2] = f /\ <<e, f>> \in Seq(StepSet)  BY <2>2
  <2>4. Removal(c, <<e, f>>)  BY <1>2, <2>1, <2>2, <2>3 DEF Removal
  <2> QED  BY <2>2, <2>3, <2>4 DEF e, f
<1> HIDE DEF a, b
<1>5. CASE todo' = [todo EXCEPT ![c] = a \o Tail(todo[c])]  BY <1>1, <1>2, <1>4, <1>5, TurnInto
<1>6. CASE todo' = [todo EXCEPT ![c] = b \o Tail(todo[c])]  BY <1>1, <1>2, <1>3, <1>6, TurnInto
<1> QED  BY <1>1, <1>5, <1>6

LEMMA SubStep ==
    ASSUME IInv, NEW c \in Containers, RemoveSub(c)
    PROVE  IInv'
<1>1. /\ InCall(c) /\ todo[c] # <<>> /\ Head(todo[c]).k = "sub"
      /\ \/ StillThere(c)
         \/ ~Busy(H(c), Sub(c)) /\ dirs' = dirs \ {Dir(H(c), Sub(c))} /\ Continue(c) /\ UNCHANGED <<cpus, paths>>
      /\ UNCHANGED <<env, proc, alive, made, joined, alone, destroys>>
  BY DEF RemoveSub, AtStep, call
<1>2. CASE StillThere(c)  BY <1>1, <1>2, StillStep DEF DestroyKinds
<1>3. CASE ~Busy(H(c), Sub(c)) /\ dirs' = dirs \ {Dir(H(c), Sub(c))} /\ Continue(c) /\ UNCHANGED <<cpus, paths>>
  <2>1. TypeOK /\ H(c) \in Hierarchies /\ Sub(c) \in AllPlaces  BY <1>1, HeadFacts DEF AllPlaces
  <2>2. Drops  BY <1>3, <2>1 DEF Drops
  <2>3. alive' = [alive EXCEPT ![c] = alive'[c]] /\ paths' = [paths EXCEPT ![c] = paths'[c]]
    BY <1>1, <1>3, <2>1, Update DEF TypeOK
  <2> QED  BY <1>1, <1>3, <2>2, <2>3, DestroyContinue DEF DestroyKinds
<1> QED  BY <1>1, <1>2, <1>3

LEMMA LastStep ==
    ASSUME IInv, NEW c \in Containers, RemoveLast(c)
    PROVE  IInv'
<1>1. /\ InCall(c) /\ todo[c] # <<>> /\ Head(todo[c]).k = "last"
      /\ StillThere(c) \/ (Gone(c) /\ ~Busy(H(c), D(c)))
      /\ UNCHANGED <<env, proc, alive, made, joined, alone, destroys>>
  BY DEF RemoveLast, AtStep, call
<1> QED  BY <1>1, StillStep, GoneStep DEF DestroyKinds

LEMMA RemovedStep ==
    ASSUME IInv, NEW c \in Containers, Removed(c)
    PROVE  IInv'
<1>1. /\ pc[c] = "destroy" /\ todo[c] = <<>>
      /\ \/ (V2 \/ paths[c] = {}) /\ Return(c, "nil")
         \/ Return(c, "err")
         \/ ~V2 /\ todo' = [todo EXCEPT ![c] = RemoveSteps(c)] /\ UNCHANGED <<pc, result>>
      /\ UNCHANGED <<env, dirs, cpus, proc, alive, paths, made, joined, alone, destroys>>
  BY DEF Removed, kernel, OnlyKernel
<1>2. TypeOK /\ Local(c) /\ Known(c) /\ InCall(c)  BY <1>1 DEF IInv, InCall
<1>3. CASE (V2 \/ paths[c] = {}) /\ Return(c, "nil")
  <2>1. ASSUME NEW h \in joined[c] PROVE Dir(h, Own(c)) \notin dirs
    <3>1. CASE V2
      <4>1. h = "unified"  BY <1>2, <3>1, HandledFacts DEF Local
      <4>2. DOMAIN todo[c] = {}  BY <1>1
      <4>3. ~Removing(c)  BY <4>2 DEF Removing
      <4> QED  BY <1>1, <1>2, <3>1, <4>1, <4>3 DEF Known
    <3>2. CASE paths[c] = {}  BY <1>2, <3>2 DEF Known
    <3> QED  BY <1>3, <3>1, <3>2
  <2> QED  BY <1>1, <1>2, <1>3, <2>1, ReturnStep DEF Results
<1>4. CASE Return(c, "err")  BY <1>1, <1>2, <1>4, ReturnStep DEF Results
<1>5. CASE ~V2 /\ todo' = [todo EXCEPT ![c] = RemoveSteps(c)] /\ UNCHANGED <<pc, result>>
  <2>1. Removal(c, RemoveSteps(c))  BY <1>2, RemoveFits DEF Local
  <2>2. todo'[c] = RemoveSteps(c) /\ todo' = [todo EXCEPT ![c] = todo'[c]]  BY <1>2, <1>5, Update DEF TypeOK
  <2> QED  BY <1>1, <1>5, <2>1, <2>2, DestroyTurn
<1> QED  BY <1>1, <1>3, <1>4, <1>5

-----------------------------------------------------------------------------
(* A call begins: nobody else's is alone any more.                         *)

LEMMA BeginStep ==
    ASSUME IInv, NEW c \in Containers, NEW op \in {"apply", "destroy"}, NEW s \in Seq(StepSet), Begin(c, op, s),
           UNCHANGED <<env, dirs, cpus, proc, alive, paths, made, joined>>,
           destroys' = [destroys EXCEPT ![c] = destroys'[c]], destroys'[c] \in Nat,
           Local(c)', Known(c)', op = "apply" => pc[c] = "new"
    PROVE  IInv'
<1>1. TypeOK /\ Tree /\ Local(c) /\ InPlace(c) /\ Known(c) /\ <<>> \in cpus  BY DEF IInv
<1>2. /\ pc' = [pc EXCEPT ![c] = op] /\ todo' = [todo EXCEPT ![c] = s] /\ result' = [result EXCEPT ![c] = "none"]
      /\ alone' = [x \in Containers |-> x = c /\ \A y \in Containers \ {c} : ~InCall(y)]
  BY DEF Begin
<1>3. pc'[c] = op /\ todo'[c] = s /\ result'[c] = "none"
  BY <1>1, <1>2, Update DEF TypeOK
<1>4. Touch(c)
  <2>1. /\ paths = [paths EXCEPT ![c] = paths[c]] /\ joined = [joined EXCEPT ![c] = joined[c]]
        /\ made = [made EXCEPT ![c] = made[c]] /\ proc = [proc EXCEPT ![c] = proc[c]] /\ alive = [alive EXCEPT ![c] = alive[c]]
    BY <1>1, Update DEF TypeOK
  <2> QED  BY <1>2, <1>3, <2>1 DEF Touch
<1>5. Typed(c)  BY <1>1, <1>3 DEF Typed, TypeOK, PCs, Results
<1>6. Change(c)  BY DEF Change
<1>7. TypeOK'
  <2>1. alone' \in [Containers -> BOOLEAN]  BY <1>2
  <2> QED  BY <1>1, <1>4, <1>5, <1>6, <2>1, TypeKept
<1>8. Tree'  BY <1>1 DEF Tree
<1>9. InPlace(c)'  BY <1>1, InPlaceSelf
<1>10. \A x \in Containers \ {c} : InPlace(x)' /\ Local(x)' /\ Known(x)'  BY <1>4, <1>6, OthersKept
<1>11. \A x \in Containers \ {c} : Same(x)  BY <1>1, <1>4, TouchFacts
<1>12. \A x \in Containers \ {c} : ~alone'[x]  BY <1>2
<1>13. \A x \in Containers \ {c} : Alone(x)' /\ Clean(x)'  BY <1>12 DEF Alone, Clean
<1>14. Alone(c)'
  <2>1. alone'[c] => \A y \in Containers \ {c} : ~InCall(y)  BY <1>2
  <2>2. \A y \in Containers \ {c} : InCall(y)' <=> InCall(y)  BY <1>11 DEF Same, InCall
  <2> QED  BY <2>1, <2>2 DEF Alone
<1>15. Clean(c)'
  <2>1. ASSUME op = "apply" PROVE Making(c)'
    <3>1. made[c] = <<>> /\ joined[c] = {}  BY <1>1, <2>1 DEF Local
    <3>2. DOMAIN made[c] = {}  BY <3>1
    <3> QED  BY <3>1, <3>2 DEF Making, Covered
  <2> QED  BY <1>3, <2>1 DEF Clean
<1> QED  BY <1>1, <1>7, <1>8, <1>9, <1>10, <1>13, <1>14, <1>15 DEF IInv

LEMMA ApplyStarts ==
    ASSUME IInv, NEW c \in Containers, Apply(c)
    PROVE  IInv'
<1>1. /\ pc[c] = "new" /\ Begin(c, "apply", ApplySteps(c))
      /\ UNCHANGED <<env, dirs, cpus, proc, alive, paths, made, joined, destroys>>
  BY DEF Apply, kernel
<1>2. TypeOK /\ Local(c) /\ Known(c) /\ <<>> \in cpus  BY DEF IInv
<1>3. pc'[c] = "apply" /\ todo'[c] = ApplySteps(c)
  BY <1>1, <1>2, Update DEF TypeOK, Begin
<1>4. Local(c)' /\ ApplySteps(c) \in Seq(StepSet)
  BY <1>1, <1>2, <1>3, LocalApply
<1>5. Known(c)'
  <2>1. destroys[c] = 0 /\ joined[c] = {}  BY <1>1, <1>2 DEF Local
  <2> QED  BY <1>1, <1>3, <2>1 DEF Known
<1>6. destroys' = [destroys EXCEPT ![c] = destroys'[c]] /\ destroys'[c] \in Nat
  BY <1>1, <1>2, Update DEF TypeOK
<1> QED  BY <1>1, <1>4, <1>5, <1>6, BeginStep

LEMMA DestroyStarts ==
    ASSUME IInv, NEW c \in Containers, Destroy(c)
    PROVE  IInv'
<1> DEFINE h == subsystems[Len(subsystems)]
           a == IF Systemd THEN <<Step("stop", h, Own(c))>> ELSE <<>>
           s == a \o RemoveSteps(c)
<1>1. /\ pc[c] = "idle" /\ destroys' = [destroys EXCEPT ![c] = destroys[c] + 1] /\ Begin(c, "destroy", s)
      /\ UNCHANGED <<env, dirs, cpus, proc, alive, paths, made, joined>>
  BY DEF Destroy, kernel
<1>2. TypeOK /\ Local(c) /\ Known(c)  BY DEF IInv
<1>3. pc'[c] = "destroy" /\ todo'[c] = s /\ destroys'[c] = destroys[c] + 1 /\ destroys[c] \in Nat
  BY <1>1, <1>2, Update DEF TypeOK, Begin
<1>4. /\ Removal(c, RemoveSteps(c))
      /\ V2 => \E i \in DOMAIN RemoveSteps(c) : RemoveSteps(c)[i].k = "rm"
  BY <1>2, RemoveFits DEF Local
<1>5. Removal(c, a) /\ (env.flavour = "fs" => a = <<>> /\ DOMAIN a = {})
  <2>1. CASE Systemd
    <3>1. subsystems = IF V2 THEN <<"unified">> ELSE <<"cpuset", "memory", "name=systemd">>
      BY <2>1 DEF subsystems, Systemd, V2
    <3>2. h = (IF V2 THEN "unified" ELSE "name=systemd")  BY <3>1
    <3>3. Len(subsystems) \in DOMAIN subsystems  BY <3>1
    <3>4. h \in Handled  BY <3>3 DEF Handled, Range
    <3>5. env.flavour # "fs"  BY <2>1, HandledFacts
    <3> HIDE DEF h
    <3>6. Removal(c, <<Step("stop", h, Own(c))>>)  BY <3>4, RemovalOne DEF DestroyKinds
    <3> QED  BY <2>1, <3>5, <3>6
  <2>2. CASE ~Systemd
    <3>1. a = <<>>  BY <2>2
    <3> HIDE DEF a
    <3> QED  BY <3>1, RemovalEmpty
  <2> QED  BY <2>1, <2>2
<1> HIDE DEF a
<1>6. Removal(c, s)
  <2>1. env.flavour = "fs" => \A i \in DOMAIN a : a[i].h # "memory"  BY <1>5
  <2> QED  BY <1>4, <1>5, <2>1, RemovalConcat
<1>7. V2 => \E i \in DOMAIN s : s[i].k = "rm"
  <2>1. a \in Seq(StepSet) /\ RemoveSteps(c) \in Seq(StepSet)  BY <1>4, <1>5 DEF Removal
  <2>2. \A i \in DOMAIN RemoveSteps(c) : Len(a) + i \in DOMAIN s /\ s[Len(a) + i] = RemoveSteps(c)[i]
    BY <2>1, ConcatFacts
  <2> HIDE DEF s
  <2> QED  BY <1>4, <2>2
<1> HIDE DEF s
<1>8. destroys' = [destroys EXCEPT ![c] = destroys'[c]] /\ destroys'[c] \in Nat /\ destroys'[c] > 0
  <2>1. destroys'[c] \in Nat /\ destroys'[c] > 0  BY <1>3
  <2>2. destroys' = [destroys EXCEPT ![c] = destroys'[c]]  BY <1>1, <1>3
  <2> QED  BY <2>1, <2>2
<1>9. Local(c)'  BY <1>1, <1>2, <1>3, <1>6, <1>8, LocalDestroy
<1>10. Known(c)'
  <2>1. V2 => Removing(c)'  BY <1>3, <1>7 DEF Removing
  <2> QED  BY <1>1, <1>2, <1>3, <2>1, EnvFacts DEF Known
<1>11. s \in Seq(StepSet)  BY <1>6 DEF Removal
<1> QED  BY <1>1, <1>8, <1>9, <1>10, <1>11, BeginStep

-----------------------------------------------------------------------------
(* The container's process.                                                *)

LEMMA ProcessStep ==
    ASSUME IInv, NEW c \in Containers, Touch(c), Typed(c), Change(c),
           UNCHANGED <<env, cpus, paths, pc, todo, made, result, joined, alone, destroys>>,
           InPlace(c)', Known(c)', \A x \in Containers : Clean(x)'
    PROVE  IInv'
<1>1. TypeOK /\ Tree /\ Local(c) /\ <<>> \in cpus /\ \A x \in Containers : Alone(x)  BY DEF IInv
<1>2. TypeOK'
  <2>1. alone' \in [Containers -> BOOLEAN]  BY <1>1 DEF TypeOK
  <2> QED  BY <1>1, <2>1, TypeKept
<1>3. Tree'  BY <1>1, TreeKept DEF Change
<1>4. \A x \in Containers \ {c} : InPlace(x)' /\ Local(x)' /\ Known(x)'  BY OthersKept
<1>5. Local(c)'
  <2>1. (\A i \in DOMAIN todo[c] : Shape(c, todo[c][i]) /\ Phase(pc[c], paths[c], joined[c], todo[c][i]))'
    BY <1>1, EnvFacts DEF Local
  <2> QED  BY <1>1, <2>1, EnvFacts DEF Local, Pending
<1>6. \A x \in Containers : Alone(x)'  BY <1>1 DEF Alone, InCall
<1> QED  BY <1>1, <1>2, <1>3, <1>4, <1>5, <1>6 DEF IInv

LEMMA CleanSame ==
    ASSUME IInv, UNCHANGED <<env, dirs, pc, todo, made, result, joined, alone>>, NEW x \in Containers
    PROVE  Clean(x)'
<1>1. Clean(x)  BY DEF IInv
<1>2. Covered(x)' <=> Covered(x)  BY DEF Covered
<1> QED  BY <1>1, <1>2 DEF Clean, Making, Undoing

LEMMA ExitStep ==
    ASSUME IInv, NEW c \in Containers, Exit(c)
    PROVE  IInv'
<1>1. /\ alive' = [alive EXCEPT ![c] = FALSE]
      /\ UNCHANGED <<env, dirs, cpus, proc, paths, pc, todo, made, result, joined, alone, destroys>>
  BY DEF Exit, call
<1>2. TypeOK /\ InPlace(c) /\ Known(c)  BY DEF IInv
<1>3. alive'[c] = FALSE  BY <1>1, <1>2, Update DEF TypeOK
<1>4. Touch(c)
  <2>1. /\ pc = [pc EXCEPT ![c] = pc[c]] /\ todo = [todo EXCEPT ![c] = todo[c]] /\ result = [result EXCEPT ![c] = result[c]]
        /\ paths = [paths EXCEPT ![c] = paths[c]] /\ destroys = [destroys EXCEPT ![c] = destroys[c]]
        /\ joined = [joined EXCEPT ![c] = joined[c]] /\ made = [made EXCEPT ![c] = made[c]] /\ proc = [proc EXCEPT ![c] = proc[c]]
    BY <1>2, Update DEF TypeOK
  <2> QED  BY <1>1, <1>3, <2>1 DEF Touch
<1>5. Typed(c)  BY <1>1, <1>2, <1>3 DEF Typed, TypeOK
<1>6. InPlace(c)'  BY <1>1, <1>2, <1>3, InPlaceSelf
<1>7. Known(c)'  BY <1>1, <1>2, EnvFacts DEF Known, Removing
<1>8. \A x \in Containers : Clean(x)'  BY <1>1, CleanSame
<1>9. Change(c)  BY <1>1 DEF Change
<1> QED  BY <1>1, <1>4, <1>5, <1>6, <1>7, <1>8, <1>9, ProcessStep

LEMMA EnterStep ==
    ASSUME IInv, NEW c \in Containers, EnterSub(c)
    PROVE  IInv'
<1>1. PICK h \in joined[c] : Exists(h, Sub(c)) /\ proc' = [proc EXCEPT ![c] = [proc[c] EXCEPT ![h] = Sub(c)]]
  BY DEF EnterSub
<1>2. UNCHANGED <<env, dirs, cpus, alive, paths, pc, todo, made, result, joined, alone, destroys>>
  BY DEF EnterSub, call
<1>3. TypeOK /\ InPlace(c) /\ Known(c)  BY DEF IInv
<1>4. h \in Hierarchies /\ proc[c] \in [Hierarchies -> AllPlaces]  BY <1>3 DEF TypeOK
<1>5. proc'[c] = [proc[c] EXCEPT ![h] = Sub(c)]  BY <1>1, <1>3, Update DEF TypeOK
<1>6. /\ proc'[c] \in [Hierarchies -> AllPlaces] /\ proc'[c][h] = Sub(c)
      /\ \A g \in Hierarchies \ {h} : proc'[c][g] = proc[c][g]
  <2>1. Sub(c) \in AllPlaces  BY DEF AllPlaces
  <2> QED  BY <1>4, <1>5, <2>1
<1>7. Touch(c)
  <2>1. /\ pc = [pc EXCEPT ![c] = pc[c]] /\ todo = [todo EXCEPT ![c] = todo[c]] /\ result = [result EXCEPT ![c] = result[c]]
        /\ paths = [paths EXCEPT ![c] = paths[c]] /\ destroys = [destroys EXCEPT ![c] = destroys[c]]
        /\ joined = [joined EXCEPT ![c] = joined[c]] /\ made = [made EXCEPT ![c] = made[c]] /\ alive = [alive EXCEPT ![c] = alive[c]]
    BY <1>3, Update DEF TypeOK
  <2> QED  BY <1>1, <1>2, <1>5, <2>1 DEF Touch
<1>8. Typed(c)  BY <1>2, <1>3, <1>6 DEF Typed, TypeOK
<1>9. Dir(h, Sub(c)) \in dirs  BY <1>1, Distinct DEF Exists
<1>10. InPlace(c)'
  <2>0. alive[c] /\ ~env.noPid  BY <1>3 DEF EnterSub, InPlace
  <2> SUFFICES ASSUME NEW g \in Hierarchies
               PROVE  /\ proc'[c][g] \in {<<>>, Own(c), Sub(c)}
                      /\ proc'[c][g] # <<>> <=> g \in joined'[c]
                      /\ alive'[c] /\ g \in joined'[c] => Dir(g, proc'[c][g]) \in dirs'
    BY <1>2, <2>0 DEF InPlace
  <2>1. CASE g = h  BY <1>2, <1>6, <1>9, <2>1, Distinct
  <2>2. CASE g # h  BY <1>2, <1>3, <1>6, <2>0, <2>2 DEF InPlace
  <2> QED  BY <2>1, <2>2
<1>11. Known(c)'  BY <1>2, <1>3, EnvFacts DEF Known, Removing
<1>12. \A x \in Containers : Clean(x)'  BY <1>2, CleanSame
<1>13. Change(c)  BY <1>2 DEF Change
<1> QED  BY <1>2, <1>7, <1>8, <1>10, <1>11, <1>12, <1>13, ProcessStep

(* A new sub-cgroup is below nothing that a manager that is alone made.    *)
LEMMA MakeStep ==
    ASSUME IInv, NEW c \in Containers, MakeSub(c)
    PROVE  IInv'
<1>1. PICK h \in joined[c] : proc[c][h] = Own(c) /\ dirs' = dirs \cup {Dir(h, Sub(c))}
  BY DEF MakeSub
<1>2. /\ UNCHANGED <<env, cpus, proc, alive, paths, pc, todo, made, result, joined, alone, destroys>>
      /\ alive[c] /\ pc[c] \in {"idle", "destroy"}
  BY DEF MakeSub, call
<1>3. TypeOK /\ InPlace(c) /\ Known(c)  BY DEF IInv
<1>4. h \in Hierarchies /\ Dir(h, Own(c)) \in dirs  BY <1>1, <1>2, <1>3 DEF TypeOK, InPlace
<1>5. Touch(c)
  <2>1. /\ pc = [pc EXCEPT ![c] = pc[c]] /\ todo = [todo EXCEPT ![c] = todo[c]] /\ result = [result EXCEPT ![c] = result[c]]
        /\ paths = [paths EXCEPT ![c] = paths[c]] /\ destroys = [destroys EXCEPT ![c] = destroys[c]] /\ proc = [proc EXCEPT ![c] = proc[c]]
        /\ joined = [joined EXCEPT ![c] = joined[c]] /\ made = [made EXCEPT ![c] = made[c]] /\ alive = [alive EXCEPT ![c] = alive[c]]
    BY <1>3, Update DEF TypeOK
  <2> QED  BY <1>2, <2>1 DEF Touch
<1>6. Typed(c)  BY <1>2, <1>3 DEF Typed, TypeOK
<1>7. Change(c)  BY <1>1, <1>4 DEF Change, AddsSub
<1>8. InPlace(c)'  BY <1>1, <1>2, <1>3, InPlaceSelf
<1>9. Known(c)'
  <2>1. \A g : Dir(g, Own(c)) \in dirs' <=> Dir(g, Own(c)) \in dirs  BY <1>1, Distinct, DirFacts
  <2>2. Removing(c)' <=> Removing(c)  BY <1>2 DEF Removing
  <2> QED  BY <1>2, <1>3, <2>1, <2>2, EnvFacts DEF Known
<1>10. ASSUME NEW x \in Containers PROVE Clean(x)'
  <2>1. Local(x) /\ Clean(x)  BY DEF IInv
  <2>2. \A i \in DOMAIN made[x] : made[x][i] \in Places(x) /\ made[x][i] # Sub(c)
    BY <2>1, Distinct DEF Local, Places
  <2>3. \A i \in DOMAIN made[x] : Dir("unified", made[x][i]) \in dirs' <=> Dir("unified", made[x][i]) \in dirs
    BY <1>1, <2>2, DirFacts
  <2>4. ASSUME Covered(x), x # c PROVE Covered(x)'
    <3> SUFFICES ASSUME NEW e \in dirs', NEW i \in DOMAIN made[x], e[1] = "unified", Under(e[2], made[x][i])
                 PROVE  \E j \in DOMAIN made[x] : made[x][j] = e[2]
      BY <1>2 DEF Covered, Under
    <3>1. CASE e \in dirs  BY <2>4, <3>1 DEF Covered
    <3>2. CASE e = Dir(h, Sub(c))
      <4>1. h = "unified" /\ e[2] = Sub(c)  BY <3>2 DEF Dir
      <4>2. made[x][i] \in {Top, Mid}  BY <2>2, <2>4, <4>1, UnderFacts DEF Places
      <4>3. Under(Own(c), made[x][i])  BY <4>2, UnderFacts
      <4>4. Dir(h, Own(c))[1] = "unified" /\ Dir(h, Own(c))[2] = Own(c)  BY <4>1 DEF Dir
      <4>5. PICK j \in DOMAIN made[x] : made[x][j] = Own(c)  BY <1>4, <2>4, <4>3, <4>4 DEF Covered
      <4>6. Own(c) \in Places(x)  BY <2>2, <4>5
      <4> QED  BY <2>4, <4>6, PathFacts, Distinct DEF Places
    <3> QED  BY <1>1, <3>1, <3>2
  <2>5. (\A d \in Places(x) : Dir("unified", d) \in dirs)' <=> \A d \in Places(x) : Dir("unified", d) \in dirs'
    BY DEF Places, Dir, Own, Top, Mid
  <2>6. x # c /\ Making(x) => Making(x)'  BY <1>1, <1>2, <2>4, <2>5 DEF Making
  <2>7. x # c /\ Undoing(x) => Undoing(x)'  BY <1>2, <2>3, <2>4 DEF Undoing
  <2> QED  BY <1>2, <2>1, <2>3, <2>6, <2>7 DEF Clean
<1> QED  BY <1>2, <1>5, <1>6, <1>7, <1>8, <1>9, <1>10, ProcessStep

-----------------------------------------------------------------------------
(* The invariant.                                                          *)

LEMMA InitFits == Init => IInv
<1> SUFFICES ASSUME Init PROVE IInv  OBVIOUS
<1>1. /\ dirs = {Dir(h, Top) : h \in IF env.parent = "none" THEN {} ELSE Handled}
      /\ cpus = {<<>>}
      /\ proc = [c \in Containers |-> [h \in Hierarchies |-> <<>>]]
      /\ alive = [c \in Containers |-> ~env.noPid] /\ paths = [c \in Containers |-> Handled]
      /\ pc = [c \in Containers |-> "new"] /\ todo = [c \in Containers |-> <<>>]
      /\ made = [c \in Containers |-> <<>>] /\ result = [c \in Containers |-> "none"]
      /\ joined = [c \in Containers |-> {}] /\ alone = [c \in Containers |-> TRUE]
      /\ destroys = [c \in Containers |-> 0]
  BY DEF Init, Top, Handled
<1>2. \A e \in dirs : \E h \in Handled : e = Dir(h, Top)  BY <1>1
<1>3. TypeOK
  <2>1. dirs \subseteq (Hierarchies \X AllPlaces)
    <3>1. \A h \in Hierarchies : Dir(h, Top) \in Hierarchies \X AllPlaces  BY DEF Dir, AllPlaces
    <3> QED  BY <1>2, <3>1, HandledFacts
  <2>2. <<>> \in Seq(StepSet) /\ <<>> \in Seq(AllPlaces)  BY EmptySeq
  <2>3. <<>> \in AllPlaces  BY DEF AllPlaces
  <2> HIDE DEF AllPlaces, StepSet
  <2>4. todo \in [Containers -> Seq(StepSet)] /\ made \in [Containers -> Seq(AllPlaces)]  BY <1>1, <2>2
  <2>5. proc \in [Containers -> [Hierarchies -> AllPlaces]]  BY <1>1, <2>3
  <2>6. paths \in [Containers -> SUBSET Hierarchies] /\ joined \in [Containers -> SUBSET Hierarchies]
    BY <1>1, HandledFacts
  <2>7. /\ alive \in [Containers -> BOOLEAN] /\ alone \in [Containers -> BOOLEAN] /\ destroys \in [Containers -> Nat]
        /\ pc \in [Containers -> PCs] /\ result \in [Containers -> Results]
    BY <1>1 DEF PCs, Results
  <2> QED  BY <2>1, <2>4, <2>5, <2>6, <2>7 DEF TypeOK
<1>4. Tree
  BY <1>2, Distinct, DirFacts DEF Tree
<1>5. ASSUME NEW c \in Containers PROVE InPlace(c) /\ Local(c) /\ Known(c) /\ Alone(c) /\ Clean(c)
  <2>1. /\ proc[c] = [h \in Hierarchies |-> <<>>] /\ alive[c] = ~env.noPid /\ paths[c] = Handled /\ pc[c] = "new" /\ todo[c] = <<>> /\ made[c] = <<>>
        /\ joined[c] = {} /\ destroys[c] = 0
    BY <1>1
  <2>2. DOMAIN todo[c] = {} /\ DOMAIN made[c] = {}  BY <2>1
  <2>3. InPlace(c)  BY <2>1 DEF InPlace
  <2>4. Local(c)  BY <2>1, <2>2 DEF Local, Ordered, Ready
  <2>5. Known(c) /\ Alone(c) /\ Clean(c)  BY <2>1 DEF Known, Alone, Clean
  <2> QED  BY <2>3, <2>4, <2>5
<1> QED  BY <1>1, <1>3, <1>4, <1>5 DEF IInv

LEMMA NextFits == IInv /\ [Next]_vars => IInv'
<1> SUFFICES ASSUME IInv, [Next]_vars PROVE IInv'  OBVIOUS
<1>1. ASSUME NEW c \in Containers, ApplyStep(c) PROVE IInv'
  BY <1>1, FailStep, MkdirStep, CopyStep, CpusStep, JoinStep, StartStep, ControllersStep, CreateStep, TypeStep,
     RemoveMadeStep, CreateFailedStep, ChownStep, AppliedStep DEF ApplyStep
<1>2. ASSUME NEW c \in Containers, DestroyStep(c) PROVE IInv'
  BY <1>2, StopStep, StopFailsStep, FastStep, ReadStep, SubStep, LastStep, RemovedStep DEF DestroyStep
<1>3. ASSUME NEW c \in Containers, Apply(c) PROVE IInv'
  BY <1>3, ApplyStarts
<1>4. ASSUME NEW c \in Containers, Destroy(c) \/ MakeSub(c) \/ EnterSub(c) \/ Exit(c) PROVE IInv'
  BY <1>4, DestroyStarts, MakeStep, EnterStep, ExitStep
<1>5. CASE Finished \/ UNCHANGED vars
  BY <1>5, Stutter DEF Finished, vars
<1> QED  BY <1>1, <1>2, <1>3, <1>4, <1>5 DEF Next, Work

(* The invariant of every behaviour of the managers: what each call has    *)
(* left to do fits what it has done and what is in the tree.               *)
THEOREM Invariance == Spec => []IInv
BY InitFits, NextFits, PTL DEF Spec

(* Apply that returns nil has put the process into its cgroup in every     *)
(* hierarchy of the manager, and there it is, in a directory that exists,  *)
(* until it moves or exits, whatever the managers of other containers did  *)
(* in between; but for the three cases the property names: what a rootless *)
(* fs manager has given up and forgotten, the rootless fs2 manager that    *)
(* goes without a cgroup, and pid -1, for which nothing is moved.          *)
THEOREM JoinsEverywhere == Spec => []JoinedEverywhere
<1>1. IInv => JoinedEverywhere
  <2> SUFFICES ASSUME IInv, NEW c \in Containers, pc[c] = "idle", result[c] = "nil", destroys[c] = 0
               PROVE  /\ \/ joined[c] = Range(subsystems)
                         \/ env.flavour = "fs" /\ env.rootless /\ paths[c] \subseteq joined[c]
                         \/ MayGoWithout /\ joined[c] = {}
                      /\ IF env.noPid THEN \A h \in Hierarchies : proc[c][h] = <<>>
                         ELSE alive[c] => \A h \in joined[c] : proc[c][h] \in {Own(c), Sub(c)} /\ Exists(h, proc[c][h])
    BY DEF JoinedEverywhere
  <2>1. TypeOK /\ Local(c) /\ InPlace(c)  BY DEF IInv
  <2>2. joined[c] = Handled \/ (GivesUp /\ paths[c] \subseteq joined[c]) \/ (MayGoWithout /\ joined[c] = {})
    BY <2>1 DEF Local
  <2>3. \A h \in joined[c] : h \in Hierarchies  BY <2>1 DEF TypeOK
  <2>4. ~env.noPid /\ alive[c] => \A h \in joined[c] : proc[c][h] \in {Own(c), Sub(c)} /\ Dir(h, proc[c][h]) \in dirs
    BY <2>1, <2>3 DEF InPlace
  <2>5. env.noPid => \A h \in Hierarchies : proc[c][h] = <<>>
    BY <2>1 DEF InPlace
  <2> QED  BY <2>2, <2>4, <2>5 DEF Handled, Exists, GivesUp
<1> QED  BY <1>1, Invariance, PTL

(* m.paths still has every cgroup the container was put in that exists, so *)
(* that Destroy can be called again; and a Destroy that returned nil has   *)
(* left neither the cgroup nor a sub-cgroup of it.                         *)
THEOREM NothingForgotten == Spec => []NoForgottenCgroup
<1>1. IInv => NoForgottenCgroup
  <2> SUFFICES ASSUME IInv, NEW c \in Containers, NEW h \in joined[c]
               PROVE  /\ Exists(h, Own(c)) => h \in paths[c]
                      /\ pc[c] = "idle" /\ result[c] = "nil" /\ destroys[c] > 0 => ~Exists(h, Own(c)) /\ ~Exists(h, Sub(c))
    BY DEF NoForgottenCgroup
  <2>1. TypeOK /\ Tree /\ Known(c)  BY DEF IInv
  <2>2. h \in Hierarchies  BY <2>1 DEF TypeOK
  <2>3. Dir(h, Sub(c)) \in dirs => Dir(h, Own(c)) \in dirs  BY <2>1, <2>2 DEF Tree
  <2> QED  BY <2>1, <2>3, Distinct DEF Exists, Known
<1> QED  BY <1>1, Invariance, PTL

(* CreateCgroupPath that fails removes every directory it made: the        *)
(* deferred functions run deepest first, and while no other call is under  *)
(* way nothing keeps a directory from being removed.                       *)
THEOREM FailureIsClean == Spec => []CleanFailure
<1>1. IInv => CleanFailure
  <2> SUFFICES ASSUME IInv, NEW c \in Containers, pc[c] = "undo", todo[c] = <<>>, alone[c], NEW i \in DOMAIN made[c]
               PROVE  ~Exists("unified", made[c][i])
    BY DEF CleanFailure
  <2>1. Local(c) /\ Undoing(c)  BY DEF IInv, Clean
  <2>2. made[c][i] # <<>>  BY <2>1, Distinct DEF Local, Places
  <2>3. DOMAIN todo[c] = {}  OBVIOUS
  <2>4. Dir("unified", made[c][i]) \notin dirs  BY <2>1, <2>3 DEF Undoing
  <2> QED  BY <2>2, <2>4 DEF Exists
<1> QED  BY <1>1, Invariance, PTL

(* cpusetCopyIfNeeded has filled every level down to the container's own   *)
(* cpuset before its process is moved there, whichever manager made the    *)
(* shared parents.                                                         *)
THEOREM CpusetIsReady == Spec => []CpusetReady
<1>1. IInv => CpusetReady
  <2> SUFFICES ASSUME IInv, NEW c \in Containers, AtStep(c, "join"), H(c) = "cpuset" PROVE D(c) \in cpus
    BY DEF CpusetReady
  <2>1. InCall(c) /\ todo[c] # <<>> /\ Head(todo[c]).k = "join"  BY DEF AtStep
  <2>2. Local(c) /\ Shape(c, Head(todo[c])) /\ Head(todo[c]) = todo[c][1] /\ 1 \in DOMAIN todo[c]  BY <2>1, HeadFacts
  <2>3. D(c) = Own(c)  BY <2>1, <2>2 DEF Shape, D
  <2>4. Own(c) \in cpus \/ CopyBefore(todo[c], 1, Own(c))  BY <2>1, <2>2 DEF Local, Ready, H
  <2>5. ~CopyBefore(todo[c], 1, Own(c))  BY DEF CopyBefore
  <2> QED  BY <2>3, <2>4, <2>5
<1> QED  BY <1>1, Invariance, PTL
=============================================================================
