---------------------------- MODULE SpecConvProofs ----------------------------
(***************************************************************************)
(* Proofs about the conversion of documents, for any number of calls, any  *)
(* documents and any host, and, in the second half, about the seccomp      *)
(* profile a document may have, for any profile and system call table.     *)
(***************************************************************************)
EXTENDS SpecConv, Seccomp, SequenceTheorems, FiniteSetTheorems, WellFoundedInduction, TLAPS

-----------------------------------------------------------------------------
(* Ids.                                                                    *)

(* The first mapping that holds an id exists as soon as one does.          *)
LEMMA LeastExists ==
    ASSUME NEW S \in SUBSET Nat, S # {}
    PROVE  \E i \in S : \A j \in S : i <= j
<1>1. IsWellFoundedOn(OpToRel(<, Nat), Nat)
  BY NatLessThanWellFounded
<1>2. PICK i \in S : \A j \in S : ~(<<j, i>> \in OpToRel(<, Nat))
  BY <1>1, WFMin
<1>3. \A j \in S : ~(j < i)
  BY <1>2 DEF OpToRel
<1> QED  BY <1>3

(* hostIDFromMapping: the id of an error, or one the mappings give.        *)
LEMMA MappedID ==
    ASSUME NEW uMap \in Seq(IDMap), NEW id \in Nat
    PROVE  hostIDFromMapping(id, uMap) \in HostIDs(uMap, id) \cup {NoID}
<1> DEFINE hits == {i \in DOMAIN uMap : id >= uMap[i].c /\ id <= uMap[i].c + uMap[i].n - 1}
           first == CHOOSE i \in hits : \A j \in hits : i <= j
<1>1. CASE hits = {}
  BY <1>1 DEF hostIDFromMapping
<1>2. CASE hits # {}
  <2>1. hits \in SUBSET Nat
    OBVIOUS
  <2>2. \E i \in hits : \A j \in hits : i <= j
    BY <1>2, <2>1, LeastExists
  <2>3. first \in hits
    BY <2>2
  <2> DEFINE m == uMap[first]
  <2>4. m \in IDMap /\ m \in Rng(uMap) /\ id >= m.c /\ id <= m.c + m.n - 1
    <3>1. first \in DOMAIN uMap /\ id >= uMap[first].c /\ id <= uMap[first].c + uMap[first].n - 1
      BY <2>3
    <3> HIDE DEF first, hits
    <3>2. DOMAIN uMap = 1..Len(uMap) /\ uMap[first] \in IDMap
      BY <3>1
    <3> QED  BY <3>1, <3>2 DEF Rng
  <2>5. hostIDFromMapping(id, uMap) = m.h + (id - m.c)
    BY <1>2 DEF hostIDFromMapping
  <2> HIDE DEF m, first, hits
  <2>6. id \in m.c..(m.c + m.n - 1) /\ m.h + (id - m.c) = m.h + id - m.c
    BY <2>4 DEF IDMap
  <2>7. m.h + id - m.c \in HostIDs(uMap, id)
    BY <2>4, <2>6 DEF HostIDs
  <2> QED  BY <2>5, <2>6, <2>7
<1> QED  BY <1>1, <1>2

-----------------------------------------------------------------------------
(* The invariant.                                                          *)

PCs == {"mounts", "devices", "cgroup", "namespaces", "userns", "seccomp", "owner", "validate",
        "accepted", "refused", "panicked"}
Fields == {"mounts", "devices", "rules", "res", "place", "props", "namespaces", "networks",
           "uidMap", "gidMap", "owner"}

Shape ==
    /\ pc \in [Calls -> PCs] /\ spec \in [Calls -> Specs]
    /\ config = [k \in Calls |-> config[k]] /\ \A k \in Calls : DOMAIN config[k] = Fields

(* Only a document with a Linux part comes to the namespaces, and nothing  *)
(* of them is set before.                                                  *)
NothingYet(k) ==
    /\ pc[k] \in {"namespaces", "userns", "seccomp"} => spec[k].linux
    /\ pc[k] \in {"mounts", "devices", "cgroup", "namespaces"} => config[k].namespaces = <<>>
    /\ pc[k] = "userns" => HasNs(config[k], "user")
    /\ pc[k] \notin {"validate", "accepted", "refused", "panicked"} => config[k].owner = NoID

(* The configuration has the user namespace of the document.               *)
SameUserns(k) ==
    pc[k] \in {"userns", "seccomp", "owner", "validate", "accepted"} =>
        /\ HasNs(config[k], "user") <=> HasUserns(spec[k])
        /\ HasUserns(spec[k]) => UsernsPath(spec[k]) = {PathOf(config[k], "user")}

(* From setupUserNamespace on the mappings are those of the namespace.     *)
MappingsSet(k) ==
    pc[k] \in {"seccomp", "owner", "validate", "accepted"} /\ HasUserns(spec[k]) =>
        /\ config[k].uidMap = InForce(spec[k]).uid /\ config[k].gidMap = InForce(spec[k]).gid
        /\ spec[k].uidMap # <<>> \/ spec[k].gidMap # <<>> =>
              spec[k].uidMap = InForce(spec[k]).uid /\ spec[k].gidMap = InForce(spec[k]).gid
        /\ InForce(spec[k]).uid \in Seq(IDMap)

OwnerMapped(k) ==
    pc[k] \in {"validate", "accepted"} /\ config[k].owner # NoID =>
        config[k].owner \in IF HasUserns(spec[k]) THEN HostIDs(InForce(spec[k]).uid, spec[k].uid) ELSE {spec[k].uid}

CallInv(k) == NothingYet(k) /\ SameUserns(k) /\ MappingsSet(k) /\ OwnerMapped(k)

MapInv == Shape /\ \A k \in Calls : CallInv(k)

LEMMA InitMapInv == Init => MapInv
<1> SUFFICES ASSUME Init PROVE MapInv
  OBVIOUS
<1>1. Shape
  BY DEF Init, Shape, PCs, Fields, EmptyConfig
<1>2. ASSUME NEW k \in Calls
      PROVE  CallInv(k)
  <2>1. pc[k] = "mounts" /\ config[k] = EmptyConfig
    BY DEF Init
  <2>2. config[k].namespaces = <<>> /\ config[k].owner = NoID
    BY <2>1 DEF EmptyConfig
  <2> QED  BY <2>1, <2>2 DEF CallInv, NothingYet, SameUserns, MappingsSet, OwnerMapped
<1> QED  BY <1>1, <1>2 DEF MapInv

(* A step of one call leaves the others and their documents alone.         *)
LEMMA OthersKept ==
    ASSUME MapInv, NEW k \in Calls, NEW to \in PCs, NEW c, DOMAIN c = Fields,
           pc' = [pc EXCEPT ![k] = to], config' = [config EXCEPT ![k] = c], spec' = spec,
           CallInv(k)'
    PROVE  MapInv'
<1>1. Shape'
  BY DEF MapInv, Shape
<1>2. ASSUME NEW j \in Calls, j # k
      PROVE  CallInv(j)'
  <2>1. pc'[j] = pc[j] /\ config'[j] = config[j] /\ spec'[j] = spec[j]
    BY <1>2 DEF MapInv, Shape
  <2>2. CallInv(j)
    BY DEF MapInv
  <2> QED  BY <2>1, <2>2 DEF CallInv, NothingYet, SameUserns, MappingsSet, OwnerMapped, HasNs, PathOf
<1> QED  BY <1>1, <1>2 DEF MapInv

(* A call that ends without a configuration has nothing to show.           *)
LEMMA StoppedKeepsMapInv ==
    ASSUME MapInv, NEW k \in Calls, NEW to \in {"refused", "panicked"},
           pc' = [pc EXCEPT ![k] = to], UNCHANGED <<spec, config>>
    PROVE  MapInv'
<1>1. pc'[k] = to /\ DOMAIN config[k] = Fields /\ config' = [config EXCEPT ![k] = config[k]]
  BY DEF MapInv, Shape
<1>2. CallInv(k)'
  BY <1>1 DEF CallInv, NothingYet, SameUserns, MappingsSet, OwnerMapped
<1>3. to \in PCs
  BY DEF PCs
<1> QED  BY <1>1, <1>2, <1>3, OthersKept

(* A step that changes neither the namespaces, the mappings nor the owner  *)
(* and goes on from where they matter no less.                             *)
LEMMA GoOn ==
    ASSUME MapInv, NEW k \in Calls, NEW to \in PCs, NEW c, DOMAIN c = Fields, Go(k, to, c),
           CallInv(k)'
    PROVE  MapInv'
BY OthersKept DEF Go

LEMMA RefuseKeeps ==
    ASSUME MapInv, NEW k \in Calls, Refuse(k)
    PROVE  MapInv'
BY StoppedKeepsMapInv DEF Refuse

LEMMA MountsMapInv ==
    ASSUME MapInv, NEW k \in Calls, CreateMounts(k)
    PROVE  MapInv'
<1>1. CASE Refuse(k)
  BY <1>1, RefuseKeeps
<1>2. CASE ~Refuse(k)
  <2> DEFINE mounts == [i \in DOMAIN spec[k].mounts |-> createLibcontainerMount(spec[k].mounts[i])]
             c == [config[k] EXCEPT !.mounts = mounts]
  <2>1. pc[k] = "mounts" /\ Go(k, "devices", c)
    BY <1>2 DEF CreateMounts
  <2> HIDE DEF mounts
  <2>2. DOMAIN config[k] = Fields /\ CallInv(k)
    BY DEF MapInv, Shape
  <2>3. DOMAIN c = Fields /\ c.namespaces = config[k].namespaces /\ c.owner = config[k].owner
    BY <2>2 DEF Fields
  <2>4. pc'[k] = "devices" /\ config'[k] = c /\ spec'[k] = spec[k]
    BY <2>1 DEF Go, MapInv, Shape
  <2> HIDE DEF c
  <2>5. CallInv(k)'
    BY <2>1, <2>2, <2>3, <2>4 DEF CallInv, NothingYet, SameUserns, MappingsSet, OwnerMapped
  <2>6. "devices" \in PCs
    BY DEF PCs
  <2> QED  BY <2>1, <2>3, <2>5, <2>6, GoOn
<1> QED  BY <1>1, <1>2

LEMMA DevicesMapInv ==
    ASSUME MapInv, NEW k \in Calls, createDevices(k)
    PROVE  MapInv'
<1>1. CASE Refuse(k)
  BY <1>1, RefuseKeeps
<1>2. CASE ~Refuse(k)
  <2> DEFINE devices == DeviceNodes(spec[k])
             c == [config[k] EXCEPT !.devices = devices]
  <2>1. pc[k] = "devices" /\ Go(k, "cgroup", c)
    BY <1>2 DEF createDevices
  <2> HIDE DEF devices
  <2>2. DOMAIN config[k] = Fields /\ CallInv(k)
    BY DEF MapInv, Shape
  <2>3. DOMAIN c = Fields /\ c.namespaces = config[k].namespaces /\ c.owner = config[k].owner
    BY <2>2 DEF Fields
  <2>4. pc'[k] = "cgroup" /\ config'[k] = c /\ spec'[k] = spec[k]
    BY <2>1 DEF Go, MapInv, Shape
  <2> HIDE DEF c
  <2>5. CallInv(k)'
    BY <2>1, <2>2, <2>3, <2>4 DEF CallInv, NothingYet, SameUserns, MappingsSet, OwnerMapped
  <2>6. "cgroup" \in PCs
    BY DEF PCs
  <2> QED  BY <2>1, <2>3, <2>5, <2>6, GoOn
<1> QED  BY <1>1, <1>2

(* Without a Linux part there is no user namespace.                        *)
LEMMA CgroupMapInv ==
    ASSUME MapInv, NEW k \in Calls, CreateCgroupConfig(k)
    PROVE  MapInv'
<1>1. CASE Refuse(k)
  BY <1>1, RefuseKeeps
<1>2. CASE ~Refuse(k)
  <2> DEFINE s == spec[k]
             to == IF s.linux THEN "namespaces" ELSE "owner"
             rules == CgroupRules(s)
             res == Resources(s)
             place == CgroupPlace(s)
             props == IF s.systemd THEN {SystemdProp(a) : a \in s.annots} ELSE {}
             c == [config[k] EXCEPT !.rules = rules, !.res = res, !.place = place, !.props = props]
  <2>1. pc[k] = "cgroup" /\ Go(k, to, c)
    BY <1>2 DEF CreateCgroupConfig
  <2> HIDE DEF rules, res, place, props
  <2>2. DOMAIN config[k] = Fields /\ CallInv(k) /\ s \in Specs
    BY DEF MapInv, Shape
  <2>3. DOMAIN c = Fields /\ c.namespaces = config[k].namespaces /\ c.owner = config[k].owner
    BY <2>2 DEF Fields
  <2>4. pc'[k] = to /\ config'[k] = c /\ spec'[k] = s
    BY <2>1 DEF Go, MapInv, Shape
  <2>5. s.linux \in BOOLEAN
    BY <2>2, SpecAssumption
  <2> HIDE DEF c, s
  <2>6. c.namespaces = <<>> /\ c.owner = NoID
    BY <2>1, <2>2, <2>3 DEF CallInv, NothingYet, s
  <2>7. ~s.linux => ~HasNs(c, "user") /\ ~HasUserns(s)
    BY <2>6 DEF HasNs, HasUserns
  <2>8. NothingYet(k)'
    BY <2>4, <2>5, <2>6 DEF NothingYet
  <2>9. SameUserns(k)' /\ MappingsSet(k)' /\ OwnerMapped(k)'
    BY <2>4, <2>5, <2>7 DEF SameUserns, MappingsSet, OwnerMapped
  <2>10. CallInv(k)' /\ to \in PCs
    BY <2>8, <2>9 DEF CallInv, PCs
  <2> QED  BY <2>1, <2>3, <2>10, GoOn
<1> QED  BY <1>1, <1>2

LEMMA PanicMapInv ==
    ASSUME MapInv, NEW k \in Calls, Panic(k)
    PROVE  MapInv'
BY StoppedKeepsMapInv DEF Panic

(* No type is given twice: the path of the user namespace is the one of    *)
(* the document.                                                           *)
LEMMA OneOfEachType ==
    ASSUME NEW nss, \A i, j \in DOMAIN nss : i # j => nss[i][1] # nss[j][1],
           NEW t, t \in {ns[1] : ns \in Rng(nss)}
    PROVE  {ns[2] : ns \in {n \in Rng(nss) : n[1] = t}} = {(CHOOSE ns \in Rng(nss) : ns[1] = t)[2]}
<1>1. PICK ns \in Rng(nss) : ns[1] = t
  OBVIOUS
<1>2. \A m \in Rng(nss) : m[1] = t => m = ns
  BY <1>1 DEF Rng
<1>3. (CHOOSE m \in Rng(nss) : m[1] = t) = ns
  BY <1>1, <1>2
<1>4. {n \in Rng(nss) : n[1] = t} = {ns}
  BY <1>1, <1>2
<1> QED  BY <1>3, <1>4

LEMMA NamespacesMapInv ==
    ASSUME MapInv, NEW k \in Calls, CreateNamespaces(k)
    PROVE  MapInv'
<1>1. CASE Refuse(k)
  BY <1>1, RefuseKeeps
<1>2. CASE ~Refuse(k)
  <2> DEFINE s == spec[k]
             types == {ns[1] : ns \in Rng(s.namespaces)}
             paths == [t \in types |-> (CHOOSE ns \in Rng(s.namespaces) : ns[1] = t)[2]]
             networks == "network" \in types /\ paths["network"] = ""
             to == IF "user" \in types THEN "userns" ELSE "seccomp"
             c == [config[k] EXCEPT !.namespaces = paths, !.networks = networks]
  <2>1. pc[k] = "namespaces" /\ Go(k, to, c)
    BY <1>2 DEF CreateNamespaces
  <2>2. \A i, j \in DOMAIN s.namespaces : i # j => s.namespaces[i][1] # s.namespaces[j][1]
    BY <1>2 DEF CreateNamespaces
  <2> HIDE DEF networks
  <2>3. DOMAIN config[k] = Fields /\ CallInv(k)
    BY DEF MapInv, Shape
  <2> HIDE DEF s, types, paths
  <2>4. DOMAIN c = Fields /\ c.namespaces = paths /\ c.owner = config[k].owner
    BY <2>3 DEF Fields
  <2>5. pc'[k] = to /\ config'[k] = c /\ spec'[k] = s
    BY <2>1 DEF Go, MapInv, Shape, s
  <2>6. s.linux /\ c.owner = NoID
    BY <2>1, <2>3, <2>4 DEF CallInv, NothingYet, s
  <2> HIDE DEF c
  <2>7. HasNs(c, "user") <=> "user" \in types
    BY <2>4 DEF HasNs, paths
  <2>8. "user" \in types => UsernsPath(s) = {PathOf(c, "user")}
    <3>1. "user" \in types => UsernsPath(s) = {paths["user"]}
      BY <2>2, OneOfEachType DEF UsernsPath, types, paths
    <3> QED  BY <2>4, <2>7, <3>1 DEF PathOf
  <2>9. "user" \in types <=> HasUserns(s)
    BY <2>6, <2>8 DEF HasUserns, UsernsPath, types
  <2>10. NothingYet(k)'
    BY <2>5, <2>6, <2>7 DEF NothingYet
  <2>11. SameUserns(k)'
    BY <2>5, <2>7, <2>8, <2>9 DEF SameUserns
  <2>12. MappingsSet(k)' /\ OwnerMapped(k)'
    BY <2>5, <2>9 DEF MappingsSet, OwnerMapped
  <2>13. CallInv(k)' /\ to \in PCs
    BY <2>10, <2>11, <2>12 DEF CallInv, PCs
  <2> QED  BY <2>1, <2>4, <2>13, GoOn
<1> QED  BY <1>1, <1>2

(* The mappings of a user namespace that can be set up.                    *)
LEMMA MappingsAreInForce ==
    ASSUME NEW s \in Specs, NEW c, HasNs(c, "user"), HasUserns(s),
           UsernsPath(s) = {PathOf(c, "user")}, MappingsConvert(c, s)
    PROVE  /\ Mappings(c, s) = InForce(s)
           /\ s.uidMap # <<>> \/ s.gidMap # <<>> => s.uidMap = InForce(s).uid /\ s.gidMap = InForce(s).gid
           /\ InForce(s).uid \in Seq(IDMap)
<1> DEFINE p == PathOf(c, "user")
<1>1. CASE p = ""
  BY <1>1, SpecAssumption DEF InForce, Mappings
<1>2. CASE p # ""
  <2>1. InForce(s) = Host.userns[p] /\ Joined(c) = Host.userns[p]
    <3> HIDE DEF p
    <3>1. UsernsPath(s) = {p} /\ Joined(c) = Host.userns[p]
      BY DEF Joined, p
    <3>2. (CHOOSE q \in {p} : TRUE) = p
      OBVIOUS
    <3> QED  BY <1>2, <3>1, <3>2 DEF InForce
  <2>2. p \in DOMAIN Host.userns
    BY <1>2 DEF MappingsConvert
  <2>3. s.uidMap # <<>> \/ s.gidMap # <<>> => SameMappings(Joined(c), s)
    BY <1>2 DEF MappingsConvert
  <2> QED  BY <1>2, <2>1, <2>2, <2>3, SpecAssumption DEF Mappings, SameMappings
<1> QED  BY <1>1, <1>2

LEMMA UsernsMapInv ==
    ASSUME MapInv, NEW k \in Calls, setupUserNamespace(k)
    PROVE  MapInv'
<1>1. CASE Refuse(k)
  BY <1>1, RefuseKeeps
<1>2. CASE ~Refuse(k)
  <2> DEFINE s == spec[k]
             maps == Mappings(config[k], s)
             c == [config[k] EXCEPT !.uidMap = maps.uid, !.gidMap = maps.gid]
             devices == [i \in DOMAIN c.devices |->
                           [c.devices[i] EXCEPT !.uid = HostUID(c, 0), !.gid = HostGID(c, 0)]]
             d == [c EXCEPT !.devices = devices]
  <2>1. /\ pc[k] = "userns" /\ MappingsConvert(config[k], s)
        /\ pc' = [pc EXCEPT ![k] = "seccomp"] /\ spec' = spec
        /\ config' = [config EXCEPT ![k] = d]
    <3> HIDE DEF maps
    <3>1. \A old : [old EXCEPT !.devices = [i \in DOMAIN @ |->
                          [@[i] EXCEPT !.uid = HostUID(c, 0), !.gid = HostGID(c, 0)]]]
                 = [old EXCEPT !.devices = [i \in DOMAIN old.devices |->
                          [old.devices[i] EXCEPT !.uid = HostUID(c, 0), !.gid = HostGID(c, 0)]]]
      OBVIOUS
    <3> QED  BY <1>2, <3>1 DEF setupUserNamespace, maps
  <2> HIDE DEF devices, maps
  <2>2. DOMAIN config[k] = Fields /\ CallInv(k) /\ s \in Specs
    BY DEF MapInv, Shape
  <2> HIDE DEF s
  <2>3. /\ DOMAIN d = Fields /\ d.namespaces = config[k].namespaces /\ d.owner = config[k].owner
        /\ d.uidMap = maps.uid /\ d.gidMap = maps.gid
    BY <2>2 DEF Fields
  <2>4. pc'[k] = "seccomp" /\ config'[k] = d /\ spec'[k] = s
    BY <2>1 DEF MapInv, Shape, s
  <2> HIDE DEF c, d
  <2>5. HasNs(config[k], "user") /\ HasUserns(s) /\ UsernsPath(s) = {PathOf(config[k], "user")}
        /\ d.owner = NoID
    BY <2>1, <2>2, <2>3 DEF CallInv, NothingYet, SameUserns, s
  <2>6. /\ maps = InForce(s)
        /\ s.uidMap # <<>> \/ s.gidMap # <<>> => s.uidMap = InForce(s).uid /\ s.gidMap = InForce(s).gid
        /\ InForce(s).uid \in Seq(IDMap)
    BY <2>1, <2>2, <2>5, MappingsAreInForce DEF maps
  <2>7. HasNs(d, "user") /\ PathOf(d, "user") = PathOf(config[k], "user")
    BY <2>3, <2>5 DEF HasNs, PathOf
  <2>8. spec[k].linux
    BY <2>1, <2>2 DEF CallInv, NothingYet
  <2>9. NothingYet(k)' /\ SameUserns(k)'
    BY <2>4, <2>5, <2>7, <2>8 DEF NothingYet, SameUserns, s
  <2>10. MappingsSet(k)' /\ OwnerMapped(k)'
    BY <2>3, <2>4, <2>6 DEF MappingsSet, OwnerMapped
  <2>11. CallInv(k)' /\ "seccomp" \in PCs
    BY <2>9, <2>10 DEF CallInv, PCs
  <2> QED  BY <2>1, <2>3, <2>11, OthersKept
<1> QED  BY <1>1, <1>2

(* A step that goes on with the configuration as it is.                    *)
LEMMA SameConfigKeeps ==
    ASSUME MapInv, NEW k \in Calls, NEW from, NEW to,
           <<from, to>> \in {<<"seccomp", "owner">>, <<"validate", "accepted">>},
           pc[k] = from, Go(k, to, config[k])
    PROVE  MapInv'
<1>1. pc'[k] = to /\ config'[k] = config[k] /\ spec'[k] = spec[k] /\ DOMAIN config[k] = Fields /\ CallInv(k)
  BY DEF Go, MapInv, Shape
<1>2. CallInv(k)' /\ to \in PCs
  BY <1>1 DEF CallInv, NothingYet, SameUserns, MappingsSet, OwnerMapped, PCs
<1> QED  BY <1>1, <1>2, GoOn

LEMMA OwnerMapInv ==
    ASSUME MapInv, NEW k \in Calls, SetOwner(k)
    PROVE  MapInv'
<1> DEFINE s == spec[k]
           owner == HostUID(config[k], s.uid)
<1>1. DOMAIN config[k] = Fields /\ CallInv(k) /\ s \in Specs /\ pc[k] = "owner"
  BY DEF MapInv, Shape, SetOwner
<1>2. PICK c : Go(k, "validate", c) /\ c \in {config[k], [config[k] EXCEPT !.owner = owner]}
  BY DEF SetOwner
<1> HIDE DEF owner
<1>3. /\ DOMAIN c = Fields /\ c.namespaces = config[k].namespaces /\ c.owner \in {NoID, owner}
      /\ c.uidMap = config[k].uidMap /\ c.gidMap = config[k].gidMap
  BY <1>1, <1>2 DEF Fields, CallInv, NothingYet
<1>4. pc'[k] = "validate" /\ config'[k] = c /\ spec'[k] = s
  BY <1>2 DEF Go, MapInv, Shape
<1>5. HasNs(c, "user") = HasNs(config[k], "user") /\ PathOf(c, "user") = PathOf(config[k], "user")
  BY <1>3 DEF HasNs, PathOf
<1>6. NothingYet(k)'
  BY <1>4 DEF NothingYet
<1>7. SameUserns(k)' /\ MappingsSet(k)'
  BY <1>1, <1>3, <1>4, <1>5 DEF CallInv, SameUserns, MappingsSet
<1>8. owner \in IF HasUserns(s) THEN HostIDs(InForce(s).uid, s.uid) \cup {NoID} ELSE {s.uid}
  <2>1. CASE HasUserns(s)
    <3>1. HasNs(config[k], "user") /\ config[k].uidMap = InForce(s).uid /\ InForce(s).uid \in Seq(IDMap)
      BY <1>1, <2>1 DEF CallInv, SameUserns, MappingsSet
    <3>2. owner = hostIDFromMapping(s.uid, InForce(s).uid)
      BY <3>1 DEF owner, HostUID, HostID
    <3>3. s.uid \in Nat
      BY <1>1, SpecAssumption
    <3> QED  BY <2>1, <3>1, <3>2, <3>3, MappedID
  <2>2. CASE ~HasUserns(s)
    BY <1>1, <2>2 DEF CallInv, SameUserns, owner, HostUID, HostID
  <2> QED  BY <2>1, <2>2
<1>9. OwnerMapped(k)'
  BY <1>3, <1>4, <1>8 DEF OwnerMapped
<1>10. CallInv(k)' /\ "validate" \in PCs
  BY <1>6, <1>7, <1>9 DEF CallInv, PCs
<1> QED  BY <1>2, <1>3, <1>10, GoOn

LEMMA StepMapInv == MapInv /\ [Next]_vars => MapInv'
<1> SUFFICES ASSUME MapInv, [Next]_vars
             PROVE  MapInv'
  OBVIOUS
<1>1. ASSUME UNCHANGED vars
      PROVE  MapInv'
  <2>1. pc' = pc /\ spec' = spec /\ config' = config
    BY <1>1 DEF vars
  <2>2. Shape'
    BY <2>1 DEF MapInv, Shape
  <2>3. \A k \in Calls : CallInv(k)'
    BY <2>1 DEF MapInv, CallInv, NothingYet, SameUserns, MappingsSet, OwnerMapped
  <2> QED  BY <2>2, <2>3 DEF MapInv
<1>2. ASSUME NEW k \in Calls, Convert(k)
      PROVE  MapInv'
  <2>1. CASE CreateMounts(k)
    BY <2>1, MountsMapInv
  <2>2. CASE createDevices(k)
    BY <2>2, DevicesMapInv
  <2>3. CASE CreateCgroupConfig(k)
    BY <2>3, CgroupMapInv
  <2>4. CASE Panic(k)
    BY <2>4, PanicMapInv
  <2>5. CASE CreateNamespaces(k)
    BY <2>5, NamespacesMapInv
  <2>6. CASE setupUserNamespace(k)
    BY <2>6, UsernsMapInv
  <2>7. CASE ConvertSeccomp(k)
    BY <2>7, RefuseKeeps, SameConfigKeeps DEF ConvertSeccomp
  <2>8. CASE SetOwner(k)
    BY <2>8, OwnerMapInv
  <2>9. CASE Validate(k)
    <3>1. pc[k] = "validate" /\ (Go(k, "accepted", config[k]) \/ Refuse(k))
      BY <2>9 DEF Validate
    <3> QED  BY <3>1, RefuseKeeps, SameConfigKeeps
  <2> QED  BY <1>2, <2>1, <2>2, <2>3, <2>4, <2>5, <2>6, <2>7, <2>8, <2>9 DEF Convert
<1> QED  BY <1>1, <1>2 DEF Next, Finished

(* MapInv holds throughout.                                                *)
LEMMA MappingInvariance == Spec => []MapInv
BY InitMapInv, StepMapInv, PTL DEF Spec

(* The mappings of an accepted configuration are those the container has.  *)
THEOREM MappingsAreReal == Spec => []MappingInForce
<1>1. MapInv => MappingInForce
  BY DEF MapInv, CallInv, MappingsSet, MappingInForce, Accepted
<1> QED  BY <1>1, MappingInvariance, PTL

(* The owner of the cgroup is what the mappings in force give.             *)
THEOREM OwnerIsMapped == Spec => []CgroupOwnerIsMapped
<1>1. MapInv => CgroupOwnerIsMapped
  BY DEF MapInv, CallInv, OwnerMapped, CgroupOwnerIsMapped, Accepted
<1> QED  BY <1>1, MappingInvariance, PTL

-----------------------------------------------------------------------------
(* Kept, and the emulator: their recursions define functions.              *)

(* Induction on the natural numbers, over a set instead of a predicate.    *)
LEMMA NatSetInduction ==
    ASSUME NEW S, 0 \in S, \A n \in Nat : n \in S => n + 1 \in S
    PROVE  Nat \subseteq S
<1> DEFINE R == {ss \in Nat \X Nat : ss[1] < ss[2]}
           T == Nat \ S
<1>1. IsWellFoundedOn(R, Nat)
  BY NatLessThanWellFounded DEF OpToRel
<1>2. SUFFICES ASSUME T # {} PROVE FALSE
  OBVIOUS
<1>3. T \subseteq Nat
  OBVIOUS
<1> HIDE DEF R, T
<1>4. PICK m \in T : \A k \in T : ~(<<k, m>> \in R)
  BY <1>1, <1>2, <1>3, WFMin
<1>5. m \in Nat /\ m \notin S /\ \A k \in T : ~(k < m)
  BY <1>3, <1>4 DEF R, T
<1>6. m # 0 /\ m - 1 \in Nat /\ (m - 1) + 1 = m
  BY <1>5
<1>7. m - 1 \in S
  BY <1>5, <1>6 DEF T
<1> QED  BY <1>5, <1>6, <1>7

KeptStep(before, x, keep) == IF x \in keep THEN Append(before, x) ELSE before
IsKept(g, seq, keep, n) ==
    g = [i \in 0..n |-> IF i = 0 THEN <<>> ELSE KeptStep(g[i - 1], seq[i], keep)]

(* The recursion of Kept defines a function.                               *)
LEMMA KeptExists ==
    ASSUME NEW seq, NEW keep, NEW n \in Nat
    PROVE  \E g : IsKept(g, seq, keep, n)
<1> DEFINE S == {m \in Nat : \E g : IsKept(g, seq, keep, m)}
<1>1. 0 \in S
  <2> DEFINE g == [i \in 0..0 |-> <<>>]
  <2>1. IsKept(g, seq, keep, 0)
    BY DEF IsKept
  <2> QED  BY <2>1
<1>2. ASSUME NEW m \in Nat, m \in S PROVE m + 1 \in S
  <2>1. PICK g : IsKept(g, seq, keep, m)
    BY <1>2
  <2> DEFINE h == [i \in 0..(m + 1) |-> IF i = m + 1 THEN KeptStep(g[m], seq[m + 1], keep) ELSE g[i]]
             Next1(i) == IF i = 0 THEN <<>> ELSE KeptStep(h[i - 1], seq[i], keep)
  <2>2. \A i \in 0..m : h[i] = g[i]
    OBVIOUS
  <2>3. ASSUME NEW i \in 0..(m + 1) PROVE h[i] = Next1(i)
    <3>1. CASE i = m + 1
      <4>1. i # 0 /\ i - 1 = m /\ h[i] = KeptStep(g[m], seq[i], keep) /\ h[m] = g[m]  BY <2>2, <3>1
      <4> QED  BY <4>1
    <3>2. CASE i # m + 1
      <4>1. i \in 0..m /\ (i # 0 => i - 1 \in 0..m)  BY <3>2
      <4>2. g[i] = IF i = 0 THEN <<>> ELSE KeptStep(g[i - 1], seq[i], keep)
        BY <2>1, <4>1 DEF IsKept
      <4> HIDE DEF h
      <4> QED  BY <2>2, <4>1, <4>2
    <3> QED  BY <3>1, <3>2
  <2>4. h = [i \in 0..(m + 1) |-> h[i]]
    OBVIOUS
  <2> HIDE DEF h
  <2>5. h = [i \in 0..(m + 1) |-> Next1(i)]
    BY <2>3, <2>4
  <2>6. IsKept(h, seq, keep, m + 1)
    BY <2>5 DEF IsKept
  <2> QED  BY <2>6
<1> HIDE DEF S
<1>3. Nat \subseteq S
  BY <1>1, <1>2, NatSetInduction
<1> QED  BY <1>3 DEF S

(* Kept gives the elements that are in the sequence and in the set.        *)
LEMMA KeptFacts ==
    ASSUME NEW S, NEW seq \in Seq(S), NEW keep
    PROVE  Kept(seq, keep) \in Seq(S) /\ Rng(Kept(seq, keep)) = Rng(seq) \cap keep
<1> DEFINE e == CHOOSE g : IsKept(g, seq, keep, Len(seq))
           n == Len(seq)
<1>1. n \in Nat /\ DOMAIN seq = 1..n /\ \A i \in 1..n : seq[i] \in S
  BY LenProperties, ElementOfSeq
<1>2. IsKept(e, seq, keep, n)
  BY <1>1, KeptExists
<1>3. Kept(seq, keep) = e[n]
  BY DEF Kept, IsKept, KeptStep
<1> HIDE DEF e, n
<1> DEFINE T == {i \in Nat : i <= n => e[i] \in Seq(S) /\ Rng(e[i]) = {seq[j] : j \in 1..i} \cap keep}
<1>4. 0 \in T
  <2>1. e[0] = <<>>
    BY <1>1, <1>2 DEF IsKept
  <2>2. <<>> \in Seq(S) /\ DOMAIN <<>> = {} /\ 1..0 = {}
    OBVIOUS
  <2>3. Rng(<<>>) = {} /\ {seq[j] : j \in 1..0} = {}
    BY <2>2 DEF Rng
  <2> QED  BY <2>1, <2>2, <2>3
<1>5. ASSUME NEW i \in Nat, i \in T PROVE i + 1 \in T
  <2>1. SUFFICES ASSUME i + 1 <= n
                 PROVE  e[i + 1] \in Seq(S) /\ Rng(e[i + 1]) = {seq[j] : j \in 1..(i + 1)} \cap keep
    OBVIOUS
  <2>2. e[i] \in Seq(S) /\ Rng(e[i]) = {seq[j] : j \in 1..i} \cap keep /\ i + 1 \in 1..n
    BY <1>1, <1>5, <2>1
  <2>3. e[i + 1] = KeptStep(e[i], seq[i + 1], keep)
    <3>1. i + 1 \in 0..n /\ i + 1 # 0 /\ (i + 1) - 1 = i  BY <1>1, <2>1
    <3> QED  BY <1>2, <3>1 DEF IsKept
  <2>4. {seq[j] : j \in 1..(i + 1)} = {seq[j] : j \in 1..i} \cup {seq[i + 1]}
    <3>1. 1..(i + 1) = 1..i \cup {i + 1}
      OBVIOUS
    <3> QED  BY <3>1
  <2> DEFINE x == seq[i + 1]
             before == e[i]
  <2>5. x \in S
    BY <1>1, <2>2
  <2> HIDE DEF x, before
  <2>6. Append(before, x) \in Seq(S) /\ Rng(Append(before, x)) = Rng(before) \cup {x}
    <3>1. before \in Seq(S)
      BY <2>2 DEF before
    <3>2. /\ Append(before, x) \in Seq(S) /\ Len(Append(before, x)) = Len(before) + 1
          /\ \A j \in 1..Len(before) : Append(before, x)[j] = before[j]
          /\ Append(before, x)[Len(before) + 1] = x
      BY <2>5, <3>1, AppendProperties
    <3> DEFINE a == Append(before, x)
    <3>3. DOMAIN a = 1..(Len(before) + 1) /\ DOMAIN before = 1..Len(before) /\ Len(before) \in Nat
      BY <3>1, <3>2, LenProperties
    <3>4. DOMAIN a = DOMAIN before \cup {Len(before) + 1}
      BY <3>3
    <3> HIDE DEF a
    <3>5. \A j \in DOMAIN before : a[j] = before[j]
      BY <3>2, <3>3 DEF a
    <3>6. Rng(a) = Rng(before) \cup {x}
      BY <3>2, <3>4, <3>5 DEF Rng, a
    <3> QED  BY <3>2, <3>6 DEF a
  <2> QED  BY <2>2, <2>3, <2>4, <2>6 DEF KeptStep, x, before
<1> HIDE DEF T
<1>6. Nat \subseteq T
  BY <1>4, <1>5, NatSetInduction
<1>7. e[n] \in Seq(S) /\ Rng(e[n]) = {seq[j] : j \in 1..n} \cap keep
  <2>1. n \in T /\ n <= n
    BY <1>1, <1>6
  <2> QED  BY <2>1 DEF T
<1> QED  BY <1>1, <1>3, <1>7 DEF Rng

EmuStep(before, rule) == IF before.err THEN before ELSE Apply(before.emu, rule)
IsTrace(g, rules, n) ==
    g = [i \in 0..n |-> IF i = 0 THEN Done(EmptyEmulator(FALSE)) ELSE EmuStep(g[i - 1], rules[i])]

(* The recursion of Emulate defines a function.                            *)
LEMMA TraceExists ==
    ASSUME NEW rules, NEW n \in Nat
    PROVE  \E g : IsTrace(g, rules, n)
<1> DEFINE S == {m \in Nat : \E g : IsTrace(g, rules, m)}
<1>1. 0 \in S
  <2> DEFINE g == [i \in 0..0 |-> Done(EmptyEmulator(FALSE))]
  <2>1. IsTrace(g, rules, 0)
    BY DEF IsTrace
  <2> QED  BY <2>1
<1>2. ASSUME NEW m \in Nat, m \in S PROVE m + 1 \in S
  <2>1. PICK g : IsTrace(g, rules, m)
    BY <1>2
  <2> DEFINE h == [i \in 0..(m + 1) |-> IF i = m + 1 THEN EmuStep(g[m], rules[m + 1]) ELSE g[i]]
             Next1(i) == IF i = 0 THEN Done(EmptyEmulator(FALSE)) ELSE EmuStep(h[i - 1], rules[i])
  <2>2. \A i \in 0..m : h[i] = g[i]
    OBVIOUS
  <2>3. ASSUME NEW i \in 0..(m + 1) PROVE h[i] = Next1(i)
    <3>1. CASE i = m + 1
      <4>1. i # 0 /\ i - 1 = m /\ h[i] = EmuStep(g[m], rules[i]) /\ h[m] = g[m]  BY <2>2, <3>1
      <4> QED  BY <4>1
    <3>2. CASE i # m + 1
      <4>1. i \in 0..m /\ (i # 0 => i - 1 \in 0..m)  BY <3>2
      <4>2. g[i] = IF i = 0 THEN Done(EmptyEmulator(FALSE)) ELSE EmuStep(g[i - 1], rules[i])
        BY <2>1, <4>1 DEF IsTrace
      <4> HIDE DEF h
      <4> QED  BY <2>2, <4>1, <4>2
    <3> QED  BY <3>1, <3>2
  <2>4. h = [i \in 0..(m + 1) |-> h[i]]
    OBVIOUS
  <2> HIDE DEF h
  <2>5. h = [i \in 0..(m + 1) |-> Next1(i)]
    BY <2>3, <2>4
  <2>6. IsTrace(h, rules, m + 1)
    BY <2>5 DEF IsTrace
  <2> QED  BY <2>6
<1> HIDE DEF S
<1>3. Nat \subseteq S
  BY <1>1, <1>2, NatSetInduction
<1> QED  BY <1>3 DEF S

LEMMA EmulateIsTrace ==
    ASSUME NEW rules \in Seq(Rule)
    PROVE  \E g : IsTrace(g, rules, Len(rules)) /\ Emulate(rules) = g[Len(rules)]
<1> DEFINE e == CHOOSE g : IsTrace(g, rules, Len(rules))
<1>1. Len(rules) \in Nat
  BY LenProperties
<1>2. IsTrace(e, rules, Len(rules))
  BY <1>1, TraceExists
<1>3. Emulate(rules) = e[Len(rules)]
  BY DEF Emulate, IsTrace, EmuStep
<1> QED  BY <1>2, <1>3

-----------------------------------------------------------------------------
(* Rules that allow a device.                                              *)

LEMMA EmptyTyped == \A b \in BOOLEAN : EmptyEmulator(b) \in Emulator
BY DEF EmptyEmulator, Emulator, NoPerms

(* Applying a rule to an emulator gives an emulator.                       *)
LEMMA ApplyTyped ==
    ASSUME NEW e \in Emulator, NEW rule \in Rule
    PROVE  Apply(e, rule).err \in BOOLEAN /\ Apply(e, rule).emu \in Emulator
<1>1. CASE ~CanCgroup(rule.type)
  BY <1>1 DEF Apply, Failed
<1>2. CASE CanCgroup(rule.type) /\ rule.type = WildcardDevice
  <2>1. rule.allow \in BOOLEAN
    BY DEF Rule
  <2> QED  BY <1>2, <2>1, EmptyTyped DEF Apply, Done
<1>3. CASE CanCgroup(rule.type) /\ rule.type # WildcardDevice
  <2> DEFINE meta == MetaOf(rule)
  <2>1. meta \in deviceMeta
    BY <1>3 DEF Rule, CanCgroup, MetaOf, deviceMeta, WildcardDevice, FifoDevice, BlockDevice, CharDevice
  <2>2. rule.perms \in SUBSET Perms
    BY DEF Rule
  <2> HIDE DEF meta
  <2>3. addRule(e, meta, rule.perms).emu \in Emulator /\ addRule(e, meta, rule.perms).err = FALSE
    BY <2>1, <2>2 DEF addRule, Done, Emulator
  <2>4. rmRule(e, meta, rule.perms).emu \in Emulator /\ rmRule(e, meta, rule.perms).err \in BOOLEAN
    BY <2>1, <2>2 DEF rmRule, Done, Failed, Emulator
  <2>5. Apply(e, rule) \in {addRule(e, meta, rule.perms), rmRule(e, meta, rule.perms)}
    BY <1>3 DEF Apply, Except, meta
  <2> QED  BY <2>3, <2>4, <2>5
<1> QED  BY <1>1, <1>2, <1>3

(* Allowed, with the two modes apart.                                      *)
LEMMA AllowedIs ==
    ASSUME NEW e \in Emulator, NEW d, NEW p
    PROVE  Allowed(e, d, p) <=> IF e.defaultAllow THEN ~Excepted(e, d, p) ELSE Excepted(e, d, p)
<1>1. e.defaultAllow \in BOOLEAN /\ Excepted(e, d, p) \in BOOLEAN
  BY DEF Emulator, Excepted
<1>2. CASE e.defaultAllow
  <2>1. Allowed(e, d, p) = (TRUE # Excepted(e, d, p))
    BY <1>1, <1>2, Zenon DEF Allowed
  <2> QED  BY <1>1, <1>2, <2>1
<1>3. CASE ~e.defaultAllow
  <2>1. Allowed(e, d, p) = (FALSE # Excepted(e, d, p))
    BY <1>1, <1>3, Zenon DEF Allowed
  <2> QED  BY <1>1, <1>3, <2>1
<1> QED  BY <1>2, <1>3

(* What a default rule is: it allows, and it names a type.                 *)
Allows == {r \in Rule : r.type \in {CharDevice, BlockDevice} /\ r.allow}

(* The two ways an allow rule changes the exceptions.                      *)
LEMMA AllowOutcome ==
    ASSUME NEW e \in Emulator, NEW rule \in Allows, ~Apply(e, rule).err
    PROVE  LET after == Apply(e, rule).emu  m == MetaOf(rule)
           IN  /\ m \in deviceMeta /\ after.defaultAllow = e.defaultAllow
               /\ e.defaultAllow =>
                     /\ \A pm \in PartialMetas(m) : e.perms[pm] \cap rule.perms = {}
                     /\ after.perms = [e.perms EXCEPT ![m] = @ \ rule.perms]
               /\ ~e.defaultAllow => after.perms = [e.perms EXCEPT ![m] = @ \cup rule.perms]
<1> DEFINE m == MetaOf(rule)
<1>1. CanCgroup(rule.type) /\ rule.type # WildcardDevice /\ rule.allow = TRUE /\ m \in deviceMeta
  <2>1. rule.allow \in BOOLEAN /\ rule.type \in Nodes
    BY DEF Allows, Rule, WildcardDevice, FifoDevice, BlockDevice, CharDevice
  <2>2. CanCgroup(rule.type) /\ rule.type # WildcardDevice /\ rule.allow = TRUE
    BY <2>1 DEF Allows, CanCgroup, WildcardDevice, BlockDevice, CharDevice
  <2> QED  BY <2>1, <2>2 DEF Allows, Rule, MetaOf, deviceMeta
<1>2. Apply(e, rule) = Except(e, m, rule.perms, rule.allow) /\ e.defaultAllow \in BOOLEAN
  BY <1>1 DEF Apply, Emulator
<1> HIDE DEF m
<1>3. CASE e.defaultAllow
  <2>1. Apply(e, rule) = rmRule(e, m, rule.perms)
    BY <1>1, <1>2, <1>3 DEF Except
  <2>2. \A pm \in PartialMetas(m) : e.perms[pm] \cap rule.perms = {}
    BY <2>1 DEF rmRule, Failed
  <2>3. /\ Apply(e, rule).emu.defaultAllow = e.defaultAllow
        /\ Apply(e, rule).emu.perms = [e.perms EXCEPT ![m] = @ \ rule.perms]
    BY <2>1, <2>2 DEF rmRule, Done
  <2> QED  BY <1>1, <1>3, <2>2, <2>3 DEF m
<1>4. CASE ~e.defaultAllow
  <2>1. Apply(e, rule) = addRule(e, m, rule.perms)
    BY <1>1, <1>2, <1>4 DEF Except
  <2> QED  BY <1>1, <1>4, <2>1 DEF addRule, Done, m
<1> QED  BY <1>2, <1>3, <1>4

(* A device that a default rule names can be used when it is applied.      *)
LEMMA AllowTakes ==
    ASSUME NEW e \in Emulator, NEW rule \in Allows, ~Apply(e, rule).err,
           MetaOf(rule) \in Device, NEW p \in rule.perms
    PROVE  Allowed(Apply(e, rule).emu, MetaOf(rule), p)
<1> DEFINE d == MetaOf(rule)
           after == Apply(e, rule).emu
<1>1. after \in Emulator
  BY ApplyTyped DEF Allows
<1>2. d \in deviceMeta /\ after.defaultAllow = e.defaultAllow /\ d \in Device
  BY AllowOutcome
<1>3. e.perms \in [deviceMeta -> SUBSET Perms] /\ e.defaultAllow \in BOOLEAN
  BY DEF Emulator
<1>4. CASE e.defaultAllow
  <2>1. /\ \A pm \in PartialMetas(d) : e.perms[pm] \cap rule.perms = {}
        /\ after.perms = [e.perms EXCEPT ![d] = @ \ rule.perms]
    BY <1>4, AllowOutcome
  <2> HIDE DEF d, after
  <2>2. ASSUME NEW m \in deviceMeta, Matches(m, d) PROVE m = d \/ m \in PartialMetas(d)
    <3>1. /\ m = [node |-> m.node, major |-> m.major, minor |-> m.minor]
          /\ d = [node |-> d.node, major |-> d.major, minor |-> d.minor]
      BY <1>2, <2>2 DEF deviceMeta
    <3> QED  BY <2>2, <3>1 DEF Matches, PartialMetas
  <2>3. ~Excepted(after, d, p)
    BY <1>2, <1>3, <2>1, <2>2 DEF Excepted
  <2>4. Allowed(after, d, p)
    BY <1>1, <1>2, <1>4, <2>3, AllowedIs
  <2> QED  BY <2>4 DEF d, after
<1>5. CASE ~e.defaultAllow
  <2>1. after.perms = [e.perms EXCEPT ![d] = @ \cup rule.perms]
    BY <1>5, AllowOutcome
  <2> HIDE DEF d, after
  <2>2. p \in after.perms[d] /\ Matches(d, d)
    BY <1>2, <1>3, <2>1 DEF Matches
  <2>3. Excepted(after, d, p)
    BY <1>2, <2>2 DEF Excepted
  <2>4. Allowed(after, d, p)
    BY <1>1, <1>2, <1>5, <2>3, AllowedIs
  <2> QED  BY <2>4 DEF d, after
<1> QED  BY <1>3, <1>4, <1>5

(* No default rule takes a device away.                                    *)
LEMMA AllowKeeps ==
    ASSUME NEW e \in Emulator, NEW rule \in Allows, ~Apply(e, rule).err,
           NEW d, NEW p, Allowed(e, d, p)
    PROVE  Allowed(Apply(e, rule).emu, d, p)
<1> DEFINE m == MetaOf(rule)
           after == Apply(e, rule).emu
<1>1. after \in Emulator
  BY ApplyTyped DEF Allows
<1>2. m \in deviceMeta /\ after.defaultAllow = e.defaultAllow
  BY AllowOutcome
<1>3. e.perms \in [deviceMeta -> SUBSET Perms] /\ e.defaultAllow \in BOOLEAN
  BY DEF Emulator
<1>4. CASE e.defaultAllow
  <2>1. after.perms = [e.perms EXCEPT ![m] = @ \ rule.perms]
    BY <1>4, AllowOutcome
  <2> HIDE DEF m, after
  <2>2. \A n \in deviceMeta : after.perms[n] \subseteq e.perms[n]
    BY <1>2, <1>3, <2>1
  <2>3. ~Excepted(e, d, p)
    BY <1>4, AllowedIs
  <2>4. ~Excepted(after, d, p)
    BY <2>2, <2>3 DEF Excepted
  <2>5. Allowed(after, d, p)
    BY <1>1, <1>2, <1>4, <2>4, AllowedIs
  <2> QED  BY <2>5 DEF after
<1>5. CASE ~e.defaultAllow
  <2>1. after.perms = [e.perms EXCEPT ![m] = @ \cup rule.perms]
    BY <1>5, AllowOutcome
  <2> HIDE DEF m, after
  <2>2. \A n \in deviceMeta : e.perms[n] \subseteq after.perms[n]
    BY <1>2, <1>3, <2>1
  <2>3. Excepted(e, d, p)
    BY <1>5, AllowedIs
  <2>4. Excepted(after, d, p)
    BY <2>2, <2>3 DEF Excepted
  <2>5. Allowed(after, d, p)
    BY <1>1, <1>2, <1>5, <2>4, AllowedIs
  <2> QED  BY <2>5 DEF after
<1> QED  BY <1>3, <1>4, <1>5

(* A rule list in which a default rule is followed by default rules only.  *)
LEMMA DefaultInForce ==
    ASSUME NEW rules \in Seq(Rule), NEW at \in 1..Len(rules), MetaOf(rules[at]) \in Device,
           \A i \in at..Len(rules) : rules[i] \in Allows,
           ~Emulate(rules).err, NEW p \in rules[at].perms
    PROVE  Allowed(Emulate(rules).emu, MetaOf(rules[at]), p)
<1> DEFINE n == Len(rules)
           d == MetaOf(rules[at])
<1>1. n \in Nat /\ \A i \in 1..n : rules[i] \in Rule
  BY LenProperties, ElementOfSeq
<1>2. PICK g : IsTrace(g, rules, n) /\ Emulate(rules) = g[n]
  BY EmulateIsTrace
<1>3. at \in Nat /\ 1 <= at /\ at <= n
  BY <1>1
<1> HIDE DEF n, d
<1> DEFINE Good(i) == /\ g[i].err \in BOOLEAN /\ g[i].emu \in Emulator
                      /\ ~g[i].err /\ at <= i => Allowed(g[i].emu, d, p)
           S == {i \in Nat : i <= n => Good(i)}
<1>4. 0 \in S
  <2>1. g[0] = Done(EmptyEmulator(FALSE))
    BY <1>1, <1>2 DEF IsTrace
  <2>2. g[0].err = FALSE /\ g[0].emu = EmptyEmulator(FALSE) /\ ~(at <= 0)
    BY <1>3, <2>1 DEF Done
  <2> QED  BY <2>2, EmptyTyped
<1>5. ASSUME NEW i \in Nat, i \in S PROVE i + 1 \in S
  <2>1. SUFFICES ASSUME i + 1 <= n PROVE Good(i + 1)
    OBVIOUS
  <2>2. Good(i) /\ rules[i + 1] \in Rule
    BY <1>1, <1>5, <2>1
  <2>3. g[i + 1] = EmuStep(g[i], rules[i + 1])
    <3>1. i + 1 \in 0..n /\ i + 1 # 0 /\ (i + 1) - 1 = i  BY <1>1, <2>1
    <3> QED  BY <1>2, <3>1 DEF IsTrace
  <2>4. CASE g[i].err
    BY <2>2, <2>3, <2>4 DEF EmuStep
  <2>5. CASE ~g[i].err
    <3>1. g[i + 1] = Apply(g[i].emu, rules[i + 1])
      BY <2>3, <2>5 DEF EmuStep
    <3>2. g[i + 1].err \in BOOLEAN /\ g[i + 1].emu \in Emulator
      BY <2>2, <3>1, ApplyTyped
    <3>3. ASSUME ~g[i + 1].err, at <= i + 1
          PROVE  Allowed(g[i + 1].emu, d, p)
      <4>1. rules[i + 1] \in Allows
        <5>1. i + 1 \in at..n  BY <1>1, <1>3, <2>1, <3>3
        <5> QED  BY <5>1 DEF n
      <4>2. CASE at = i + 1
        <5>1. d = MetaOf(rules[i + 1]) /\ p \in rules[i + 1].perms
          BY <4>2 DEF d
        <5>2. MetaOf(rules[i + 1]) \in Device
          BY <4>2
        <5> QED  BY <2>2, <3>1, <3>3, <4>1, <5>1, <5>2, AllowTakes
      <4>3. CASE at # i + 1
        <5>1. Allowed(g[i].emu, d, p)
          <6>1. at <= i  BY <1>3, <3>3, <4>3
          <6> QED  BY <2>2, <2>5, <6>1
        <5> QED  BY <2>2, <3>1, <3>3, <4>1, <5>1, AllowKeeps
      <4> QED  BY <4>2, <4>3
    <3> QED  BY <3>2, <3>3
  <2> QED  BY <2>4, <2>5
<1> HIDE DEF S, Good
<1>6. Nat \subseteq S
  BY <1>4, <1>5, NatSetInduction
<1>7. Good(n)
  <2>1. n \in S /\ n <= n  BY <1>1, <1>6
  <2> QED  BY <2>1 DEF S
<1> QED  BY <1>2, <1>3, <1>7 DEF Good, d

-----------------------------------------------------------------------------
(* The default devices of a document, from the table as it is initialised. *)

DefaultFields == {"path", "uid", "gid", "rule"}

(* What DefaultDevicesUsable needs of an entry of the table.               *)
GoodDefault(a) ==
    /\ DOMAIN a = DefaultFields /\ a.rule \in Allows
    /\ a.path # "" => MetaOf(a.rule) \in Device /\ a.rule.perms = RWM

LEMMA DefaultIsGood ==
    ASSUME NEW path, NEW type \in {CharDevice, BlockDevice}, NEW major \in Majors \cup {Wildcard},
           NEW minor \in Minors \cup {Wildcard}, NEW perms \in SUBSET Perms,
           path # "" => major \in Majors /\ minor \in Minors /\ perms = RWM
    PROVE  GoodDefault(Default(path, type, major, minor, perms))
<1> DEFINE r == NewRule(type, major, minor, perms, TRUE)
           a == Default(path, type, major, minor, perms)
<1>1. type \in Nodes
  BY SpecAssumption
<1>2. r \in Allows /\ r.type = type /\ r.major = major /\ r.minor = minor /\ r.perms = perms
  BY <1>1 DEF Allows, Rule, NewRule
<1>3. a.rule = r /\ a.path = path /\ DOMAIN a = DefaultFields
  BY DEF Default, DefaultFields
<1> HIDE DEF r, a
<1>4. path # "" => MetaOf(r) \in Device
  BY <1>1, <1>2 DEF MetaOf, Device
<1>5. GoodDefault(a)
  BY <1>2, <1>3, <1>4 DEF GoodDefault
<1> QED  BY <1>5 DEF a

LEMMA TableFacts ==
    /\ DOMAIN AllowedDevices = 1..11
    /\ \A i \in 1..11 : GoodDefault(AllowedDevices[i])
<1>1. /\ {"m"} \in SUBSET Perms /\ RWM \in SUBSET Perms
      /\ 1 \in Majors /\ 5 \in Majors /\ 10 \in Majors /\ 136 \in Majors
      /\ 0 \in Minors /\ 2 \in Minors /\ 3 \in Minors /\ 5 \in Minors /\ 7 \in Minors
      /\ 8 \in Minors /\ 9 \in Minors /\ 200 \in Minors
  BY SpecAssumption DEF RWM
<1>2. GoodDefault(Default("", CharDevice, Wildcard, Wildcard, {"m"}))
  BY <1>1, DefaultIsGood
<1>3. GoodDefault(Default("", BlockDevice, Wildcard, Wildcard, {"m"}))
  BY <1>1, DefaultIsGood
<1>4. GoodDefault(Default("/dev/null", CharDevice, 1, 3, RWM))
  BY <1>1, DefaultIsGood
<1>5. GoodDefault(Default("/dev/random", CharDevice, 1, 8, RWM))
  BY <1>1, DefaultIsGood
<1>6. GoodDefault(Default("/dev/full", CharDevice, 1, 7, RWM))
  BY <1>1, DefaultIsGood
<1>7. GoodDefault(Default("/dev/tty", CharDevice, 5, 0, RWM))
  BY <1>1, DefaultIsGood
<1>8. GoodDefault(Default("/dev/zero", CharDevice, 1, 5, RWM))
  BY <1>1, DefaultIsGood
<1>9. GoodDefault(Default("/dev/urandom", CharDevice, 1, 9, RWM))
  BY <1>1, DefaultIsGood
<1>10. GoodDefault(Default("", CharDevice, 136, Wildcard, RWM))
  BY <1>1, DefaultIsGood
<1>11. GoodDefault(Default("", CharDevice, 5, 2, RWM))
  BY <1>1, DefaultIsGood
<1>12. GoodDefault(Default("", CharDevice, 10, 200, RWM))
  BY <1>1, DefaultIsGood
<1>13. DOMAIN AllowedDevices = 1..11
  BY DEF AllowedDevices
<1>14. ASSUME NEW i \in 1..11 PROVE GoodDefault(AllowedDevices[i])
  <2>1. CASE i = 1  BY <1>2, <2>1 DEF AllowedDevices
  <2>2. CASE i = 2  BY <1>3, <2>2 DEF AllowedDevices
  <2>3. CASE i = 3  BY <1>4, <2>3 DEF AllowedDevices
  <2>4. CASE i = 4  BY <1>5, <2>4 DEF AllowedDevices
  <2>5. CASE i = 5  BY <1>6, <2>5 DEF AllowedDevices
  <2>6. CASE i = 6  BY <1>7, <2>6 DEF AllowedDevices
  <2>7. CASE i = 7  BY <1>8, <2>7 DEF AllowedDevices
  <2>8. CASE i = 8  BY <1>9, <2>8 DEF AllowedDevices
  <2>9. CASE i = 9  BY <1>10, <2>9 DEF AllowedDevices
  <2>10. CASE i = 10  BY <1>11, <2>10 DEF AllowedDevices
  <2>11. CASE i = 11  BY <1>12, <2>11 DEF AllowedDevices
  <2> QED  BY <2>1, <2>2, <2>3, <2>4, <2>5, <2>6, <2>7, <2>8, <2>9, <2>10, <2>11
<1> QED  BY <1>13, <1>14

(* The default devices that a document does not redeclare.                 *)
DefaultsOf(s) ==
    {i \in 1..11 : AllowedDevices[i].path = "" \/ ~s.linux \/ \A d \in Rng(s.devs) : d.path # AllowedDevices[i].path}
InOrder(s) == Kept([i \in 1..11 |-> i], DefaultsOf(s))

DocRules(s) == IF s.linux THEN [j \in DOMAIN s.rules |-> ResourceRule(s.rules[j])] ELSE <<>>
DefaultRules(s) == [j \in DOMAIN InOrder(s) |-> AllowedDevices[InOrder(s)[j]].rule]

LEMMA DocRulesTyped ==
    ASSUME NEW s \in Specs, RulesConvert(s)
    PROVE  DocRules(s) \in Seq(Rule)
<1>1. CASE ~s.linux
  BY <1>1 DEF DocRules
<1>2. CASE s.linux
  <2> DEFINE n == Len(s.rules)
  <2>1. s.rules \in Seq(DeviceCgroup)
    BY SpecAssumption
  <2>2. n \in Nat /\ DOMAIN s.rules = 1..n
    BY <2>1, LenProperties
  <2>3. ASSUME NEW j \in 1..n PROVE ResourceRule(s.rules[j]) \in Rule
    <3> DEFINE d == s.rules[j]
    <3>1. d \in DeviceCgroup
      BY <2>1, ElementOfSeq
    <3>2. d.type \in {"", "a", "b", "c"}
      BY <1>2, <2>2 DEF RulesConvert, Rng
    <3> HIDE DEF d
    <3> DEFINE t == stringToCgroupDeviceRune[IF d.type = "" THEN "a" ELSE d.type]
    <3>3. t \in {WildcardDevice, BlockDevice, CharDevice}
      <4>1. /\ stringToCgroupDeviceRune["a"] = WildcardDevice
            /\ stringToCgroupDeviceRune["b"] = BlockDevice
            /\ stringToCgroupDeviceRune["c"] = CharDevice
        BY DEF stringToCgroupDeviceRune
      <4> QED  BY <3>2, <4>1
    <3>4. t \in Nodes \cup {WildcardDevice, FifoDevice}
      BY <3>3, SpecAssumption
    <3> HIDE DEF t
    <3>5. /\ (IF d.major = Nil THEN Wildcard ELSE d.major) \in Majors \cup {Wildcard}
          /\ (IF d.minor = Nil THEN Wildcard ELSE d.minor) \in Minors \cup {Wildcard}
          /\ d.access \in SUBSET Perms /\ d.allow \in BOOLEAN
      BY <3>1 DEF DeviceCgroup
    <3>6. ResourceRule(d) \in Rule
      BY <3>4, <3>5 DEF ResourceRule, NewRule, Rule, t
    <3> QED  BY <3>6 DEF d
  <2>4. [j \in 1..n |-> ResourceRule(s.rules[j])] \in Seq(Rule)
    BY <2>2, <2>3
  <2> QED  BY <1>2, <2>2, <2>4 DEF DocRules
<1> QED  BY <1>1, <1>2

LEMMA IndicesTyped == [i \in 1..11 |-> i] \in Seq(1..11) /\ Rng([i \in 1..11 |-> i]) = 1..11
BY DEF Rng

LEMMA InOrderFacts ==
    ASSUME NEW s
    PROVE  InOrder(s) \in Seq(1..11) /\ Rng(InOrder(s)) = DefaultsOf(s)
<1>1. DefaultsOf(s) \subseteq 1..11
  BY DEF DefaultsOf
<1> DEFINE all == [i \in 1..11 |-> i]
<1>2. all \in Seq(1..11) /\ Rng(all) = 1..11
  BY IndicesTyped
<1> HIDE DEF all
<1>3. Kept(all, DefaultsOf(s)) \in Seq(1..11) /\ Rng(Kept(all, DefaultsOf(s))) = Rng(all) \cap DefaultsOf(s)
  BY <1>2, KeptFacts
<1> QED  BY <1>1, <1>2, <1>3 DEF InOrder, all

(* A default device that is kept can be used under the converted rules.    *)
LEMMA DefaultUsable ==
    ASSUME NEW s \in Specs, RulesConvert(s), NEW i \in DefaultsOf(s), AllowedDevices[i].path # "",
           ~Emulate(DocRules(s) \o DefaultRules(s)).err, NEW p \in RWM
    PROVE  Allowed(Emulate(DocRules(s) \o DefaultRules(s)).emu, MetaOf(AllowedDevices[i].rule), p)
<1> DEFINE A == DocRules(s)
           B == DefaultRules(s)
           D == InOrder(s)
           rules == A \o B
<1>1. A \in Seq(Rule)
  BY DocRulesTyped
<1>2. D \in Seq(1..11) /\ i \in Rng(D)
  BY InOrderFacts
<1>3. Len(D) \in Nat /\ DOMAIN D = 1..Len(D) /\ \A j \in 1..Len(D) : D[j] \in 1..11
  BY <1>2, LenProperties, ElementOfSeq
<1>4. B = [j \in 1..Len(D) |-> AllowedDevices[D[j]].rule]
  BY <1>3 DEF DefaultRules
<1> HIDE DEF A, B, D
<1>5. \A j \in 1..Len(D) : B[j] \in Allows
  BY <1>3, <1>4, TableFacts DEF GoodDefault
<1>6. B \in Seq(Rule)
  <2>1. B \in [1..Len(D) -> Rule]
    BY <1>4, <1>5 DEF Allows
  <2> HIDE DEF Rule
  <2> QED  BY ONLY <1>3, <2>1, SeqDef
<1>7. Len(B) = Len(D)
  <2>1. DOMAIN B = 1..Len(D)
    BY <1>4
  <2>2. Len(B) \in Nat /\ DOMAIN B = 1..Len(B)
    BY <1>6, LenProperties
  <2> QED  BY ONLY <1>3, <2>1, <2>2
<1>8. /\ rules \in Seq(Rule) /\ Len(rules) = Len(A) + Len(B)
      /\ \A j \in 1..Len(rules) : rules[j] = IF j <= Len(A) THEN A[j] ELSE B[j - Len(A)]
  BY <1>1, <1>6, ConcatProperties
<1>9. PICK j \in 1..Len(D) : D[j] = i
  BY <1>2, <1>3 DEF Rng
<1> DEFINE at == Len(A) + j
<1>10. Len(A) \in Nat
  BY <1>1, LenProperties
<1> HIDE DEF rules
<1>n. j \in Nat /\ 1 <= j /\ j <= Len(D) /\ Len(D) \in Nat /\ Len(rules) = Len(A) + Len(D)
  <2>1. j \in 1..Len(D) /\ Len(D) \in Nat
    BY <1>3, <1>9
  <2>2. Len(rules) = Len(A) + Len(D)
    BY <1>7, <1>8
  <2> QED  BY ONLY <2>1, <2>2
<1>11. at \in 1..Len(rules)
  BY ONLY <1>n, <1>10
<1>12. rules[at] = AllowedDevices[i].rule
  <2>1. ~(at <= Len(A)) /\ at - Len(A) = j
    BY ONLY <1>n, <1>10
  <2>2. rules[at] = B[j]
    BY <1>8, <1>11, <2>1
  <2> QED  BY <1>4, <1>9, <2>2
<1>13. ASSUME NEW m \in at..Len(rules) PROVE rules[m] \in Allows
  <2>1. m \in 1..Len(rules) /\ ~(m <= Len(A)) /\ m - Len(A) \in 1..Len(D)
    BY ONLY <1>n, <1>10, <1>13
  <2> QED  BY <1>5, <1>8, <2>1
<1>14. MetaOf(AllowedDevices[i].rule) \in Device /\ AllowedDevices[i].rule.perms = RWM
  BY <1>3, <1>9, TableFacts DEF GoodDefault
<1> HIDE DEF at
<1>15. Allowed(Emulate(rules).emu, MetaOf(rules[at]), p)
  <2>1. ~Emulate(rules).err
    BY DEF rules, A, B
  <2>2. MetaOf(rules[at]) \in Device /\ p \in rules[at].perms
    BY <1>12, <1>14
  <2> QED  BY <1>8, <1>11, <1>13, <2>1, <2>2, DefaultInForce
<1> QED  BY <1>12, <1>15 DEF rules, A, B

-----------------------------------------------------------------------------
(* The invariant about the default devices.                                *)

NodeFields == {"ref", "path", "uid", "gid"}

(* Only the owners in the table change.                                    *)
TableKept ==
    /\ DOMAIN allowed = 1..11
    /\ \A i \in 1..11 : /\ DOMAIN allowed[i] = DefaultFields
                        /\ allowed[i].path = AllowedDevices[i].path
                        /\ allowed[i].rule = AllowedDevices[i].rule

GoodNode(n, s) ==
    /\ DOMAIN n = NodeFields
    /\ n.ref # 0 => n.ref \in DefaultsOf(s) /\ AllowedDevices[n.ref].path # ""

(* The nodes that are left at their default, and the rules given for them. *)
NodesKnown(k) == \A n \in Rng(config[k].devices) : GoodNode(n, spec[k])
RulesSet == {"namespaces", "userns", "seccomp", "owner", "validate", "accepted"}
RulesKnown(k) ==
    pc[k] \in RulesSet =>
        RulesConvert(spec[k]) /\ config[k].rules = DocRules(spec[k]) \o DefaultRules(spec[k])

DevInv == TableKept /\ \A k \in Calls : NodesKnown(k) /\ RulesKnown(k)

LEMMA DedupIs ==
    ASSUME TableKept, NEW s
    PROVE  dedupedAllowDevs(s) = InOrder(s)
<1>1. [i \in DOMAIN allowed |-> i] = [i \in 1..11 |-> i]
  BY DEF TableKept
<1> DEFINE kept == {i \in DOMAIN allowed : allowed[i].path = "" \/ ~s.linux
                                              \/ \A d \in Rng(s.devs) : d.path # allowed[i].path}
<1>2. kept = DefaultsOf(s)
  BY DEF TableKept, DefaultsOf
<1>3. dedupedAllowDevs(s) = Kept([i \in DOMAIN allowed |-> i], kept)
  BY DEF dedupedAllowDevs
<1> HIDE DEF kept
<1> QED  BY <1>1, <1>2, <1>3 DEF InOrder

LEMMA CgroupRulesAre ==
    ASSUME TableKept, NEW s
    PROVE  CgroupRules(s) = DocRules(s) \o DefaultRules(s)
<1> DEFINE D == InOrder(s)
<1>1. D \in Seq(1..11) /\ dedupedAllowDevs(s) = D
  BY InOrderFacts, DedupIs
<1> HIDE DEF D
<1>2. \A j \in DOMAIN D : D[j] \in 1..11
  BY <1>1, LenProperties, ElementOfSeq
<1>3. [j \in DOMAIN D |-> allowed[D[j]].rule] = [j \in DOMAIN D |-> AllowedDevices[D[j]].rule]
  BY <1>2 DEF TableKept
<1> QED  BY <1>1, <1>3 DEF CgroupRules, DocRules, DefaultRules, D

(* What is in a concatenation is in one of its parts.                      *)
LEMMA ConcatRng ==
    ASSUME NEW S, NEW T, NEW a \in Seq(S), NEW b \in Seq(T)
    PROVE  Rng(a \o b) \subseteq Rng(a) \cup Rng(b)
<1>1. a \in Seq(S \cup T) /\ b \in Seq(S \cup T)
  BY SeqMonotonic
<1>2. /\ a \o b \in Seq(S \cup T) /\ Len(a \o b) = Len(a) + Len(b)
      /\ \A i \in 1..Len(a) + Len(b) : (a \o b)[i] = IF i <= Len(a) THEN a[i] ELSE b[i - Len(a)]
  BY <1>1, ConcatProperties
<1> DEFINE c == a \o b
<1>3. /\ DOMAIN a = 1..Len(a) /\ DOMAIN b = 1..Len(b) /\ DOMAIN c = 1..Len(c)
      /\ Len(a) \in Nat /\ Len(b) \in Nat
  BY <1>2, LenProperties
<1> HIDE DEF c
<1>4. ASSUME NEW i \in DOMAIN c PROVE c[i] \in Rng(a) \cup Rng(b)
  <2>1. i \in 1..Len(a) + Len(b)
    BY <1>2, <1>3, <1>4 DEF c
  <2>2. CASE i <= Len(a)
    <3>1. i \in DOMAIN a
      BY ONLY <1>3, <2>1, <2>2
    <3> QED  BY <1>2, <2>1, <2>2, <3>1 DEF Rng, c
  <2>3. CASE ~(i <= Len(a))
    <3>1. i - Len(a) \in DOMAIN b
      BY ONLY <1>3, <2>1, <2>3
    <3> QED  BY <1>2, <2>1, <2>3, <3>1 DEF Rng, c
  <2> QED  BY <2>2, <2>3
<1> QED  BY <1>4 DEF Rng, c

LEMMA DeviceNodesGood ==
    ASSUME TableKept, NEW s \in Specs, NEW n \in Rng(DeviceNodes(s))
    PROVE  GoodNode(n, s)
<1> DEFINE D == InOrder(s)
           N == Kept(D, {i \in DOMAIN allowed : allowed[i].path # ""})
           X == [k \in DOMAIN N |-> Shared(N[k])]
           Y == IF s.linux THEN [k \in DOMAIN s.devs |-> Own(s.devs[k])] ELSE <<>>
<1>1. DeviceNodes(s) = X \o Y
  <2>1. dedupedAllowDevs(s) = D
    BY DedupIs
  <2> HIDE DEF D
  <2> QED  BY <2>1, Zenon DEF DeviceNodes
<1>2. D \in Seq(1..11) /\ Rng(D) = DefaultsOf(s)
  BY InOrderFacts
<1>3. N \in Seq(1..11) /\ Rng(N) = Rng(D) \cap {i \in DOMAIN allowed : allowed[i].path # ""}
  <2> HIDE DEF D
  <2> QED  BY <1>2, KeptFacts
<1>4. \A i \in Rng(N) : i \in DefaultsOf(s) /\ AllowedDevices[i].path # ""
  BY <1>2, <1>3 DEF TableKept, DefaultsOf
<1> HIDE DEF N
<1>5. \E S : X \in Seq(S)
  <2>1. Len(N) \in Nat /\ DOMAIN N = 1..Len(N)
    BY <1>3, LenProperties
  <2> DEFINE S == {Shared(N[k]) : k \in DOMAIN N}
  <2>2. X \in [1..Len(N) -> S]
    BY <2>1
  <2> HIDE DEF S, X
  <2>3. X \in Seq(S)
    BY ONLY <2>1, <2>2, SeqDef
  <2> QED  BY <2>3
<1>6. \E S : Y \in Seq(S)
  <2> DEFINE dev == s.devs
  <2>1. dev \in Seq(LinuxDevice)
    BY SpecAssumption
  <2> HIDE DEF dev
  <2>2. Len(dev) \in Nat /\ DOMAIN dev = 1..Len(dev)
    BY <2>1, LenProperties
  <2> DEFINE S == {Own(dev[k]) : k \in DOMAIN dev}
             Z == [k \in DOMAIN dev |-> Own(dev[k])]
  <2>3. Z \in [1..Len(dev) -> S]
    BY <2>2
  <2>4. Y \in {Z, <<>>}
    BY DEF dev
  <2> HIDE DEF S, Z, Y
  <2>5. Z \in Seq(S) /\ <<>> \in Seq(S)
    BY ONLY <2>2, <2>3, SeqDef
  <2> QED  BY <2>4, <2>5
<1>7. n \in Rng(X) \/ n \in Rng(Y)
  <2> HIDE DEF X, Y
  <2> QED  BY <1>1, <1>5, <1>6, ConcatRng
<1>8. CASE n \in Rng(X)
  <2>1. PICK i \in Rng(N) : n = Shared(i)
    BY <1>8 DEF Rng
  <2>2. DOMAIN n = NodeFields /\ n.ref = i
    BY <2>1 DEF Shared, NodeFields
  <2> QED  BY <1>4, <2>1, <2>2 DEF GoodNode
<1>9. CASE n \in Rng(Y)
  <2>1. PICK d : n = Own(d)
    <3>1. CASE s.linux
      BY <1>9, <3>1 DEF Rng
    <3>2. CASE ~s.linux
      <4>1. Rng(Y) = {}
        BY <3>2 DEF Rng
      <4> QED  BY <1>9, <4>1
    <3> QED  BY <3>1, <3>2
  <2> QED  BY <2>1 DEF Own, NodeFields, GoodNode
<1> QED  BY <1>7, <1>8, <1>9

LEMMA InitDevInv == Init => DevInv
<1> SUFFICES ASSUME Init PROVE DevInv
  OBVIOUS
<1>1. TableKept
  BY TableFacts DEF Init, TableKept, GoodDefault
<1>2. ASSUME NEW k \in Calls
      PROVE  NodesKnown(k) /\ RulesKnown(k)
  <2>1. pc[k] = "mounts" /\ config[k].devices = <<>>
    BY DEF Init, EmptyConfig
  <2>2. Rng(<<>>) = {}
    BY DEF Rng
  <2> QED  BY <2>1, <2>2 DEF NodesKnown, RulesKnown, RulesSet
<1> QED  BY <1>1, <1>2 DEF DevInv

(* A step of one call leaves the nodes and rules of the others alone.      *)
LEMMA OtherNodesKept ==
    ASSUME Shape, DevInv, NEW k \in Calls, NEW to, NEW c,
           pc' = [pc EXCEPT ![k] = to], config' = [config EXCEPT ![k] = c], spec' = spec,
           TableKept', NodesKnown(k)', RulesKnown(k)'
    PROVE  DevInv'
<1>1. ASSUME NEW j \in Calls, j # k
      PROVE  NodesKnown(j)' /\ RulesKnown(j)'
  <2>1. pc'[j] = pc[j] /\ config'[j] = config[j] /\ spec'[j] = spec[j]
    BY <1>1 DEF Shape
  <2>2. NodesKnown(j) /\ RulesKnown(j)
    BY DEF DevInv
  <2> QED  BY <2>1, <2>2 DEF NodesKnown, RulesKnown
<1> QED  BY <1>1 DEF DevInv

(* A step that sets neither devices nor rules.                             *)
LEMMA SameNodesKeep ==
    ASSUME Shape, DevInv, NEW k \in Calls, NEW to, NEW c,
           to \in RulesSet => pc[k] \in RulesSet,
           c.devices = config[k].devices, c.rules = config[k].rules,
           pc' = [pc EXCEPT ![k] = to], config' = [config EXCEPT ![k] = c],
           UNCHANGED <<spec, allowed>>
    PROVE  DevInv'
<1>1. TableKept'
  BY DEF DevInv, TableKept
<1>2. pc'[k] = to /\ config'[k] = c /\ spec'[k] = spec[k]
  BY DEF Shape
<1>3. NodesKnown(k)' /\ RulesKnown(k)'
  BY <1>2 DEF DevInv, NodesKnown, RulesKnown, RulesSet
<1> QED  BY <1>1, <1>3, OtherNodesKept

LEMMA StopKeepsDevInv ==
    ASSUME Shape, DevInv, NEW k \in Calls, NEW to \in {"refused", "panicked"},
           pc' = [pc EXCEPT ![k] = to], UNCHANGED <<spec, config, allowed>>
    PROVE  DevInv'
<1>1. config' = [config EXCEPT ![k] = config[k]]
  BY DEF Shape
<1>2. to \notin RulesSet
  BY DEF RulesSet
<1> QED  BY <1>1, <1>2, SameNodesKeep

LEMMA RefuseKeepsDevInv ==
    ASSUME Shape, DevInv, NEW k \in Calls, Refuse(k)
    PROVE  DevInv'
BY StopKeepsDevInv DEF Refuse

LEMMA MountsDevInv ==
    ASSUME Shape, DevInv, NEW k \in Calls, CreateMounts(k)
    PROVE  DevInv'
<1>1. CASE Refuse(k)
  BY <1>1, RefuseKeepsDevInv
<1>2. CASE ~Refuse(k)
  <2> DEFINE mounts == [i \in DOMAIN spec[k].mounts |-> createLibcontainerMount(spec[k].mounts[i])]
             c == [config[k] EXCEPT !.mounts = mounts]
  <2>1. Go(k, "devices", c)
    BY <1>2 DEF CreateMounts
  <2> HIDE DEF mounts
  <2>2. c.devices = config[k].devices /\ c.rules = config[k].rules
    BY DEF Shape, Fields
  <2> HIDE DEF c
  <2>3. "devices" \notin RulesSet
    BY DEF RulesSet
  <2> QED  BY <2>1, <2>2, <2>3, SameNodesKeep DEF Go
<1> QED  BY <1>1, <1>2

LEMMA DevicesDevInv ==
    ASSUME Shape, DevInv, NEW k \in Calls, createDevices(k)
    PROVE  DevInv'
<1>1. CASE Refuse(k)
  BY <1>1, RefuseKeepsDevInv
<1>2. CASE ~Refuse(k)
  <2> DEFINE devices == DeviceNodes(spec[k])
             c == [config[k] EXCEPT !.devices = devices]
  <2>1. Go(k, "cgroup", c)
    BY <1>2 DEF createDevices
  <2>2. \A n \in Rng(devices) : GoodNode(n, spec[k])
    BY DeviceNodesGood DEF DevInv, Shape
  <2> HIDE DEF devices
  <2>3. c.devices = devices
    BY DEF Shape, Fields
  <2>4. pc'[k] = "cgroup" /\ config'[k] = c /\ spec'[k] = spec[k] /\ allowed' = allowed
    BY <2>1 DEF Go, Shape
  <2> HIDE DEF c
  <2>5. NodesKnown(k)' /\ RulesKnown(k)' /\ TableKept'
    BY <2>2, <2>3, <2>4 DEF NodesKnown, RulesKnown, RulesSet, DevInv, TableKept
  <2> QED  BY <2>1, <2>5, OtherNodesKept DEF Go
<1> QED  BY <1>1, <1>2

LEMMA CgroupDevInv ==
    ASSUME Shape, DevInv, NEW k \in Calls, CreateCgroupConfig(k)
    PROVE  DevInv'
<1>1. CASE Refuse(k)
  BY <1>1, RefuseKeepsDevInv
<1>2. CASE ~Refuse(k)
  <2> DEFINE s == spec[k]
             to == IF s.linux THEN "namespaces" ELSE "owner"
             rules == CgroupRules(s)
             res == Resources(s)
             place == CgroupPlace(s)
             props == IF s.systemd THEN {SystemdProp(a) : a \in s.annots} ELSE {}
             c == [config[k] EXCEPT !.rules = rules, !.res = res, !.place = place, !.props = props]
  <2>1. Go(k, to, c) /\ RulesConvert(s)
    BY <1>2 DEF CreateCgroupConfig
  <2>2. rules = DocRules(s) \o DefaultRules(s)
    BY CgroupRulesAre DEF DevInv
  <2> HIDE DEF rules, res, place, props, s
  <2>3. c.devices = config[k].devices /\ c.rules = rules
    BY DEF Shape, Fields
  <2>4. pc'[k] = to /\ config'[k] = c /\ spec'[k] = s /\ spec[k] = s /\ allowed' = allowed
    BY <2>1 DEF Go, Shape, s
  <2> HIDE DEF c
  <2>5. NodesKnown(k)' /\ TableKept'
    BY <2>3, <2>4 DEF NodesKnown, DevInv, TableKept
  <2>6. RulesKnown(k)'
    BY <2>1, <2>2, <2>3, <2>4 DEF RulesKnown, RulesSet
  <2> HIDE DEF to
  <2> QED  BY <2>1, <2>5, <2>6, OtherNodesKept DEF Go
<1> QED  BY <1>1, <1>2

LEMMA NamespacesDevInv ==
    ASSUME Shape, DevInv, NEW k \in Calls, CreateNamespaces(k)
    PROVE  DevInv'
<1>1. CASE Refuse(k)
  BY <1>1, RefuseKeepsDevInv
<1>2. CASE ~Refuse(k)
  <2> DEFINE s == spec[k]
             types == {ns[1] : ns \in Rng(s.namespaces)}
             paths == [t \in types |-> (CHOOSE ns \in Rng(s.namespaces) : ns[1] = t)[2]]
             networks == "network" \in types /\ paths["network"] = ""
             to == IF "user" \in types THEN "userns" ELSE "seccomp"
             c == [config[k] EXCEPT !.namespaces = paths, !.networks = networks]
  <2>1. pc[k] = "namespaces" /\ Go(k, to, c)
    BY <1>2 DEF CreateNamespaces
  <2> HIDE DEF networks, paths
  <2>2. c.devices = config[k].devices /\ c.rules = config[k].rules
    BY DEF Shape, Fields
  <2> HIDE DEF c, to
  <2>3. pc[k] \in RulesSet
    BY <2>1 DEF RulesSet
  <2> QED  BY <2>1, <2>2, <2>3, SameNodesKeep DEF Go
<1> QED  BY <1>1, <1>2

(* The nodes and the table get another owner, and nothing else.            *)
LEMMA UsernsDevInv ==
    ASSUME Shape, DevInv, NEW k \in Calls, setupUserNamespace(k)
    PROVE  DevInv'
<1>1. CASE Refuse(k)
  BY <1>1, RefuseKeepsDevInv
<1>2. CASE ~Refuse(k)
  <2> DEFINE s == spec[k]
             maps == Mappings(config[k], s)
             c == [config[k] EXCEPT !.uidMap = maps.uid, !.gidMap = maps.gid]
             uid == HostUID(c, 0)
             gid == HostGID(c, 0)
             touched == {n.ref : n \in Rng(c.devices)}
             devices == [i \in DOMAIN c.devices |-> [c.devices[i] EXCEPT !.uid = uid, !.gid = gid]]
             d == [c EXCEPT !.devices = devices]
  <2>1. /\ pc[k] = "userns"
        /\ pc' = [pc EXCEPT ![k] = "seccomp"] /\ spec' = spec
        /\ config' = [config EXCEPT ![k] = d]
        /\ allowed' = [i \in DOMAIN allowed |->
                         IF i \in touched THEN [allowed[i] EXCEPT !.uid = uid, !.gid = gid] ELSE allowed[i]]
    <3> HIDE DEF maps
    <3>1. \A old : [old EXCEPT !.devices = [i \in DOMAIN @ |->
                          [@[i] EXCEPT !.uid = HostUID(c, 0), !.gid = HostGID(c, 0)]]]
                 = [old EXCEPT !.devices = [i \in DOMAIN old.devices |->
                          [old.devices[i] EXCEPT !.uid = HostUID(c, 0), !.gid = HostGID(c, 0)]]]
      OBVIOUS
    <3> QED  BY <1>2, <3>1 DEF setupUserNamespace, maps
  <2> HIDE DEF maps, uid, gid
  <2>2. c.devices = config[k].devices /\ c.rules = config[k].rules /\ DOMAIN c = Fields
    BY DEF Shape, Fields
  <2> HIDE DEF c, devices, touched
  <2>3. d.devices = devices /\ d.rules = config[k].rules
    BY <2>2 DEF Fields
  <2>4. pc'[k] = "seccomp" /\ config'[k] = d /\ spec'[k] = s
    BY <2>1 DEF Shape, s
  <2> HIDE DEF d, s
  <2>5. TableKept'
    <3>1. DOMAIN allowed' = 1..11
      BY <2>1 DEF DevInv, TableKept
    <3>2. ASSUME NEW i \in 1..11
          PROVE  /\ DOMAIN allowed'[i] = DefaultFields
                 /\ allowed'[i].path = AllowedDevices[i].path
                 /\ allowed'[i].rule = AllowedDevices[i].rule
      <4>1. allowed'[i] \in {allowed[i], [allowed[i] EXCEPT !.uid = uid, !.gid = gid]}
        BY <2>1 DEF DevInv, TableKept
      <4> QED  BY <4>1 DEF DevInv, TableKept, DefaultFields
    <3> QED  BY <3>1, <3>2 DEF TableKept
  <2>6. ASSUME NEW m \in Rng(devices) PROVE GoodNode(m, s)
    <3>1. PICK n \in Rng(config[k].devices) : m = [n EXCEPT !.uid = uid, !.gid = gid]
      BY <2>2 DEF devices, Rng
    <3>2. GoodNode(n, s)
      BY DEF DevInv, NodesKnown, s
    <3>3. DOMAIN m = NodeFields /\ m.ref = n.ref
      BY <3>1, <3>2 DEF GoodNode, NodeFields
    <3> QED  BY <3>2, <3>3 DEF GoodNode
  <2>7. NodesKnown(k)'
    BY <2>3, <2>4, <2>6 DEF NodesKnown
  <2>8. RulesKnown(k)'
    BY <2>1, <2>3, <2>4 DEF DevInv, RulesKnown, RulesSet, s
  <2> QED  BY <2>1, <2>5, <2>7, <2>8, OtherNodesKept
<1> QED  BY <1>1, <1>2

LEMMA OwnerDevInv ==
    ASSUME Shape, DevInv, NEW k \in Calls, SetOwner(k)
    PROVE  DevInv'
<1> DEFINE owner == HostUID(config[k], spec[k].uid)
<1>1. PICK c : Go(k, "validate", c) /\ c \in {config[k], [config[k] EXCEPT !.owner = owner]}
  BY DEF SetOwner
<1> HIDE DEF owner
<1>2. c.devices = config[k].devices /\ c.rules = config[k].rules
  BY <1>1 DEF Shape, Fields
<1>3. pc[k] \in RulesSet
  BY DEF SetOwner, RulesSet
<1> QED  BY <1>1, <1>2, <1>3, SameNodesKeep DEF Go

LEMMA StepDevInv == Shape /\ DevInv /\ [Next]_vars => DevInv'
<1> SUFFICES ASSUME Shape, DevInv, [Next]_vars
             PROVE  DevInv'
  OBVIOUS
<1>1. ASSUME UNCHANGED vars
      PROVE  DevInv'
  <2>1. pc' = pc /\ spec' = spec /\ config' = config /\ allowed' = allowed
    BY <1>1 DEF vars
  <2>2. TableKept' /\ \A k \in Calls : NodesKnown(k)' /\ RulesKnown(k)'
    BY <2>1 DEF DevInv, TableKept, NodesKnown, RulesKnown
  <2> QED  BY <2>2 DEF DevInv
<1>2. ASSUME NEW k \in Calls, Convert(k)
      PROVE  DevInv'
  <2>1. CASE CreateMounts(k)
    BY <2>1, MountsDevInv
  <2>2. CASE createDevices(k)
    BY <2>2, DevicesDevInv
  <2>3. CASE CreateCgroupConfig(k)
    BY <2>3, CgroupDevInv
  <2>4. CASE Panic(k)
    BY <2>4, StopKeepsDevInv DEF Panic
  <2>5. CASE CreateNamespaces(k)
    BY <2>5, NamespacesDevInv
  <2>6. CASE setupUserNamespace(k)
    BY <2>6, UsernsDevInv
  <2>7. ASSUME NEW to, pc[k] \in {"seccomp", "validate"}, Go(k, to, config[k]) \/ Refuse(k)
        PROVE  DevInv'
    <3>1. pc[k] \in RulesSet
      BY <2>7 DEF RulesSet
    <3> QED  BY <2>7, <3>1, RefuseKeepsDevInv, SameNodesKeep DEF Go
  <2>8. CASE ConvertSeccomp(k)
    BY <2>7, <2>8 DEF ConvertSeccomp
  <2>9. CASE SetOwner(k)
    BY <2>9, OwnerDevInv
  <2>10. CASE Validate(k)
    <3>1. pc[k] = "validate" /\ (Go(k, "accepted", config[k]) \/ Refuse(k))
      BY <2>10 DEF Validate
    <3> QED  BY <2>7, <3>1
  <2> QED  BY <1>2, <2>1, <2>2, <2>3, <2>4, <2>5, <2>6, <2>8, <2>9, <2>10 DEF Convert
<1> QED  BY <1>1, <1>2 DEF Next, Finished

LEMMA DevInvariance == Spec => []DevInv
<1>1. MapInv => Shape
  BY DEF MapInv
<1> QED  BY <1>1, InitDevInv, StepDevInv, MappingInvariance, PTL DEF Spec

(* The default device nodes of an accepted container can be used, whatever *)
(* rules its document gives: CreateCgroupConfig appends the default rules  *)
(* last, and setupUserNamespace never changes a rule of the table.         *)
THEOREM DefaultsAreUsable == Spec => []DefaultDevicesUsable
<1>1. MapInv /\ DevInv => DefaultDevicesUsable
  <2> SUFFICES ASSUME Shape, DevInv, NEW k \in Calls, Accepted(k), ~Emulate(config[k].rules).err,
                      NEW n \in Rng(config[k].devices), n.ref # 0, NEW p \in RWM
               PROVE  Allowed(Emulate(config[k].rules).emu, MetaOf(AllowedDevices[n.ref].rule), p)
    BY DEF MapInv, DefaultDevicesUsable, MetaOf
  <2>1. spec[k] \in Specs
    BY DEF Shape
  <2>2. GoodNode(n, spec[k])
    BY DEF DevInv, NodesKnown
  <2>3. RulesConvert(spec[k]) /\ config[k].rules = DocRules(spec[k]) \o DefaultRules(spec[k])
    BY DEF DevInv, RulesKnown, RulesSet, Accepted
  <2> QED  BY <2>1, <2>2, <2>3, DefaultUsable DEF GoodNode
<1> QED  BY <1>1, MappingInvariance, DevInvariance, PTL

-----------------------------------------------------------------------------
(* A seccomp profile on its way (Seccomp): iteration orders.               *)

(* The first elements of an order.                                         *)
Taken(order, n) == {order[k] : k \in 1..n}

LEMMA NoneTaken == ASSUME NEW order PROVE Taken(order, 0) = {}
<1>1. ~(\E k \in 1..0 : TRUE)
  OBVIOUS
<1> QED  BY <1>1 DEF Taken

-----------------------------------------------------------------------------
(* Programs.  The stub is made from its end, so a place in it is named by  *)
(* how many instructions follow.                                           *)

Conds == {"eq", "ne", "gt", "le", "set", "clear"}
Insns(V) ==
    [op : {"ld"}, field : {"arch", "nr"}] \cup [op : {"ja"}, skip : Nat] \cup [op : {"ret"}]
    \cup [op : {"jif"}, cond : Conds, val : V, t : Nat, f : Nat]

End(t, e) == t[Len(t) - e]

(* The code stands right before the last L instructions.                   *)
CodeAt(t, L, code) ==
    /\ L + Len(code) <= Len(t)
    /\ \A j \in 1..Len(code) : End(t, L + Len(code) - j) = code[j]

LEMMA ConcatIs ==
    ASSUME NEW S, NEW a \in Seq(S), NEW b \in Seq(S)
    PROVE  /\ a \o b \in Seq(S) /\ Len(a \o b) = Len(a) + Len(b)
           /\ Len(a) \in Nat /\ Len(b) \in Nat
           /\ \A i \in 1..Len(a) : (a \o b)[i] = a[i]
           /\ \A i \in 1..Len(b) : (a \o b)[Len(a) + i] = b[i]
<1>1. /\ a \o b \in Seq(S) /\ Len(a \o b) = Len(a) + Len(b)
      /\ \A i \in 1..Len(a) + Len(b) : (a \o b)[i] = IF i <= Len(a) THEN a[i] ELSE b[i - Len(a)]
  BY ConcatProperties
<1>2. Len(a) \in Nat /\ Len(b) \in Nat
  BY LenProperties
<1>3. ASSUME NEW i \in 1..Len(a) PROVE (a \o b)[i] = a[i]
  <2>1. i \in 1..Len(a) + Len(b) /\ i <= Len(a)
    BY ONLY <1>2, <1>3
  <2> QED  BY <1>1, <2>1
<1>4. ASSUME NEW i \in 1..Len(b) PROVE (a \o b)[Len(a) + i] = b[i]
  <2>1. Len(a) + i \in 1..Len(a) + Len(b) /\ ~(Len(a) + i <= Len(a)) /\ (Len(a) + i) - Len(a) = i
    BY ONLY <1>2, <1>4
  <2> QED  BY <1>1, <2>1
<1> QED  BY <1>1, <1>2, <1>3, <1>4

(* Code in two parts.                                                      *)
LEMMA SplitCode ==
    ASSUME NEW S, NEW a \in Seq(S), NEW b \in Seq(S), NEW t \in Seq(S), NEW L \in Nat, CodeAt(t, L, a \o b)
    PROVE  CodeAt(t, L, b) /\ CodeAt(t, L + Len(b), a)
<1> DEFINE c == a \o b
<1>1. /\ Len(c) = Len(a) + Len(b) /\ Len(a) \in Nat /\ Len(b) \in Nat
      /\ \A i \in 1..Len(a) : c[i] = a[i]
      /\ \A i \in 1..Len(b) : c[Len(a) + i] = b[i]
  BY ConcatIs
<1>2. L + Len(c) <= Len(t) /\ Len(t) \in Nat /\ \A j \in 1..Len(c) : End(t, L + Len(c) - j) = c[j]
  BY LenProperties DEF CodeAt
<1> HIDE DEF c
<1>3. ASSUME NEW j \in 1..Len(b) PROVE End(t, L + Len(b) - j) = b[j]
  <2>1. Len(a) + j \in 1..Len(c) /\ L + Len(c) - (Len(a) + j) = L + Len(b) - j
    BY ONLY <1>1, <1>3, L \in Nat
  <2>2. End(t, L + Len(c) - (Len(a) + j)) = c[Len(a) + j]
    BY <1>2, <2>1
  <2> QED  BY <1>1, <2>1, <2>2
<1>4. ASSUME NEW j \in 1..Len(a) PROVE End(t, (L + Len(b)) + Len(a) - j) = a[j]
  <2>1. j \in 1..Len(c) /\ L + Len(c) - j = (L + Len(b)) + Len(a) - j
    BY ONLY <1>1, <1>4, L \in Nat
  <2> QED  BY <1>1, <1>2, <2>1
<1>5. L + Len(b) <= Len(t) /\ (L + Len(b)) + Len(a) <= Len(t)
  BY ONLY <1>1, <1>2, L \in Nat
<1> QED  BY <1>3, <1>4, <1>5 DEF CodeAt

-----------------------------------------------------------------------------
(* Running a program.                                                      *)

States == (Nat \ {0}) \X Accumulators

From(prog, data, f, s) ==
    IF s[1] = Len(prog) + 1 THEN "filter"
    ELSE IF s[1] > Len(prog) THEN "astray"
    ELSE LET insn == prog[s[1]]
         IN  CASE insn.op = "ld" -> f[<<s[1] + 1, insn.field>>]
               [] insn.op = "ja" -> f[<<s[1] + 1 + insn.skip, s[2]>>]
               [] insn.op = "ret" -> "ENOSYS"
               [] insn.op = "jif" /\ Holds(insn.cond, data[s[2]], insn.val) -> f[<<s[1] + 1 + insn.t, s[2]>>]
               [] OTHER -> f[<<s[1] + 1 + insn.f, s[2]>>]

IsRun(f, prog, data) == f = [s \in States |-> From(prog, data, f, s)]

(* Only what follows an instruction matters to it: jumps go forward.       *)
LEMMA FromLooksAhead ==
    ASSUME NEW V, NEW prog \in Seq(Insns(V)), NEW data, NEW f, NEW g, NEW s \in States,
           \A u \in States : u[1] > s[1] => f[u] = g[u]
    PROVE  From(prog, data, f, s) = From(prog, data, g, s)
<1>0. s[1] \in Nat \ {0} /\ s[2] \in Accumulators /\ Len(prog) \in Nat
  BY LenProperties DEF States
<1>1. CASE s[1] > Len(prog) \/ s[1] = Len(prog) + 1
  <2>1. s[1] > Len(prog)
    BY ONLY <1>0, <1>1
  <2> QED  BY <2>1 DEF From
<1>2. CASE ~(s[1] > Len(prog) \/ s[1] = Len(prog) + 1)
  <2> DEFINE insn == prog[s[1]]
  <2>1. insn \in Insns(V)
    <3>1. s[1] \in 1..Len(prog)
      BY <1>0, <1>2
    <3> QED  BY <3>1, ElementOfSeq
  <2> HIDE DEF insn
  <2>2. /\ insn.op = "ld" => insn.field \in Accumulators
        /\ insn.op = "ja" => insn.skip \in Nat
        /\ insn.op = "jif" => insn.t \in Nat /\ insn.f \in Nat
        /\ insn.op \in {"ld", "ja", "ret", "jif"}
    BY <2>1 DEF Insns, Accumulators
  <2>3. ASSUME NEW n \in Nat, NEW r \in Accumulators
        PROVE  f[<<s[1] + 1 + n, r>>] = g[<<s[1] + 1 + n, r>>]
    <3> DEFINE u == <<s[1] + 1 + n, r>>
    <3>1. u \in States /\ u[1] > s[1]
      BY <1>0 DEF States
    <3> HIDE DEF u
    <3>2. f[u] = g[u]
      BY <3>1
    <3> QED  BY <3>2 DEF u
  <2>4. insn.op = "ld" => f[<<s[1] + 1, insn.field>>] = g[<<s[1] + 1, insn.field>>]
    <3>1. s[1] + 1 + 0 = s[1] + 1
      BY <1>0
    <3>2. insn.op = "ld" => f[<<s[1] + 1 + 0, insn.field>>] = g[<<s[1] + 1 + 0, insn.field>>]
      BY <2>2, <2>3
    <3> QED  BY <3>1, <3>2
  <2>5. insn.op = "ja" => f[<<s[1] + 1 + insn.skip, s[2]>>] = g[<<s[1] + 1 + insn.skip, s[2]>>]
    BY <1>0, <2>2, <2>3
  <2>6. insn.op = "jif" => /\ f[<<s[1] + 1 + insn.t, s[2]>>] = g[<<s[1] + 1 + insn.t, s[2]>>]
                           /\ f[<<s[1] + 1 + insn.f, s[2]>>] = g[<<s[1] + 1 + insn.f, s[2]>>]
    BY <1>0, <2>2, <2>3
  <2>7. ASSUME NEW h
        PROVE  From(prog, data, h, s) =
                 CASE insn.op = "ld" -> h[<<s[1] + 1, insn.field>>]
                   [] insn.op = "ja" -> h[<<s[1] + 1 + insn.skip, s[2]>>]
                   [] insn.op = "ret" -> "ENOSYS"
                   [] insn.op = "jif" /\ Holds(insn.cond, data[s[2]], insn.val) -> h[<<s[1] + 1 + insn.t, s[2]>>]
                   [] OTHER -> h[<<s[1] + 1 + insn.f, s[2]>>]
    BY <1>2 DEF From, insn
  <2>8. From(prog, data, f, s) =
                 CASE insn.op = "ld" -> f[<<s[1] + 1, insn.field>>]
                   [] insn.op = "ja" -> f[<<s[1] + 1 + insn.skip, s[2]>>]
                   [] insn.op = "ret" -> "ENOSYS"
                   [] insn.op = "jif" /\ Holds(insn.cond, data[s[2]], insn.val) -> f[<<s[1] + 1 + insn.t, s[2]>>]
                   [] OTHER -> f[<<s[1] + 1 + insn.f, s[2]>>]
    BY <2>7
  <2>9. From(prog, data, g, s) =
                 CASE insn.op = "ld" -> g[<<s[1] + 1, insn.field>>]
                   [] insn.op = "ja" -> g[<<s[1] + 1 + insn.skip, s[2]>>]
                   [] insn.op = "ret" -> "ENOSYS"
                   [] insn.op = "jif" /\ Holds(insn.cond, data[s[2]], insn.val) -> g[<<s[1] + 1 + insn.t, s[2]>>]
                   [] OTHER -> g[<<s[1] + 1 + insn.f, s[2]>>]
    BY <2>7
  <2> QED  BY <2>2, <2>4, <2>5, <2>6, <2>8, <2>9
<1> QED  BY <1>1, <1>2

LEMMA RunExists ==
    ASSUME NEW V, NEW prog \in Seq(Insns(V)), NEW data
    PROVE  \E f : IsRun(f, prog, data)
<1> DEFINE n == Len(prog) + 1
           Fits(f, m) == \A s \in States : s[1] > n - m => f[s] = From(prog, data, f, s)
           D == {m \in Nat : \E f : Fits(f, m)}
<1>0. n \in Nat
  BY LenProperties
<1> HIDE DEF n, Fits
<1>1. 0 \in D
  <2> DEFINE f == [s \in States |-> "astray"]
  <2>1. ASSUME NEW s \in States, s[1] > n - 0 PROVE f[s] = From(prog, data, f, s)
    <3>1. s[1] \in Nat /\ Len(prog) \in Nat
      BY LenProperties DEF States
    <3>2. ~(s[1] = Len(prog) + 1) /\ s[1] > Len(prog)
      BY <2>1, <3>1 DEF n
    <3> QED  BY <3>2 DEF From
  <2> HIDE DEF f
  <2> QED  BY <2>1 DEF Fits
<1>2. ASSUME NEW m \in Nat, m \in D PROVE m + 1 \in D
  <2>1. PICK f : Fits(f, m)
    BY <1>2
  <2> DEFINE g == [s \in States |-> IF s[1] > n - m THEN f[s] ELSE From(prog, data, f, s)]
  <2>2. \A s \in States : s[1] > n - m => g[s] = f[s]
    OBVIOUS
  <2>3. \A s \in States : ~(s[1] > n - m) => g[s] = From(prog, data, f, s)
    OBVIOUS
  <2> HIDE DEF g
  <2>4. ASSUME NEW s \in States, s[1] > n - (m + 1) PROVE g[s] = From(prog, data, g, s)
    <3>1. s[1] \in Nat
      BY DEF States
    <3>2. \A u \in States : u[1] > s[1] => f[u] = g[u]
      <4> SUFFICES ASSUME NEW u \in States, u[1] > s[1] PROVE f[u] = g[u]
        OBVIOUS
      <4>1. u[1] \in Nat
        BY DEF States
      <4>2. u[1] > n - m
        BY ONLY <1>0, <2>4, <3>1, <4>1, m \in Nat, u[1] > s[1]
      <4> QED  BY <2>2, <4>2
    <3>3. From(prog, data, f, s) = From(prog, data, g, s)
      BY <3>2, FromLooksAhead
    <3>4. CASE s[1] > n - m
      <4>1. f[s] = From(prog, data, f, s)
        BY <2>1, <3>4 DEF Fits
      <4> QED  BY <2>2, <3>3, <3>4, <4>1
    <3>5. CASE ~(s[1] > n - m)
      BY <2>3, <3>3, <3>5
    <3> QED  BY <3>4, <3>5
  <2>5. Fits(g, m + 1)
    BY <2>4 DEF Fits
  <2> QED  BY <2>5
<1> HIDE DEF D
<1>3. n \in D
  BY <1>0, <1>1, <1>2, NatSetInduction
<1>4. PICK f : Fits(f, n)
  BY <1>3 DEF D
<1>5. ASSUME NEW s \in States PROVE f[s] = From(prog, data, f, s)
  <2>1. s[1] \in Nat \ {0}
    BY DEF States
  <2>2. s[1] > n - n
    BY ONLY <1>0, <2>1
  <2> QED  BY <1>4, <2>2 DEF Fits
<1> DEFINE h == [s \in States |-> f[s]]
<1>6. \A s \in States : f[s] = h[s]
  OBVIOUS
<1>7. h = [s \in States |-> h[s]]
  OBVIOUS
<1> HIDE DEF h
<1>8. ASSUME NEW s \in States PROVE h[s] = From(prog, data, h, s)
  BY <1>5, <1>6, FromLooksAhead
<1>9. h = [s \in States |-> From(prog, data, h, s)]
  BY <1>7, <1>8
<1> QED  BY <1>9 DEF IsRun

(* The run where n instructions are left; with none left it is in the      *)
(* filter behind the stub.                                                 *)
TheRun(prog, data) == CHOOSE f : IsRun(f, prog, data)
Left(prog, data, n, field) == TheRun(prog, data)[<<Len(prog) + 1 - n, field>>]

LEMMA RunIs ==
    ASSUME NEW V, NEW prog \in Seq(Insns(V)), NEW data
    PROVE  /\ Run(prog, data) = TheRun(prog, data)[<<1, "none">>]
           /\ \A s \in States : TheRun(prog, data)[s] = From(prog, data, TheRun(prog, data), s)
<1>1. IsRun(TheRun(prog, data), prog, data)
  BY RunExists DEF TheRun
<1>2. Run(prog, data) = TheRun(prog, data)[<<1, "none">>]
  BY DEF Run, TheRun, IsRun, From, States
<1> DEFINE f == TheRun(prog, data)
<1>3. f = [s \in States |-> From(prog, data, f, s)]
  BY <1>1 DEF IsRun
<1> HIDE DEF f
<1>4. \A s \in States : f[s] = From(prog, data, f, s)
  BY <1>3
<1> QED  BY <1>2, <1>4 DEF f

LEMMA RunStarts ==
    ASSUME NEW V, NEW prog \in Seq(Insns(V)), NEW data
    PROVE  Run(prog, data) = Left(prog, data, Len(prog), "none")
<1>1. Len(prog) + 1 - Len(prog) = 1
  BY LenProperties
<1> QED  BY <1>1, RunIs DEF Left

LEMMA InFilter ==
    ASSUME NEW V, NEW prog \in Seq(Insns(V)), NEW data, NEW field \in Accumulators
    PROVE  Left(prog, data, 0, field) = "filter"
<1> DEFINE s == <<Len(prog) + 1 - 0, field>>
<1>1. s \in States /\ s[1] = Len(prog) + 1
  BY LenProperties DEF States
<1> HIDE DEF s
<1>2. TheRun(prog, data)[s] = From(prog, data, TheRun(prog, data), s)
  BY <1>1, RunIs
<1> QED  BY <1>1, <1>2 DEF Left, From, s

(* The instruction with n instructions left, itself included.              *)
Has(prog, n, insn) == n \in 1..Len(prog) /\ prog[Len(prog) + 1 - n] = insn

Does(prog, data, insn, n, field) ==
    CASE insn.op = "ld" -> Left(prog, data, n - 1, insn.field)
      [] insn.op = "ja" -> Left(prog, data, n - 1 - insn.skip, field)
      [] insn.op = "ret" -> "ENOSYS"
      [] insn.op = "jif" /\ Holds(insn.cond, data[field], insn.val) -> Left(prog, data, n - 1 - insn.t, field)
      [] OTHER -> Left(prog, data, n - 1 - insn.f, field)

LEMMA InstructionDoes ==
    ASSUME NEW V, NEW prog \in Seq(Insns(V)), NEW data, NEW field \in Accumulators, NEW n, NEW insn, Has(prog, n, insn)
    PROVE  Left(prog, data, n, field) = Does(prog, data, insn, n, field)
<1> DEFINE i == Len(prog) + 1 - n
           s == <<i, field>>
           f == TheRun(prog, data)
<1>1. Len(prog) \in Nat /\ n \in 1..Len(prog)
  BY LenProperties DEF Has
<1>2. i \in 1..Len(prog)
  BY ONLY <1>1
<1>3. prog[i] = insn
  BY DEF Has
<1>4. insn \in Insns(V)
  BY <1>2, <1>3, ElementOfSeq
<1>5. /\ insn.op = "ld" => insn.field \in Accumulators
      /\ insn.op = "ja" => insn.skip \in Nat
      /\ insn.op = "jif" => insn.t \in Nat /\ insn.f \in Nat
      /\ insn.op \in {"ld", "ja", "ret", "jif"}
  BY <1>4 DEF Insns, Accumulators
<1>6. ASSUME NEW k \in Nat PROVE f[<<i + 1 + k, field>>] = Left(prog, data, n - 1 - k, field)
  <2>1. i + 1 + k = Len(prog) + 1 - (n - 1 - k)
    BY ONLY <1>1, <1>2, <1>6
  <2> HIDE DEF i
  <2> QED  BY <2>1 DEF Left
<1>7. i + 1 = Len(prog) + 1 - (n - 1)
  BY ONLY <1>1, <1>2
<1> HIDE DEF i
<1>9. s \in States /\ s[1] = i /\ s[2] = field /\ ~(i = Len(prog) + 1) /\ ~(i > Len(prog))
  BY <1>1, <1>2 DEF States
<1>10. Left(prog, data, n, field) = f[s]
  BY DEF Left, i
<1>11. f[<<i + 1, insn.field>>] = Left(prog, data, n - 1, insn.field)
  BY <1>7 DEF Left
<1> HIDE DEF s, f
<1>12. f[s] = From(prog, data, f, s)
  BY <1>9, RunIs DEF f
<1>13. From(prog, data, f, s) =
          CASE insn.op = "ld" -> f[<<i + 1, insn.field>>]
            [] insn.op = "ja" -> f[<<i + 1 + insn.skip, field>>]
            [] insn.op = "ret" -> "ENOSYS"
            [] insn.op = "jif" /\ Holds(insn.cond, data[field], insn.val) -> f[<<i + 1 + insn.t, field>>]
            [] OTHER -> f[<<i + 1 + insn.f, field>>]
  BY <1>3, <1>9 DEF From
<1>14. insn.op = "ja" => f[<<i + 1 + insn.skip, field>>] = Left(prog, data, n - 1 - insn.skip, field)
  BY <1>5, <1>6
<1>15. insn.op = "jif" => /\ f[<<i + 1 + insn.t, field>>] = Left(prog, data, n - 1 - insn.t, field)
                          /\ f[<<i + 1 + insn.f, field>>] = Left(prog, data, n - 1 - insn.f, field)
  BY <1>5, <1>6
<1>16. f[s] = Does(prog, data, insn, n, field)
  BY <1>5, <1>11, <1>12, <1>13, <1>14, <1>15 DEF Does
<1> QED  BY <1>10, <1>16

LEMMA JumpDoes ==
    ASSUME NEW V, NEW prog \in Seq(Insns(V)), NEW data, NEW field \in Accumulators, NEW n, NEW skip, NEW to,
           Has(prog, n, Jump(skip)), to = n - 1 - skip
    PROVE  Left(prog, data, n, field) = Left(prog, data, to, field)
BY InstructionDoes DEF Does, Jump

LEMMA RetDoes ==
    ASSUME NEW V, NEW prog \in Seq(Insns(V)), NEW data, NEW field \in Accumulators, NEW n, Has(prog, n, RetEnosys)
    PROVE  Left(prog, data, n, field) = "ENOSYS"
<1>1. Left(prog, data, n, field) = Does(prog, data, RetEnosys, n, field)
  BY InstructionDoes
<1>2. Does(prog, data, RetEnosys, n, field) = "ENOSYS"
  BY DEF Does, RetEnosys
<1> QED  BY <1>1, <1>2

LEMMA JumpIfDoes ==
    ASSUME NEW V, NEW prog \in Seq(Insns(V)), NEW data, NEW field \in Accumulators, NEW n,
           NEW cond, NEW val, NEW t, NEW f, Has(prog, n, JumpIf(cond, val, t, f)),
           NEW yes, NEW no, yes = n - 1 - t, no = n - 1 - f
    PROVE  Left(prog, data, n, field) =
              IF Holds(cond, data[field], val) THEN Left(prog, data, yes, field) ELSE Left(prog, data, no, field)
BY InstructionDoes DEF Does, JumpIf

(* Code, instruction by instruction.                                       *)
LEMMA CodeHas ==
    ASSUME NEW prog, NEW L \in Nat, NEW code, Len(prog) \in Nat, Len(code) \in Nat, CodeAt(prog, L, code)
    PROVE  \A j \in 1..Len(code) : Has(prog, L + Len(code) + 1 - j, code[j])
<1> SUFFICES ASSUME NEW j \in 1..Len(code) PROVE Has(prog, L + Len(code) + 1 - j, code[j])
  OBVIOUS
<1>1. L + Len(code) <= Len(prog) /\ End(prog, L + Len(code) - j) = code[j]
  BY DEF CodeAt
<1>2. /\ L + Len(code) + 1 - j \in 1..Len(prog)
      /\ Len(prog) + 1 - (L + Len(code) + 1 - j) = Len(prog) - (L + Len(code) - j)
  BY <1>1
<1> QED  BY <1>1, <1>2 DEF Has, End

LEMMA CodeHas1 ==
    ASSUME NEW S, NEW prog \in Seq(S), NEW L \in Nat, NEW a, CodeAt(prog, L, <<a>>)
    PROVE  Has(prog, L + 1, a)
<1> DEFINE code == <<a>>
<1>1. Len(code) = 1 /\ code[1] = a /\ Len(prog) \in Nat
  BY LenProperties
<1> HIDE DEF code
<1>2. \A j \in 1..Len(code) : Has(prog, L + Len(code) + 1 - j, code[j])
  BY <1>1, CodeHas DEF code
<1>3. Has(prog, L + 1 + 1 - 1, code[1])
  BY <1>1, <1>2
<1> QED  BY <1>1, <1>3

LEMMA CodeHas2 ==
    ASSUME NEW S, NEW prog \in Seq(S), NEW L \in Nat, NEW a, NEW b, CodeAt(prog, L, <<a, b>>)
    PROVE  Has(prog, L + 2, a) /\ Has(prog, L + 1, b)
<1> DEFINE code == <<a, b>>
<1>1. Len(code) = 2 /\ code[1] = a /\ code[2] = b /\ Len(prog) \in Nat
  BY LenProperties
<1> HIDE DEF code
<1>2. \A j \in 1..Len(code) : Has(prog, L + Len(code) + 1 - j, code[j])
  BY <1>1, CodeHas DEF code
<1>3. Has(prog, L + 2 + 1 - 1, code[1]) /\ Has(prog, L + 2 + 1 - 2, code[2])
  BY <1>1, <1>2
<1> QED  BY <1>1, <1>3

LEMMA CodeHas3 ==
    ASSUME NEW S, NEW prog \in Seq(S), NEW L \in Nat, NEW a, NEW b, NEW c, CodeAt(prog, L, <<a, b, c>>)
    PROVE  Has(prog, L + 3, a) /\ Has(prog, L + 2, b) /\ Has(prog, L + 1, c)
<1> DEFINE code == <<a, b, c>>
<1>1. Len(code) = 3 /\ code[1] = a /\ code[2] = b /\ code[3] = c /\ Len(prog) \in Nat
  BY LenProperties
<1> HIDE DEF code
<1>2. \A j \in 1..Len(code) : Has(prog, L + Len(code) + 1 - j, code[j])
  BY <1>1, CodeHas DEF code
<1>3. Has(prog, L + 3 + 1 - 1, code[1]) /\ Has(prog, L + 3 + 1 - 2, code[2]) /\ Has(prog, L + 3 + 1 - 3, code[3])
  BY <1>1, <1>2
<1> QED  BY <1>1, <1>3

LEMMA CodeHas4 ==
    ASSUME NEW S, NEW prog \in Seq(S), NEW L \in Nat, NEW a, NEW b, NEW c, NEW d, CodeAt(prog, L, <<a, b, c, d>>)
    PROVE  Has(prog, L + 4, a) /\ Has(prog, L + 3, b) /\ Has(prog, L + 2, c) /\ Has(prog, L + 1, d)
<1> DEFINE code == <<a, b, c, d>>
<1>1. Len(code) = 4 /\ code[1] = a /\ code[2] = b /\ code[3] = c /\ code[4] = d /\ Len(prog) \in Nat
  BY LenProperties
<1> HIDE DEF code
<1>2. \A j \in 1..Len(code) : Has(prog, L + Len(code) + 1 - j, code[j])
  BY <1>1, CodeHas DEF code
<1>3. /\ Has(prog, L + 4 + 1 - 1, code[1]) /\ Has(prog, L + 4 + 1 - 2, code[2])
      /\ Has(prog, L + 4 + 1 - 3, code[3]) /\ Has(prog, L + 4 + 1 - 4, code[4])
  BY <1>1, <1>2
<1> QED  BY <1>1, <1>3

LEMMA CodeHas5 ==
    ASSUME NEW S, NEW prog \in Seq(S), NEW L \in Nat, NEW a, NEW b, NEW c, NEW d, NEW e,
           CodeAt(prog, L, <<a, b, c, d, e>>)
    PROVE  /\ Has(prog, L + 5, a) /\ Has(prog, L + 4, b) /\ Has(prog, L + 3, c)
           /\ Has(prog, L + 2, d) /\ Has(prog, L + 1, e)
<1> DEFINE code == <<a, b, c, d, e>>
<1>1. /\ Len(code) = 5 /\ code[1] = a /\ code[2] = b /\ code[3] = c /\ code[4] = d /\ code[5] = e
      /\ Len(prog) \in Nat
  BY LenProperties
<1> HIDE DEF code
<1>2. \A j \in 1..Len(code) : Has(prog, L + Len(code) + 1 - j, code[j])
  BY <1>1, CodeHas DEF code
<1>3. /\ Has(prog, L + 5 + 1 - 1, code[1]) /\ Has(prog, L + 5 + 1 - 2, code[2])
      /\ Has(prog, L + 5 + 1 - 3, code[3]) /\ Has(prog, L + 5 + 1 - 4, code[4])
      /\ Has(prog, L + 5 + 1 - 5, code[5])
  BY <1>1, <1>2
<1> QED  BY <1>1, <1>3

-----------------------------------------------------------------------------
(* The pieces of the stub, one by one.                                     *)

LEMMA LoadTyped == ASSUME NEW V, NEW field \in {"arch", "nr"} PROVE Load(field) \in Insns(V)
BY DEF Insns, Load

LEMMA JumpTyped == ASSUME NEW V, NEW skip \in Nat PROVE Jump(skip) \in Insns(V)
BY DEF Insns, Jump

LEMMA RetTyped == ASSUME NEW V PROVE RetEnosys \in Insns(V)
BY DEF Insns, RetEnosys

LEMMA JumpIfTyped ==
    ASSUME NEW V, NEW cond \in Conds, NEW val \in V, NEW t \in Nat, NEW f \in Nat
    PROVE  JumpIf(cond, val, t, f) \in Insns(V)
BY DEF Insns, JumpIf

LEMMA Jumps ==
    ASSUME NEW n \in Nat, n <= MaxSkip
    PROVE  Uint8(n) = n
BY SeccompAssumption DEF Uint8

(* What the stub ends in.                                                  *)
Ends(prog) == CodeAt(prog, 0, <<Jump(1), RetEnosys>>)

LEMMA EndAnswers ==
    ASSUME NEW V, NEW prog \in Seq(Insns(V)), NEW data, NEW field \in Accumulators, Ends(prog)
    PROVE  /\ Left(prog, data, 0, field) = "filter"
           /\ Left(prog, data, 1, field) = "ENOSYS"
           /\ Left(prog, data, 2, field) = "filter"
<1>1. Left(prog, data, 0, field) = "filter"
  BY InFilter
<1>2. Has(prog, 0 + 2, Jump(1)) /\ Has(prog, 0 + 1, RetEnosys)
  <2>1. 0 \in Nat
    OBVIOUS
  <2> QED  BY <2>1, CodeHas2 DEF Ends
<1>3. Left(prog, data, 1, field) = "ENOSYS"
  BY <1>2, RetDoes
<1>4. Left(prog, data, 2, field) = Left(prog, data, 2 - 1 - 1, field)
  BY <1>2, JumpDoes
<1> QED  BY <1>1, <1>3, <1>4

LEMMA Uint8Typed == ASSUME NEW n \in Nat PROVE Uint8(n) \in Nat
BY SeccompAssumption DEF Uint8

LEMMA CompareTyped ==
    ASSUME NEW V, NEW base \in Nat, NEW sysno \in V
    PROVE  Compare(sysno, base) \in Seq(Insns(V)) /\ Len(Compare(sysno, base)) \in {2, 3}
<1> DEFINE code == Compare(sysno, base)
           a == JumpIf("gt", sysno, Uint8(base + 1), 0)
           b == JumpIf("le", sysno, 1, 0)
           c == Jump(base + 1)
<1>1. a \in Insns(V) /\ b \in Insns(V) /\ c \in Insns(V)
  <2>1. "gt" \in Conds /\ "le" \in Conds /\ 0 \in Nat /\ 1 \in Nat /\ base + 1 \in Nat
    BY DEF Conds
  <2>2. Uint8(base + 1) \in Nat
    BY <2>1, Uint8Typed
  <2> QED  BY <2>1, <2>2, JumpIfTyped, JumpTyped
<1>2. code \in {<<a, c>>, <<b, c, c>>}
  BY DEF Compare
<1> HIDE DEF code, a, b, c
<1>3. CASE code = <<a, c>>
  BY <1>1, <1>3 DEF code
<1>4. CASE code = <<b, c, c>>
  BY <1>1, <1>4 DEF code
<1> QED  BY <1>2, <1>3, <1>4

(* Data, the stub, and where code in it ends: base + 1 instructions follow. *)
Setting(V, prog, data, L, base) ==
    /\ prog \in Seq(Insns(V)) /\ data.nr \in Nat /\ Ends(prog) /\ Nat \subseteq V
    /\ L \in Nat /\ L >= 2 /\ base \in Nat /\ base + 1 = L

(* A comparison: numbers beyond sysno are answered, others let through.    *)
LEMMA CompareAnswers ==
    ASSUME NEW V, NEW prog, NEW data, NEW L, NEW base, Setting(V, prog, data, L, base),
           NEW sysno \in Nat, CodeAt(prog, L, Compare(sysno, base))
    PROVE  /\ Left(prog, data, L + Len(Compare(sysno, base)), "nr") =
                 IF data.nr > sysno THEN "ENOSYS" ELSE "filter"
           /\ Left(prog, data, L + 1, "nr") = "filter"
<1>s. /\ prog \in Seq(Insns(V)) /\ data.nr \in Nat /\ Ends(prog) /\ Nat \subseteq V
      /\ L \in Nat /\ L >= 2 /\ base \in Nat /\ base + 1 = L /\ sysno \in V
  BY DEF Setting
<1> USE <1>s
<1> DEFINE code == Compare(sysno, base)
           At(n) == Left(prog, data, n, "nr")
<1>0. "nr" \in Accumulators
  BY DEF Accumulators
<1>1. At(0) = "filter" /\ At(1) = "ENOSYS"
  BY <1>0, EndAnswers
<1>2. /\ Holds("gt", data["nr"], sysno) = (data.nr > sysno)
      /\ Holds("le", data["nr"], sysno) = ~(data.nr > sysno)
  BY DEF Holds
<1>3. PICK L1 \in Nat, L2 \in Nat, L3 \in Nat : L1 = L + 1 /\ L2 = L + 2 /\ L3 = L + 3
  <2>1. L + 1 \in Nat /\ L + 2 \in Nat /\ L + 3 \in Nat
    OBVIOUS
  <2> QED  BY <2>1
<1>4. PICK zero \in Nat, one \in Nat : zero = 0 /\ one = 1
  OBVIOUS
<1>5. At(zero) = "filter" /\ At(one) = "ENOSYS"
  BY <1>1, <1>4
<1>6. CASE L <= MaxSkip
  <2> DEFINE a == JumpIf("gt", sysno, L, zero)
  <2>1. code = <<a, Jump(L)>>
    BY <1>4, <1>6, Jumps DEF Compare
  <2> HIDE DEF a
  <2>2. Has(prog, L2, a) /\ Has(prog, L1, Jump(L)) /\ Len(code) = 2
    BY <1>3, <2>1, CodeHas2
  <2> HIDE DEF code
  <2>3. At(L1) = At(zero)
    <3>1. zero = L1 - 1 - L
      BY <1>3, <1>4
    <3>2. Has(prog, L1, Jump(L))
      BY <2>2
    <3> QED  BY <1>0, <3>1, <3>2, JumpDoes
  <2>4. At(L2) = IF data.nr > sysno THEN At(one) ELSE At(L1)
    <3>1. one = L2 - 1 - L /\ L1 = L2 - 1 - zero
      BY <1>3, <1>4
    <3>2. Has(prog, L2, JumpIf("gt", sysno, L, zero))
      BY <2>2 DEF a
    <3>3. At(L2) = IF Holds("gt", data["nr"], sysno) THEN At(one) ELSE At(L1)
      BY <1>0, <3>1, <3>2, JumpIfDoes
    <3> QED  BY <1>2, <3>3
  <2>5. L + Len(code) = L2 /\ L + 1 = L1
    BY <1>3, <2>2
  <2> HIDE DEF At
  <2>6. At(L2) = (IF data.nr > sysno THEN "ENOSYS" ELSE "filter") /\ At(L1) = "filter"
    BY <1>5, <2>3, <2>4
  <2> QED  BY <2>5, <2>6 DEF code, At
<1>7. CASE ~(L <= MaxSkip)
  <2> DEFINE a == JumpIf("le", sysno, one, zero)
  <2>1. code = <<a, Jump(L), Jump(L)>>
    BY <1>4, <1>7 DEF Compare
  <2> HIDE DEF a
  <2>2. Has(prog, L3, a) /\ Has(prog, L2, Jump(L)) /\ Has(prog, L1, Jump(L)) /\ Len(code) = 3
    BY <1>3, <2>1, CodeHas3
  <2> HIDE DEF code
  <2>3. At(L1) = At(zero)
    <3>1. zero = L1 - 1 - L
      BY <1>3, <1>4
    <3>2. Has(prog, L1, Jump(L))
      BY <2>2
    <3> QED  BY <1>0, <3>1, <3>2, JumpDoes
  <2>4. At(L2) = At(one)
    <3>1. one = L2 - 1 - L
      BY <1>3, <1>4
    <3>2. Has(prog, L2, Jump(L))
      BY <2>2
    <3> QED  BY <1>0, <3>1, <3>2, JumpDoes
  <2>5. At(L3) = IF data.nr > sysno THEN At(L2) ELSE At(L1)
    <3>1. L1 = L3 - 1 - one /\ L2 = L3 - 1 - zero
      BY <1>3, <1>4
    <3>2. Has(prog, L3, JumpIf("le", sysno, one, zero))
      BY <2>2 DEF a
    <3>3. At(L3) = IF Holds("le", data["nr"], sysno) THEN At(L1) ELSE At(L2)
      BY <1>0, <3>1, <3>2, JumpIfDoes
    <3> QED  BY <1>2, <3>3
  <2>6. L + Len(code) = L3 /\ L + 1 = L1
    BY <1>3, <2>2
  <2> HIDE DEF At
  <2>7. At(L3) = (IF data.nr > sysno THEN "ENOSYS" ELSE "filter") /\ At(L1) = "filter"
    BY <1>5, <2>3, <2>4, <2>5
  <2> QED  BY <2>6, <2>7 DEF code, At
<1> QED  BY <1>6, <1>7

(* Which of the numbers of a mode the stub answers.                        *)
Unknown(mode, sysno, nr) == nr > sysno \/ (mode \in {"s390", "s390x"} /\ nr = 0)

LEMMA X32BitIs ==
    ASSUME NEW nr \in Nat
    PROVE  (nr \div X32Bit) % 2 \in {0, 1}
<1> DEFINE q == nr \div X32Bit
<1>1. q \in Int
  BY SeccompAssumption
<1> HIDE DEF q
<1>2. q % 2 \in {0, 1}
  BY <1>1
<1> QED  BY <1>2 DEF q

LEMMA OneModeAnswers ==
    ASSUME NEW V, NEW prog, NEW data, NEW L, NEW base, Setting(V, prog, data, L, base),
           NEW aa, NEW arch, NEW sysno \in Nat, data.arch = aa,
           IF aa = "X86_64" THEN arch \in {"amd64", "x32"} ELSE arch = aa,
           CodeAt(prog, L, OneMode(aa, arch, sysno, base))
    PROVE  Left(prog, data, L + Len(OneMode(aa, arch, sysno, base)), "nr") =
              IF Mode(data) = arch /\ Unknown(arch, sysno, data.nr) THEN "ENOSYS" ELSE "filter"
<1>s. /\ prog \in Seq(Insns(V)) /\ data.nr \in Nat /\ Ends(prog) /\ Nat \subseteq V
      /\ L \in Nat /\ L >= 2 /\ base \in Nat /\ base + 1 = L /\ X32Bit \in V /\ 0 \in V /\ sysno \in V
  BY SeccompAssumption DEF Setting
<1> USE <1>s
<1> DEFINE code == OneMode(aa, arch, sysno, base)
           compare == Compare(sysno, base)
           At(n) == Left(prog, data, n, "nr")
           skip == JumpIf("ne", 0, 1, 0)
           cond == IF arch = "amd64" THEN "set" ELSE "clear"
           other(skips) == JumpIf(cond, X32Bit, skips, 0)
<1>0. "nr" \in Accumulators /\ "ne" \in Conds /\ cond \in Conds /\ 1 \in Nat /\ 0 \in Nat
  BY DEF Accumulators, Conds
<1>1. compare \in Seq(Insns(V)) /\ Len(compare) \in {2, 3}
  BY CompareTyped
<1> HIDE DEF compare
<1>c. PICK t \in {1, 2} : Len(compare) = t + 1
  BY <1>1
<1>2. skip \in Insns(V) /\ other(t) \in Insns(V) /\ RetEnosys \in Insns(V)
  <2>1. t \in Nat
    OBVIOUS
  <2> HIDE DEF cond
  <2> QED  BY <1>0, <2>1, JumpIfTyped, RetTyped
<1>3. Uint8(Len(compare) - 1) = t
  <2>1. t \in Nat /\ t <= MaxSkip
    BY SeccompAssumption
  <2>2. Len(compare) - 1 = t
    BY <1>c
  <2> QED  BY <2>1, <2>2, Jumps
<1>4. ASSUME CodeAt(prog, L, compare)
      PROVE  At(L + Len(compare)) = (IF data.nr > sysno THEN "ENOSYS" ELSE "filter") /\ At(L + 1) = "filter"
  BY <1>4, CompareAnswers DEF compare
<1>5. CASE aa = "X86_64"
  <2>1. code = <<other(t)>> \o compare
    <3>1. arch \notin {"s390", "s390x"}
      BY <1>5
    <3>2. code = (<<>> \o <<other(t)>>) \o compare
      BY <1>3, <1>5, <3>1 DEF OneMode, compare
    <3> HIDE DEF other
    <3>3. <<other(t)>> \in Seq(Insns(V))
      BY <1>2
    <3> QED  BY <3>2, <3>3, ConcatEmptySeq
  <2> HIDE DEF code, other
  <2>2. CodeAt(prog, L, compare) /\ CodeAt(prog, L + Len(compare), <<other(t)>>)
    <3>1. <<other(t)>> \in Seq(Insns(V))
      BY <1>2
    <3>2. CodeAt(prog, L, <<other(t)>> \o compare)
      BY <2>1 DEF code
    <3> QED  BY <1>1, <3>1, <3>2, SplitCode
  <2>3. code \in Seq(Insns(V)) /\ Len(code) = 1 + Len(compare)
    <3>1. <<other(t)>> \in Seq(Insns(V)) /\ Len(<<other(t)>>) = 1
      BY <1>2
    <3> QED  BY <1>1, <2>1, <3>1, ConcatIs
  <2>M. PICK M \in Nat : M = L + Len(compare)
    BY <1>c
  <2>m. PICK m \in Nat : m = M + 1
    OBVIOUS
  <2>4. L + Len(code) = m
    BY <1>c, <2>3, <2>M, <2>m
  <2>5. At(m) = IF Holds(cond, data["nr"], X32Bit) THEN At(L + 1) ELSE At(M)
    <3>1. Has(prog, m, other(t))
      <4>1. CodeAt(prog, M, <<other(t)>>)
        BY <2>2, <2>M
      <4> QED  BY <2>m, <4>1, CodeHas1
    <3>2. Has(prog, m, JumpIf(cond, X32Bit, t, 0))
      BY <3>1 DEF other
    <3>3. L + 1 = m - 1 - t /\ M = m - 1 - 0
      BY <1>c, <2>M, <2>m
    <3> HIDE DEF cond
    <3> QED  BY <1>0, <3>2, <3>3, JumpIfDoes
  <2>7. At(M) = (IF data.nr > sysno THEN "ENOSYS" ELSE "filter") /\ At(L + 1) = "filter"
    BY <1>4, <2>2, <2>M
  <2>8. Holds(cond, data["nr"], X32Bit) = (Mode(data) # arch)
    <3>1. (data.nr \div X32Bit) % 2 \in {0, 1}
      BY X32BitIs
    <3> QED  BY <1>5, <3>1 DEF Holds, Mode
  <2>9. Unknown(arch, sysno, data.nr) = (data.nr > sysno)
    BY <1>5 DEF Unknown
  <2> HIDE DEF At, cond
  <2>10. At(m) = (IF Mode(data) = arch /\ data.nr > sysno THEN "ENOSYS" ELSE "filter")
    BY <2>5, <2>7, <2>8
  <2> QED  BY <2>3, <2>4, <2>9, <2>10 DEF At, code
<1>6. CASE aa # "X86_64"
  <2>1. Mode(data) = arch
    BY <1>6 DEF Mode
  <2>2. CASE arch \in {"s390", "s390x"}
    <3>1. code = <<skip, RetEnosys>> \o compare
      <4>1. code = (<<skip, RetEnosys>> \o <<>>) \o compare
        BY <1>6, <2>2 DEF OneMode, compare
      <4> HIDE DEF skip
      <4>2. <<skip, RetEnosys>> \in Seq(Insns(V))
        BY <1>2
      <4> QED  BY <4>1, <4>2, ConcatEmptySeq
    <3> HIDE DEF code, skip
    <3>2. CodeAt(prog, L, compare) /\ CodeAt(prog, L + Len(compare), <<skip, RetEnosys>>)
      <4>1. <<skip, RetEnosys>> \in Seq(Insns(V))
        BY <1>2
      <4>2. CodeAt(prog, L, <<skip, RetEnosys>> \o compare)
        BY <3>1 DEF code
      <4> QED  BY <1>1, <4>1, <4>2, SplitCode
    <3>3. code \in Seq(Insns(V)) /\ Len(code) = 2 + Len(compare)
      <4>1. <<skip, RetEnosys>> \in Seq(Insns(V)) /\ Len(<<skip, RetEnosys>>) = 2
        BY <1>2
      <4> QED  BY <1>1, <3>1, <4>1, ConcatIs
    <3>M. PICK M \in Nat : M = L + Len(compare)
      BY <1>c
    <3>m. PICK m \in Nat : m = M + 2
      OBVIOUS
    <3>4. L + Len(code) = m
      BY <1>c, <3>3, <3>M, <3>m
    <3>5. Has(prog, m, skip) /\ Has(prog, M + 1, RetEnosys)
      <4>1. CodeAt(prog, M, <<skip, RetEnosys>>)
        BY <3>2, <3>M
      <4> QED  BY <3>m, <4>1, CodeHas2
    <3>6. At(m) = IF Holds("ne", data["nr"], 0) THEN At(M) ELSE At(M + 1)
      <4>z. PICK zero \in Nat : zero = 0
        OBVIOUS
      <4>1. Has(prog, m, JumpIf("ne", zero, 1, zero))
        BY <3>5, <4>z DEF skip
      <4>2. M = m - 1 - 1 /\ M + 1 = m - 1 - zero
        BY <3>m, <4>z
      <4>3. At(m) = IF Holds("ne", data["nr"], zero) THEN At(M) ELSE At(M + 1)
        BY <1>0, <4>1, <4>2, JumpIfDoes
      <4> QED  BY <4>z, <4>3
    <3>7. At(M + 1) = "ENOSYS"
      BY <1>0, <3>5, RetDoes
    <3>9. At(M) = (IF data.nr > sysno THEN "ENOSYS" ELSE "filter")
      BY <1>4, <3>2, <3>M
    <3>10. Holds("ne", data["nr"], 0) = (data.nr # 0)
      BY DEF Holds
    <3>11. Unknown(arch, sysno, data.nr) = (data.nr > sysno \/ data.nr = 0)
      BY <2>2 DEF Unknown
    <3> HIDE DEF At
    <3>12. At(m) = (IF Unknown(arch, sysno, data.nr) THEN "ENOSYS" ELSE "filter")
      BY <3>6, <3>7, <3>9, <3>10, <3>11
    <3> QED  BY <2>1, <3>3, <3>4, <3>12 DEF At, code
  <2>3. CASE arch \notin {"s390", "s390x"}
    <3>1. code = compare
      <4>1. code = (<<>> \o <<>>) \o compare
        BY <1>6, <2>3 DEF OneMode, compare
      <4>2. <<>> \in Seq(Insns(V))
        OBVIOUS
      <4> QED  BY <1>1, <4>1, <4>2, ConcatEmptySeq
    <3>2. At(L + Len(compare)) = (IF data.nr > sysno THEN "ENOSYS" ELSE "filter")
      BY <1>4, <3>1
    <3>3. Unknown(arch, sysno, data.nr) = (data.nr > sysno)
      BY <2>3 DEF Unknown
    <3> QED  BY <1>1, <2>1, <3>1, <3>2, <3>3
  <2> QED  BY <2>2, <2>3
<1> QED  BY <1>5, <1>6

LEMMA TwoModesAnswer ==
    ASSUME NEW V, NEW prog, NEW data, NEW L, NEW base, Setting(V, prog, data, L, base), data.arch = "X86_64",
           NEW x86sysno \in Nat, NEW x32sysno \in Nat, CodeAt(prog, L, TwoModes(x86sysno, x32sysno, base))
    PROVE  Left(prog, data, L + Len(TwoModes(x86sysno, x32sysno, base)), "nr") =
              IF data.nr > (IF Mode(data) = "x32" THEN x32sysno ELSE x86sysno) THEN "ENOSYS" ELSE "filter"
<1>s. /\ prog \in Seq(Insns(V)) /\ data.nr \in Nat /\ Ends(prog) /\ Nat \subseteq V
      /\ L \in Nat /\ L >= 2 /\ base \in Nat /\ base + 1 = L /\ X32Bit \in V /\ 0 \in V /\ x86sysno \in V /\ x32sysno \in V
  BY SeccompAssumption DEF Setting
<1> USE <1>s
<1> DEFINE code == TwoModes(x86sysno, x32sysno, base)
           At(n) == Left(prog, data, n, "nr")
           x32 == Holds("set", data["nr"], X32Bit)
<1>0. "nr" \in Accumulators /\ "set" \in Conds /\ "gt" \in Conds /\ "le" \in Conds /\ base + 2 = L + 1
  BY DEF Accumulators, Conds
<1>1. At(0) = "filter" /\ At(1) = "ENOSYS"
  BY <1>0, EndAnswers
<1>2. /\ Holds("gt", data["nr"], x86sysno) = (data.nr > x86sysno)
      /\ Holds("gt", data["nr"], x32sysno) = (data.nr > x32sysno)
      /\ Holds("le", data["nr"], x32sysno) = ~(data.nr > x32sysno)
  BY DEF Holds
<1>3. Mode(data) = IF x32 THEN "x32" ELSE "amd64"
  BY DEF Mode, Holds
<1>4. PICK L1 \in Nat, L2 \in Nat, L3 \in Nat, L4 \in Nat, L5 \in Nat :
         L1 = L + 1 /\ L2 = L + 2 /\ L3 = L + 3 /\ L4 = L + 4 /\ L5 = L + 5
  <2>1. L + 1 \in Nat /\ L + 2 \in Nat /\ L + 3 \in Nat /\ L + 4 \in Nat /\ L + 5 \in Nat
    OBVIOUS
  <2> QED  BY <2>1
<1>5. PICK zero \in Nat, one \in Nat, two \in Nat : zero = 0 /\ one = 1 /\ two = 2
  OBVIOUS
<1> HIDE DEF x32
<1>6. CASE L1 <= MaxSkip
  <2> DEFINE a == JumpIf("set", X32Bit, one, zero)
             b == JumpIf("gt", x86sysno, L1, one)
             c == JumpIf("gt", x32sysno, L, zero)
  <2>1. code = <<a, b, c, Jump(L)>>
    <3>1. Uint8(L1) = L1 /\ Uint8(L) = L
      <4>1. L <= MaxSkip
        BY <1>4, <1>6, SeccompAssumption
      <4> QED  BY <1>6, <4>1, Jumps
    <3> QED  BY <1>0, <1>4, <1>5, <1>6, <3>1 DEF TwoModes
  <2>2. Has(prog, L4, a) /\ Has(prog, L3, b) /\ Has(prog, L2, c) /\ Has(prog, L1, Jump(L))
    <3> HIDE DEF a, b, c
    <3> QED  BY <1>4, <2>1, CodeHas4
  <2>3. code \in Seq(Insns(V)) /\ Len(code) = 4
    <3>1. a \in Insns(V) /\ b \in Insns(V) /\ c \in Insns(V) /\ Jump(L) \in Insns(V)
      BY <1>0, JumpIfTyped, JumpTyped
    <3> HIDE DEF code, a, b, c
    <3> QED  BY <2>1, <3>1
  <2> HIDE DEF code
  <2>4. At(L1) = At(zero)
    <3>1. zero = L1 - 1 - L
      BY <1>4, <1>5
    <3>2. Has(prog, L1, Jump(L))
      BY <2>2
    <3> QED  BY <1>0, <3>1, <3>2, JumpDoes
  <2>5. At(L2) = IF data.nr > x32sysno THEN At(one) ELSE At(L1)
    <3>1. one = L2 - 1 - L /\ L1 = L2 - 1 - zero
      BY <1>4, <1>5
    <3>2. At(L2) = IF Holds("gt", data["nr"], x32sysno) THEN At(one) ELSE At(L1)
      BY <1>0, <2>2, <3>1, JumpIfDoes
    <3> QED  BY <1>2, <3>2
  <2>6. At(L3) = IF data.nr > x86sysno THEN At(one) ELSE At(L1)
    <3>1. one = L3 - 1 - L1 /\ L1 = L3 - 1 - one
      BY <1>4, <1>5
    <3>2. At(L3) = IF Holds("gt", data["nr"], x86sysno) THEN At(one) ELSE At(L1)
      BY <1>0, <2>2, <3>1, JumpIfDoes
    <3> QED  BY <1>2, <3>2
  <2>7. At(L4) = IF x32 THEN At(L2) ELSE At(L3)
    <3>1. L2 = L4 - 1 - one /\ L3 = L4 - 1 - zero
      BY <1>4, <1>5
    <3> QED  BY <1>0, <2>2, <3>1, JumpIfDoes DEF x32
  <2>8. L + Len(code) = L4
    BY <1>4, <2>3
  <2>9. At(zero) = "filter" /\ At(one) = "ENOSYS"
    BY <1>1, <1>5
  <2> HIDE DEF At
  <2>10. At(L4) = (IF data.nr > (IF Mode(data) = "x32" THEN x32sysno ELSE x86sysno) THEN "ENOSYS" ELSE "filter")
    BY <1>3, <2>4, <2>5, <2>6, <2>7, <2>9
  <2> QED  BY <2>3, <2>8, <2>10 DEF code, At
<1>7. CASE ~(L1 <= MaxSkip)
  <2> DEFINE a == JumpIf("set", X32Bit, one, zero)
             b == JumpIf("gt", x86sysno, one, two)
             c == JumpIf("le", x32sysno, one, zero)
  <2>1. code = <<a, b, c, Jump(L), Jump(L)>>
    BY <1>0, <1>4, <1>5, <1>7 DEF TwoModes
  <2>2. Has(prog, L5, a) /\ Has(prog, L4, b) /\ Has(prog, L3, c) /\ Has(prog, L2, Jump(L)) /\ Has(prog, L1, Jump(L))
    <3> HIDE DEF a, b, c
    <3> QED  BY <1>4, <2>1, CodeHas5
  <2>3. code \in Seq(Insns(V)) /\ Len(code) = 5
    <3>1. a \in Insns(V) /\ b \in Insns(V) /\ c \in Insns(V) /\ Jump(L) \in Insns(V)
      BY <1>0, JumpIfTyped, JumpTyped
    <3> HIDE DEF code, a, b, c
    <3> QED  BY <2>1, <3>1
  <2> HIDE DEF code
  <2>4. At(L1) = At(zero)
    <3>1. zero = L1 - 1 - L
      BY <1>4, <1>5
    <3>2. Has(prog, L1, Jump(L))
      BY <2>2
    <3> QED  BY <1>0, <3>1, <3>2, JumpDoes
  <2>5. At(L2) = At(one)
    <3>1. one = L2 - 1 - L
      BY <1>4, <1>5
    <3>2. Has(prog, L2, Jump(L))
      BY <2>2
    <3> QED  BY <1>0, <3>1, <3>2, JumpDoes
  <2>6. At(L3) = IF data.nr > x32sysno THEN At(L2) ELSE At(L1)
    <3>1. L1 = L3 - 1 - one /\ L2 = L3 - 1 - zero
      BY <1>4, <1>5
    <3>2. At(L3) = IF Holds("le", data["nr"], x32sysno) THEN At(L1) ELSE At(L2)
      BY <1>0, <2>2, <3>1, JumpIfDoes
    <3> QED  BY <1>2, <3>2
  <2>7. At(L4) = IF data.nr > x86sysno THEN At(L2) ELSE At(L1)
    <3>1. L2 = L4 - 1 - one /\ L1 = L4 - 1 - two
      BY <1>4, <1>5
    <3>2. At(L4) = IF Holds("gt", data["nr"], x86sysno) THEN At(L2) ELSE At(L1)
      BY <1>0, <2>2, <3>1, JumpIfDoes
    <3> QED  BY <1>2, <3>2
  <2>8. At(L5) = IF x32 THEN At(L3) ELSE At(L4)
    <3>1. L3 = L5 - 1 - one /\ L4 = L5 - 1 - zero
      BY <1>4, <1>5
    <3> QED  BY <1>0, <2>2, <3>1, JumpIfDoes DEF x32
  <2>9. L + Len(code) = L5
    BY <1>4, <2>3
  <2>10. At(zero) = "filter" /\ At(one) = "ENOSYS"
    BY <1>1, <1>5
  <2> HIDE DEF At
  <2>11. At(L5) = (IF data.nr > (IF Mode(data) = "x32" THEN x32sysno ELSE x86sysno) THEN "ENOSYS" ELSE "filter")
    BY <1>3, <2>4, <2>5, <2>6, <2>7, <2>8, <2>10
  <2> QED  BY <2>3, <2>9, <2>11 DEF code, At
<1> QED  BY <1>6, <1>7

-----------------------------------------------------------------------------
(* A section, whatever modes it is for.                                    *)

LEMMA OneModeTyped ==
    ASSUME NEW V, NEW base \in Nat, NEW aa, NEW arch, NEW sysno \in V, X32Bit \in V, 0 \in V
    PROVE  OneMode(aa, arch, sysno, base) \in Seq(Insns(V))
<1> DEFINE compare == Compare(sysno, base)
           a == JumpIf("ne", 0, 1, 0)
           b == JumpIf(IF arch = "amd64" THEN "set" ELSE "clear", X32Bit, Uint8(Len(compare) - 1), 0)
           multiplexed == IF arch \in {"s390", "s390x"} THEN <<a, RetEnosys>> ELSE <<>>
           otherMode == IF aa # "X86_64" THEN <<>> ELSE <<b>>
<1>1. compare \in Seq(Insns(V)) /\ Len(compare) \in {2, 3}
  BY CompareTyped
<1> HIDE DEF compare
<1>2. a \in Insns(V) /\ b \in Insns(V) /\ RetEnosys \in Insns(V)
  <2>1. /\ "ne" \in Conds /\ (IF arch = "amd64" THEN "set" ELSE "clear") \in Conds
        /\ 0 \in Nat /\ 1 \in Nat
    BY DEF Conds
  <2>2. PICK t \in {1, 2} : Len(compare) = t + 1
    BY <1>1
  <2>3. Len(compare) - 1 = t /\ t \in Nat
    BY <2>2
  <2>4. Uint8(Len(compare) - 1) \in Nat
    BY <2>3, Uint8Typed
  <2> QED  BY <2>1, <2>4, JumpIfTyped, RetTyped
<1>3. OneMode(aa, arch, sysno, base) = multiplexed \o otherMode \o compare
  BY DEF OneMode, compare
<1> HIDE DEF a, b
<1>4. multiplexed \in Seq(Insns(V)) /\ otherMode \in Seq(Insns(V))
  BY <1>2
<1> HIDE DEF multiplexed, otherMode
<1>5. multiplexed \o otherMode \in Seq(Insns(V))
  BY <1>4, ConcatIs
<1> QED  BY <1>1, <1>3, <1>5, ConcatIs

LEMMA TwoModesTyped ==
    ASSUME NEW V, NEW base \in Nat, NEW x86sysno \in V, NEW x32sysno \in V, X32Bit \in V
    PROVE  TwoModes(x86sysno, x32sysno, base) \in Seq(Insns(V))
<1> DEFINE code == TwoModes(x86sysno, x32sysno, base)
           a == JumpIf("set", X32Bit, 1, 0)
           b == JumpIf("gt", x86sysno, Uint8(base + 2), 1)
           c == JumpIf("gt", x32sysno, Uint8(base + 1), 0)
           d == Jump(base + 1)
           e == JumpIf("gt", x86sysno, 1, 2)
           f == JumpIf("le", x32sysno, 1, 0)
<1>1. a \in Insns(V) /\ b \in Insns(V) /\ c \in Insns(V) /\ d \in Insns(V) /\ e \in Insns(V) /\ f \in Insns(V)
  <2>1. /\ "gt" \in Conds /\ "le" \in Conds /\ "set" \in Conds /\ 0 \in Nat /\ 1 \in Nat /\ 2 \in Nat
        /\ base + 1 \in Nat /\ base + 2 \in Nat
    BY DEF Conds
  <2>2. Uint8(base + 1) \in Nat /\ Uint8(base + 2) \in Nat
    BY <2>1, Uint8Typed
  <2> QED  BY <2>1, <2>2, JumpIfTyped, JumpTyped
<1>2. code \in {<<a, b, c, d>>, <<a, e, f, d, d>>}
  BY DEF TwoModes
<1> HIDE DEF code, a, b, c, d, e, f
<1>3. CASE code = <<a, b, c, d>>
  BY <1>1, <1>3 DEF code
<1>4. CASE code = <<a, e, f, d, d>>
  BY <1>1, <1>4 DEF code
<1> QED  BY <1>2, <1>3, <1>4

(* The table of the last numbers: what findLastSyscalls returns.           *)
LastOK(last) ==
    \A aa \in DOMAIN last : \A m \in DOMAIN last[aa] :
        last[aa][m] \in Nat /\ IF aa = "X86_64" THEN m \in {"amd64", "x32"} ELSE m = aa

Only(last, aa) == CHOOSE m \in DOMAIN last[aa] : TRUE

LEMMA ModesAre ==
    ASSUME NEW last, NEW aa \in DOMAIN last, LastOK(last), DOMAIN last[aa] # {}
    PROVE  \/ /\ Cardinality(DOMAIN last[aa]) = 2 /\ aa = "X86_64" /\ DOMAIN last[aa] = {"amd64", "x32"}
           \/ /\ Cardinality(DOMAIN last[aa]) # 2 /\ DOMAIN last[aa] = {Only(last, aa)}
              /\ IF aa = "X86_64" THEN Only(last, aa) \in {"amd64", "x32"} ELSE Only(last, aa) = aa
<1> DEFINE modes == DOMAIN last[aa]
           only == Only(last, aa)
<1>0. only = CHOOSE m \in modes : TRUE
  BY DEF Only
<1>1. only \in modes /\ \A m \in modes : IF aa = "X86_64" THEN m \in {"amd64", "x32"} ELSE m = aa
  BY <1>0 DEF LastOK
<1> HIDE DEF modes, only
<1>2. CASE aa = "X86_64" /\ modes = {"amd64", "x32"}
  <2>1. IsFiniteSet({"amd64"}) /\ Cardinality({"amd64"}) = 1
    BY FS_Singleton
  <2>2. {"amd64", "x32"} = {"amd64"} \cup {"x32"} /\ "x32" \notin {"amd64"}
    OBVIOUS
  <2>3. Cardinality({"amd64"} \cup {"x32"}) = 1 + 1
    BY <2>1, <2>2, FS_AddElement
  <2> QED  BY <1>2, <2>2, <2>3 DEF modes
<1>3. CASE ~(aa = "X86_64" /\ modes = {"amd64", "x32"})
  <2>1. modes = {only}
    BY <1>1, <1>3
  <2>2. Cardinality(modes) = 1
    BY <2>1, FS_Singleton
  <2>3. Cardinality(modes) # 2
    BY <2>2
  <2>4. IF aa = "X86_64" THEN only \in {"amd64", "x32"} ELSE only = aa
    BY <1>1
  <2> QED  BY <2>1, <2>3, <2>4 DEF modes, only
<1> QED  BY <1>2, <1>3

LEMMA SectionTyped ==
    ASSUME NEW V, Nat \subseteq V, NEW last, NEW aa \in DOMAIN last, LastOK(last), DOMAIN last[aa] # {},
           NEW base \in Nat
    PROVE  SectionBody(last, aa, base) \in Seq(Insns(V))
<1> DEFINE modes == DOMAIN last[aa]
           only == Only(last, aa)
<1>1. X32Bit \in V /\ 0 \in V
  BY SeccompAssumption
<1>2. \A m \in modes : last[aa][m] \in V
  BY DEF LastOK
<1>3. CASE Cardinality(modes) = 2 /\ modes = {"amd64", "x32"}
  <2>1. SectionBody(last, aa, base) = TwoModes(last[aa]["amd64"], last[aa]["x32"], base)
    BY <1>3 DEF SectionBody, Only
  <2> QED  BY <1>1, <1>2, <1>3, <2>1, TwoModesTyped
<1>4. CASE Cardinality(modes) # 2 /\ modes = {only}
  <2>1. SectionBody(last, aa, base) = OneMode(aa, only, last[aa][only], base)
    BY <1>4 DEF SectionBody, Only
  <2>2. last[aa][only] \in V
    BY <1>2, <1>4
  <2> QED  BY <1>1, <2>1, <2>2, OneModeTyped
<1> QED  BY <1>3, <1>4, ModesAre

LEMMA SectionAnswers ==
    ASSUME NEW V, NEW prog, NEW data, NEW L, NEW base, Setting(V, prog, data, L, base),
           NEW last, NEW aa \in DOMAIN last, LastOK(last), DOMAIN last[aa] # {}, data.arch = aa,
           CodeAt(prog, L, SectionBody(last, aa, base))
    PROVE  Left(prog, data, L + Len(SectionBody(last, aa, base)), "nr") =
              IF Mode(data) \in DOMAIN last[aa] /\ Unknown(Mode(data), last[aa][Mode(data)], data.nr)
              THEN "ENOSYS" ELSE "filter"
<1> DEFINE modes == DOMAIN last[aa]
           only == Only(last, aa)
           answer == Left(prog, data, L + Len(SectionBody(last, aa, base)), "nr")
<1>2. \A m \in modes : last[aa][m] \in Nat
  BY DEF LastOK
<1>3. CASE Cardinality(modes) = 2 /\ aa = "X86_64" /\ modes = {"amd64", "x32"}
  <2> DEFINE a == last[aa]["amd64"]
             b == last[aa]["x32"]
  <2>1. SectionBody(last, aa, base) = TwoModes(a, b, base)
    BY <1>3 DEF SectionBody, Only
  <2>2. a \in Nat /\ b \in Nat
    BY <1>2, <1>3
  <2>3. Mode(data) \in {"amd64", "x32"}
    BY <1>3 DEF Mode
  <2> HIDE DEF a, b
  <2>4. answer = (IF data.nr > (IF Mode(data) = "x32" THEN b ELSE a) THEN "ENOSYS" ELSE "filter")
    <3> DEFINE code == TwoModes(a, b, base)
    <3>1. CodeAt(prog, L, code) /\ data.arch = "X86_64"
      BY <1>3, <2>1
    <3>2. Left(prog, data, L + Len(code), "nr") = (IF data.nr > (IF Mode(data) = "x32" THEN b ELSE a) THEN "ENOSYS" ELSE "filter")
      BY <2>2, <3>1, TwoModesAnswer
    <3> HIDE DEF code
    <3> QED  BY <2>1, <3>2 DEF code
  <2>5. last[aa][Mode(data)] = IF Mode(data) = "x32" THEN b ELSE a
    BY <2>3 DEF a, b
  <2>6. Unknown(Mode(data), last[aa][Mode(data)], data.nr) = (data.nr > last[aa][Mode(data)])
    BY <2>3 DEF Unknown
  <2> QED  BY <1>3, <2>3, <2>4, <2>5, <2>6
<1>4. CASE Cardinality(modes) # 2 /\ modes = {only} /\ IF aa = "X86_64" THEN only \in {"amd64", "x32"} ELSE only = aa
  <2> DEFINE sysno == last[aa][only]
  <2>1. SectionBody(last, aa, base) = OneMode(aa, only, sysno, base)
    BY <1>4 DEF SectionBody, Only
  <2>2. sysno \in Nat
    BY <1>2, <1>4
  <2> HIDE DEF sysno, only
  <2>3. answer = (IF Mode(data) = only /\ Unknown(only, sysno, data.nr) THEN "ENOSYS" ELSE "filter")
    <3> DEFINE code == OneMode(aa, only, sysno, base)
    <3>1. /\ CodeAt(prog, L, code)
          /\ IF aa = "X86_64" THEN only \in {"amd64", "x32"} ELSE only = aa
      BY <1>4, <2>1
    <3>2. Left(prog, data, L + Len(code), "nr") = (IF Mode(data) = only /\ Unknown(only, sysno, data.nr) THEN "ENOSYS" ELSE "filter")
      BY <2>2, <3>1, OneModeAnswers
    <3> HIDE DEF code
    <3> QED  BY <2>1, <3>2 DEF code
  <2>4. CASE Mode(data) = only
    BY <1>4, <2>3, <2>4 DEF sysno
  <2>5. CASE Mode(data) # only
    BY <1>4, <2>3, <2>5
  <2> QED  BY <2>4, <2>5
<1>5. \/ Cardinality(modes) = 2 /\ aa = "X86_64" /\ modes = {"amd64", "x32"}
      \/ Cardinality(modes) # 2 /\ modes = {only} /\ IF aa = "X86_64" THEN only \in {"amd64", "x32"} ELSE only = aa
  BY ModesAre
<1> HIDE DEF modes, only, answer
<1> QED  BY <1>3, <1>4, <1>5 DEF modes, answer

-----------------------------------------------------------------------------
(* The two loops of generateEnosysStub.                                    *)

EmptyStub(last) == [tail |-> <<Jump(1), RetEnosys>>, table |-> [aa \in DOMAIN last |-> 0]]

IsSections(f, last, order, n) ==
    f = [i \in 0..n |-> IF i = 0 THEN EmptyStub(last) ELSE AddSection(last, f[i - 1], order[i])]

LEMMA SectionsExist ==
    ASSUME NEW last, NEW order, NEW n \in Nat
    PROVE  \E f : IsSections(f, last, order, n)
<1> DEFINE S == {m \in Nat : \E f : IsSections(f, last, order, m)}
<1>1. 0 \in S
  <2> DEFINE f == [i \in 0..0 |-> EmptyStub(last)]
  <2>1. IsSections(f, last, order, 0)
    BY DEF IsSections
  <2> QED  BY <2>1
<1>2. ASSUME NEW m \in Nat, m \in S PROVE m + 1 \in S
  <2>1. PICK f : IsSections(f, last, order, m)
    BY <1>2
  <2> DEFINE g == [i \in 0..(m + 1) |-> IF i = m + 1 THEN AddSection(last, f[m], order[m + 1]) ELSE f[i]]
             Value(i) == IF i = 0 THEN EmptyStub(last) ELSE AddSection(last, g[i - 1], order[i])
  <2>2. \A i \in 0..m : g[i] = f[i]
    OBVIOUS
  <2>3. ASSUME NEW i \in 0..(m + 1) PROVE g[i] = Value(i)
    <3>1. CASE i = m + 1
      <4>1. i # 0 /\ i - 1 = m /\ g[i] = AddSection(last, f[m], order[i]) /\ g[m] = f[m]
        BY <2>2, <3>1
      <4> QED  BY <4>1
    <3>2. CASE i # m + 1
      <4>1. i \in 0..m /\ (i # 0 => i - 1 \in 0..m)
        BY <3>2
      <4>2. f[i] = IF i = 0 THEN EmptyStub(last) ELSE AddSection(last, f[i - 1], order[i])
        BY <2>1, <4>1 DEF IsSections
      <4> HIDE DEF g
      <4> QED  BY <2>2, <4>1, <4>2
    <3> QED  BY <3>1, <3>2
  <2>4. g = [i \in 0..(m + 1) |-> g[i]]
    OBVIOUS
  <2> HIDE DEF g
  <2>5. g = [i \in 0..(m + 1) |-> Value(i)]
    BY <2>3, <2>4
  <2>6. IsSections(g, last, order, m + 1)
    BY <2>5 DEF IsSections
  <2> QED  BY <2>6
<1> HIDE DEF S
<1>3. Nat \subseteq S
  BY <1>1, <1>2, NatSetInduction
<1> QED  BY <1>3 DEF S

FirstJump(all) == <<Jump(Len(all.tail))>> \o all.tail

IsJumps(f, all, order, n) ==
    f = [i \in 0..n |-> IF i = 0 THEN FirstJump(all) ELSE AddArchJump(all.table, f[i - 1], order[i])]

LEMMA JumpsExist ==
    ASSUME NEW all, NEW order, NEW n \in Nat
    PROVE  \E f : IsJumps(f, all, order, n)
<1> DEFINE S == {m \in Nat : \E f : IsJumps(f, all, order, m)}
<1>1. 0 \in S
  <2> DEFINE f == [i \in 0..0 |-> FirstJump(all)]
  <2>1. IsJumps(f, all, order, 0)
    BY DEF IsJumps
  <2> QED  BY <2>1
<1>2. ASSUME NEW m \in Nat, m \in S PROVE m + 1 \in S
  <2>1. PICK f : IsJumps(f, all, order, m)
    BY <1>2
  <2> DEFINE g == [i \in 0..(m + 1) |-> IF i = m + 1 THEN AddArchJump(all.table, f[m], order[m + 1]) ELSE f[i]]
             Value(i) == IF i = 0 THEN FirstJump(all) ELSE AddArchJump(all.table, g[i - 1], order[i])
  <2>2. \A i \in 0..m : g[i] = f[i]
    OBVIOUS
  <2>3. ASSUME NEW i \in 0..(m + 1) PROVE g[i] = Value(i)
    <3>1. CASE i = m + 1
      <4>1. i # 0 /\ i - 1 = m /\ g[i] = AddArchJump(all.table, f[m], order[i]) /\ g[m] = f[m]
        BY <2>2, <3>1
      <4> QED  BY <4>1
    <3>2. CASE i # m + 1
      <4>1. i \in 0..m /\ (i # 0 => i - 1 \in 0..m)
        BY <3>2
      <4>2. f[i] = IF i = 0 THEN FirstJump(all) ELSE AddArchJump(all.table, f[i - 1], order[i])
        BY <2>1, <4>1 DEF IsJumps
      <4> HIDE DEF g
      <4> QED  BY <2>2, <4>1, <4>2
    <3> QED  BY <3>1, <3>2
  <2>4. g = [i \in 0..(m + 1) |-> g[i]]
    OBVIOUS
  <2> HIDE DEF g
  <2>5. g = [i \in 0..(m + 1) |-> Value(i)]
    BY <2>3, <2>4
  <2>6. IsJumps(g, all, order, m + 1)
    BY <2>5 DEF IsJumps
  <2> QED  BY <2>6
<1> HIDE DEF S
<1>3. Nat \subseteq S
  BY <1>1, <1>2, NatSetInduction
<1> QED  BY <1>3 DEF S

(* The loops as they are.                                                  *)
LEMMA StubIs ==
    ASSUME NEW last, NEW order1, NEW order2, Len(order1) \in Nat, Len(order2) \in Nat
    PROVE  \E sections, jumps :
             /\ IsSections(sections, last, order1, Len(order1))
             /\ IsJumps(jumps, sections[Len(order1)], order2, Len(order2))
             /\ generateEnosysStub(last, order1, order2) = <<Load("arch")>> \o jumps[Len(order2)]
<1> DEFINE sections == CHOOSE f : IsSections(f, last, order1, Len(order1))
           all == sections[Len(order1)]
           jumps == CHOOSE f : IsJumps(f, all, order2, Len(order2))
<1>1. IsSections(sections, last, order1, Len(order1))
  BY SectionsExist
<1>2. IsJumps(jumps, all, order2, Len(order2))
  <2> HIDE DEF all
  <2> QED  BY JumpsExist
<1>3. generateEnosysStub(last, order1, order2) = <<Load("arch")>> \o jumps[Len(order2)]
  BY DEF generateEnosysStub, IsSections, IsJumps, EmptyStub, FirstJump
<1> HIDE DEF sections, jumps
<1> QED  BY <1>1, <1>2, <1>3

(* What the stub should answer.                                            *)
Answer(last, data) ==
    IF Mode(data) \in DOMAIN last[data.arch] /\ Unknown(Mode(data), last[data.arch][Mode(data)], data.nr)
    THEN "ENOSYS" ELSE "filter"

(* The sections laid out so far end every program they are the end of, and *)
(* a jump through the table answers for the architectures done.            *)
TableGood(last, acc) ==
    /\ acc.table \in [DOMAIN last -> Nat]
    /\ \A aa \in DOMAIN last : acc.table[aa] <= Len(acc.tail) /\ (DOMAIN last[aa] = {} => acc.table[aa] = 0)
TailGood(V, last, data, acc, done) ==
    \A prog \in Seq(Insns(V)) : CodeAt(prog, 0, acc.tail) =>
        /\ Ends(prog)
        /\ data.arch \in done =>
              \A field \in Accumulators : Left(prog, data, acc.table[data.arch], field) = Answer(last, data)
SectionsGood(V, last, data, acc, done) ==
    /\ acc.tail \in Seq(Insns(V)) /\ Len(acc.tail) >= 2
    /\ TableGood(last, acc) /\ TailGood(V, last, data, acc, done)

LEMMA EmptyStubGood ==
    ASSUME NEW V, NEW last, NEW data
    PROVE  SectionsGood(V, last, data, EmptyStub(last), {})
<1> DEFINE acc == EmptyStub(last)
           tail == <<Jump(1), RetEnosys>>
<1>1. acc.tail = tail /\ acc.table = [aa \in DOMAIN last |-> 0]
  BY DEF EmptyStub
<1>2. tail \in Seq(Insns(V)) /\ Len(tail) = 2
  <2>1. Jump(1) \in Insns(V) /\ RetEnosys \in Insns(V)
    BY JumpTyped, RetTyped
  <2> QED  BY <2>1
<1> HIDE DEF acc
<1>3. TableGood(last, acc)
  <2>1. acc.table \in [DOMAIN last -> Nat] /\ \A aa \in DOMAIN last : acc.table[aa] = 0
    BY <1>1
  <2>2. Len(acc.tail) = 2
    BY <1>1, <1>2
  <2> QED  BY <2>1, <2>2 DEF TableGood
<1>4. TailGood(V, last, data, acc, {})
  BY <1>1 DEF TailGood, Ends
<1>5. Len(acc.tail) >= 2
  BY <1>1, <1>2
<1> QED  BY <1>1, <1>2, <1>3, <1>4, <1>5 DEF SectionsGood, acc

LEMMA AddSectionGood ==
    ASSUME NEW V, Nat \subseteq V, NEW last, LastOK(last), NEW data, data.nr \in Nat,
           NEW acc, NEW done, SectionsGood(V, last, data, acc, done), NEW aa \in DOMAIN last
    PROVE  SectionsGood(V, last, data, AddSection(last, acc, aa), done \cup {aa})
<1>1. /\ acc.tail \in Seq(Insns(V)) /\ Len(acc.tail) >= 2 /\ Len(acc.tail) \in Nat
      /\ TableGood(last, acc) /\ TailGood(V, last, data, acc, done)
  BY LenProperties DEF SectionsGood
<1>2. CASE DOMAIN last[aa] = {}
  <2>1. AddSection(last, acc, aa) = acc
    BY <1>2 DEF AddSection
  <2>2. TailGood(V, last, data, acc, done \cup {aa})
    <3> SUFFICES ASSUME NEW prog \in Seq(Insns(V)), CodeAt(prog, 0, acc.tail)
                 PROVE  /\ Ends(prog)
                        /\ data.arch \in done \cup {aa} =>
                              \A field \in Accumulators : Left(prog, data, acc.table[data.arch], field) = Answer(last, data)
      BY DEF TailGood
    <3>1. Ends(prog) /\ (data.arch \in done =>
                             \A field \in Accumulators : Left(prog, data, acc.table[data.arch], field) = Answer(last, data))
      BY <1>1 DEF TailGood
    <3>2. ASSUME data.arch = aa, NEW field \in Accumulators
          PROVE  Left(prog, data, acc.table[data.arch], field) = Answer(last, data)
      <4>1. acc.table[data.arch] = 0
        BY <1>1, <1>2, <3>2 DEF TableGood
      <4>2. Answer(last, data) = "filter"
        BY <1>2, <3>2 DEF Answer
      <4> QED  BY <4>1, <4>2, InFilter
    <3> QED  BY <3>1, <3>2
  <2> QED  BY <1>1, <2>1, <2>2 DEF SectionsGood
<1>3. CASE DOMAIN last[aa] # {}
  <2> DEFINE L == Len(acc.tail)
             base == L - 1
             body == SectionBody(last, aa, base)
             section == <<Load("nr")>> \o body
             new == AddSection(last, acc, aa)
  <2>1. base \in Nat /\ base + 1 = L /\ L \in Nat /\ L >= 2
    BY <1>1
  <2>2. new = [tail |-> section \o acc.tail, table |-> [acc.table EXCEPT ![aa] = Len(section \o acc.tail)]]
    BY <1>3 DEF AddSection
  <2> HIDE DEF base
  <2>3. body \in Seq(Insns(V))
    BY <1>3, <2>1, SectionTyped
  <2> HIDE DEF L, body, new
  <2>4. <<Load("nr")>> \in Seq(Insns(V)) /\ Len(<<Load("nr")>>) = 1
    <3>1. Load("nr") \in Insns(V)
      BY LoadTyped
    <3> HIDE DEF L, body, new
    <3> QED  BY <3>1
  <2>5. section \in Seq(Insns(V)) /\ Len(section) = 1 + Len(body) /\ Len(body) \in Nat
    BY <2>3, <2>4, ConcatIs
  <2> HIDE DEF section
  <2>6. new.tail = section \o acc.tail /\ new.table = [acc.table EXCEPT ![aa] = Len(new.tail)]
    BY <2>2
  <2>7. new.tail \in Seq(Insns(V)) /\ Len(new.tail) = 1 + Len(body) + L /\ Len(new.tail) \in Nat
    <3>1. new.tail \in Seq(Insns(V)) /\ Len(new.tail) = Len(section) + Len(acc.tail)
      <4>1. section \o acc.tail \in Seq(Insns(V)) /\ Len(section \o acc.tail) = Len(section) + Len(acc.tail)
        <5>1. PICK tail \in Seq(Insns(V)) : tail = acc.tail
          BY <1>1
        <5>2. section \o tail \in Seq(Insns(V)) /\ Len(section \o tail) = Len(section) + Len(tail)
          BY <2>5, ConcatIs
        <5> QED  BY <5>1, <5>2
      <4> QED  BY <2>6, <4>1
    <3>2. Len(acc.tail) = L
      BY DEF L
    <3>3. Len(new.tail) = 1 + Len(body) + L /\ Len(new.tail) \in Nat
      BY ONLY <2>1, <2>5, <3>1, <3>2
    <3> QED  BY <3>1, <3>3
  <2>8. Len(new.tail) >= L
    BY <2>1, <2>5, <2>7
  <2>9. TableGood(last, new)
    <3>1. acc.table \in [DOMAIN last -> Nat] /\ new.table \in [DOMAIN last -> Nat]
      BY <1>1, <2>6, <2>7 DEF TableGood
    <3>2. ASSUME NEW a \in DOMAIN last
          PROVE  new.table[a] <= Len(new.tail) /\ (DOMAIN last[a] = {} => new.table[a] = 0)
      <4>1. CASE a = aa
        <5>1. new.table[a] = Len(new.tail)
          BY <2>6, <3>1, <4>1
        <5> QED  BY <1>3, <2>7, <4>1, <5>1
      <4>2. CASE a # aa
        <5>1. new.table[a] = acc.table[a]
          BY <2>6, <3>1, <4>2
        <5>2. acc.table[a] \in Nat /\ acc.table[a] <= L /\ (DOMAIN last[a] = {} => acc.table[a] = 0)
          BY <1>1 DEF TableGood, L
        <5>3. new.table[a] <= Len(new.tail)
          BY <2>1, <2>7, <2>8, <5>1, <5>2
        <5> QED  BY <5>1, <5>2, <5>3
      <4> QED  BY <4>1, <4>2
    <3> QED  BY <3>1, <3>2 DEF TableGood
  <2>10. TailGood(V, last, data, new, done \cup {aa})
    <3> SUFFICES ASSUME NEW prog \in Seq(Insns(V)), CodeAt(prog, 0, new.tail)
                 PROVE  /\ Ends(prog)
                        /\ data.arch \in done \cup {aa} =>
                              \A field \in Accumulators : Left(prog, data, new.table[data.arch], field) = Answer(last, data)
      BY DEF TailGood
    <3>1. CodeAt(prog, 0, acc.tail) /\ CodeAt(prog, L, section)
      <4>1. CodeAt(prog, 0, section \o acc.tail)
        BY <2>6
      <4>2. CodeAt(prog, 0, acc.tail) /\ CodeAt(prog, 0 + Len(acc.tail), section)
        <5>1. 0 \in Nat
          OBVIOUS
        <5> QED  BY <1>1, <2>5, <4>1, <5>1, SplitCode
      <4>3. 0 + Len(acc.tail) = L
        BY <2>1 DEF L
      <4> QED  BY <4>2, <4>3
    <3>2. Ends(prog) /\ (data.arch \in done =>
                             \A field \in Accumulators : Left(prog, data, acc.table[data.arch], field) = Answer(last, data))
      BY <1>1, <3>1 DEF TailGood
    <3>3. ASSUME data.arch # aa, data.arch \in done, NEW field \in Accumulators
          PROVE  Left(prog, data, new.table[data.arch], field) = Answer(last, data)
      <4>1. Left(prog, data, acc.table[data.arch], field) = Answer(last, data)
        BY <3>2, <3>3
      <4>2. new.table[data.arch] = acc.table[data.arch]
        BY <1>1, <2>6, <3>3 DEF TableGood
      <4> QED  BY <4>1, <4>2
    <3>4. ASSUME data.arch = aa, NEW field \in Accumulators
          PROVE  Left(prog, data, new.table[data.arch], field) = Answer(last, data)
      <4>1. new.table[data.arch] = Len(new.tail)
        BY <1>1, <2>6, <3>4 DEF TableGood
      <4>2. CodeAt(prog, L, body) /\ CodeAt(prog, L + Len(body), <<Load("nr")>>)
        BY <2>1, <2>3, <2>4, <3>1, SplitCode DEF section
      <4>3. PICK n \in Nat, m \in Nat : n = L + Len(body) /\ m = n + 1
        <5>1. L + Len(body) \in Nat /\ L + Len(body) + 1 \in Nat
          BY <2>1, <2>5
        <5> QED  BY <5>1
      <4>4. Has(prog, m, Load("nr"))
        BY <4>2, <4>3, CodeHas1
      <4>5. Left(prog, data, m, field) = Left(prog, data, n, "nr")
        <5>1. n = m - 1
          BY <4>3
        <5>2. Left(prog, data, m, field) = Does(prog, data, Load("nr"), m, field)
          BY <3>4, <4>4, InstructionDoes
        <5>3. Does(prog, data, Load("nr"), m, field) = Left(prog, data, m - 1, "nr")
          BY DEF Does, Load
        <5> QED  BY <5>1, <5>2, <5>3
      <4>6. m = Len(new.tail)
        BY <2>1, <2>5, <2>7, <4>3
      <4>7. Setting(V, prog, data, L, base)
        BY <2>1, <3>2 DEF Setting
      <4>8. Left(prog, data, L + Len(body), "nr") = Answer(last, data)
        <5>1. Left(prog, data, L + Len(SectionBody(last, aa, base)), "nr") =
                 IF Mode(data) \in DOMAIN last[aa] /\ Unknown(Mode(data), last[aa][Mode(data)], data.nr)
                 THEN "ENOSYS" ELSE "filter"
          BY <1>3, <3>4, <4>2, <4>7, SectionAnswers DEF body
        <5> QED  BY <3>4, <5>1 DEF Answer, body
      <4> QED  BY <4>1, <4>3, <4>5, <4>6, <4>8
    <3> QED  BY <3>2, <3>3, <3>4
  <2>11. Len(new.tail) >= 2
    BY <2>1, <2>7, <2>8
  <2> QED  BY <2>7, <2>9, <2>10, <2>11 DEF SectionsGood, new
<1> QED  BY <1>2, <1>3

(* The first loop, whatever the order it takes the architectures in.       *)
LEMMA SectionsAreGood ==
    ASSUME NEW V, Nat \subseteq V, NEW last, LastOK(last), NEW data, data.nr \in Nat,
           NEW n \in Nat, NEW order \in [1..n -> DOMAIN last], NEW sections, IsSections(sections, last, order, n)
    PROVE  SectionsGood(V, last, data, sections[n], Taken(order, n))
<1> DEFINE Handled(i) == Taken(order, i)
           Good(i) == SectionsGood(V, last, data, sections[i], Handled(i))
           S == {i \in Nat : i <= n => Good(i)}
<1>1. 0 \in S
  <2>1. sections[0] = EmptyStub(last)
    BY DEF IsSections
  <2>2. Handled(0) = {}
    BY NoneTaken
  <2>3. SectionsGood(V, last, data, EmptyStub(last), {})
    BY EmptyStubGood
  <2> QED  BY <2>1, <2>2, <2>3
<1>2. ASSUME NEW i \in Nat, i \in S PROVE i + 1 \in S
  <2> HIDE DEF Good
  <2> SUFFICES ASSUME i + 1 <= n PROVE Good(i + 1)
    OBVIOUS
  <2>1. i \in 0..n /\ i + 1 \in 0..n /\ i + 1 # 0 /\ (i + 1) - 1 = i /\ i + 1 \in 1..n /\ i <= n
    OBVIOUS
  <2>2. Good(i)
    BY <1>2, <2>1
  <2>3. sections[i + 1] = AddSection(last, sections[i], order[i + 1])
    BY <2>1 DEF IsSections
  <2>4. order[i + 1] \in DOMAIN last
    BY <2>1
  <2>5. Handled(i + 1) = Handled(i) \cup {order[i + 1]}
    <3>1. 1..(i + 1) = 1..i \cup {i + 1}
      OBVIOUS
    <3> QED  BY <3>1 DEF Taken
  <2> HIDE DEF Handled
  <2>6. SectionsGood(V, last, data, AddSection(last, sections[i], order[i + 1]), Handled(i) \cup {order[i + 1]})
    BY <2>2, <2>4, AddSectionGood DEF Good
  <2> QED  BY <2>3, <2>5, <2>6 DEF Good
<1> HIDE DEF S
<1>3. n \in S
  BY <1>1, <1>2, NatSetInduction
<1> QED  BY <1>3 DEF S

(* The jumps laid out so far end every program they are the end of, and    *)
(* lead the architectures done to their sections, the others to the filter. *)
JumpsGood(V, data, all, tail, done) ==
    /\ tail \in Seq(Insns(V)) /\ Len(tail) >= Len(all.tail)
    /\ \A prog \in Seq(Insns(V)) : CodeAt(prog, 0, tail) =>
          /\ CodeAt(prog, 0, all.tail)
          /\ Left(prog, data, Len(tail), "arch") =
                IF data.arch \in done THEN Left(prog, data, all.table[data.arch], "arch") ELSE "filter"

LEMMA FirstJumpGood ==
    ASSUME NEW V, NEW data, NEW all, all.tail \in Seq(Insns(V))
    PROVE  JumpsGood(V, data, all, FirstJump(all), {})
<1>1. PICK t \in Seq(Insns(V)) : t = all.tail
  OBVIOUS
<1>2. PICK n \in Nat : n = Len(t)
  BY LenProperties
<1> DEFINE jump == <<Jump(n)>>
           tail == jump \o t
<1>3. jump \in Seq(Insns(V)) /\ Len(jump) = 1
  <2>1. Jump(n) \in Insns(V)
    BY JumpTyped
  <2> QED  BY <2>1
<1>4. FirstJump(all) = tail
  BY <1>1, <1>2 DEF FirstJump
<1> HIDE DEF jump
<1>5. tail \in Seq(Insns(V)) /\ Len(tail) = 1 + n
  BY <1>2, <1>3, ConcatIs
<1> SUFFICES ASSUME NEW prog \in Seq(Insns(V)), CodeAt(prog, 0, tail)
             PROVE  CodeAt(prog, 0, t) /\ Left(prog, data, Len(tail), "arch") = "filter"
  <2>1. Len(tail) >= Len(all.tail)
    BY <1>1, <1>2, <1>5
  <2> QED  BY <1>1, <1>4, <1>5, <2>1 DEF JumpsGood
<1>6. CodeAt(prog, 0, t) /\ CodeAt(prog, 0 + Len(t), jump)
  <2>1. 0 \in Nat
    OBVIOUS
  <2> QED  BY <1>3, <2>1, SplitCode
<1>7. CodeAt(prog, n, <<Jump(n)>>)
  <2>1. 0 + Len(t) = n
    BY <1>2
  <2> QED  BY <1>6, <2>1 DEF jump
<1>8. PICK m \in Nat, zero \in Nat : m = n + 1 /\ zero = 0
  <2>1. n + 1 \in Nat
    OBVIOUS
  <2> QED  BY <2>1
<1>9. Has(prog, m, Jump(n))
  BY <1>7, <1>8, CodeHas1
<1>10. Left(prog, data, m, "arch") = Left(prog, data, zero, "arch")
  <2>1. zero = m - 1 - n /\ "arch" \in Accumulators
    BY <1>8 DEF Accumulators
  <2> QED  BY <1>9, <2>1, JumpDoes
<1>11. Left(prog, data, 0, "arch") = "filter"
  <2>1. "arch" \in Accumulators
    BY DEF Accumulators
  <2> QED  BY <2>1, InFilter
<1>12. m = Len(tail)
  BY <1>5, <1>8
<1> QED  BY <1>6, <1>8, <1>10, <1>11, <1>12

LEMMA AddArchJumpGood ==
    ASSUME NEW V, NEW data, NEW all, NEW old, NEW done, JumpsGood(V, data, all, old, done),
           Len(all.tail) \in Nat, NEW aa \in V, all.table[aa] \in Nat, all.table[aa] <= Len(all.tail)
    PROVE  JumpsGood(V, data, all, AddArchJump(all.table, old, aa), done \cup {aa})
<1>1. PICK t \in Seq(Insns(V)) : t = old
  BY DEF JumpsGood
<1>2. PICK n \in Nat, to \in Nat : n = Len(t) /\ to = all.table[aa] /\ n >= to /\ n >= Len(all.tail)
  <2>1. Len(t) \in Nat
    BY LenProperties
  <2>2. Len(t) >= Len(all.tail)
    BY <1>1 DEF JumpsGood
  <2>3. Len(t) >= all.table[aa]
    BY <2>1, <2>2
  <2> QED  BY <2>1, <2>2, <2>3
<1>3. PICK jump \in Nat, zero \in Nat, one \in Nat, n1 \in Nat, n2 \in Nat :
         jump = n - to /\ zero = 0 /\ one = 1 /\ n1 = n + 1 /\ n2 = n + 2
  <2>1. n - to \in Nat /\ n + 1 \in Nat /\ n + 2 \in Nat
    BY <1>2
  <2> QED  BY <2>1
<1>4. "arch" \in Accumulators /\ "eq" \in Conds /\ "ne" \in Conds
  BY DEF Accumulators, Conds
<1>5. \A prog \in Seq(Insns(V)) : CodeAt(prog, 0, t) =>
          /\ CodeAt(prog, 0, all.tail)
          /\ Left(prog, data, n, "arch") =
                IF data.arch \in done THEN Left(prog, data, all.table[data.arch], "arch") ELSE "filter"
  BY <1>1, <1>2 DEF JumpsGood
<1>6. ASSUME NEW x \in Seq(Insns(V)), NEW m \in Nat, m = n + Len(x), Len(x) \in Nat,
             \A prog \in Seq(Insns(V)) : CodeAt(prog, n, x) =>
                Left(prog, data, m, "arch") =
                   IF data.arch = aa THEN Left(prog, data, to, "arch") ELSE Left(prog, data, n, "arch")
      PROVE  JumpsGood(V, data, all, x \o t, done \cup {aa})
  <2>1. x \o t \in Seq(Insns(V)) /\ Len(x \o t) = m /\ m >= Len(all.tail)
    <3>1. x \o t \in Seq(Insns(V)) /\ Len(x \o t) = Len(x) + Len(t)
      BY ConcatIs
    <3>2. Len(x) + Len(t) = m /\ m >= n
      BY <1>2, <1>6
    <3>3. m >= Len(all.tail)
      BY <1>2, <3>2
    <3> QED  BY <3>1, <3>2, <3>3
  <2>2. ASSUME NEW prog \in Seq(Insns(V)), CodeAt(prog, 0, x \o t)
        PROVE  /\ CodeAt(prog, 0, all.tail)
               /\ Left(prog, data, m, "arch") =
                     IF data.arch \in done \cup {aa} THEN Left(prog, data, all.table[data.arch], "arch") ELSE "filter"
    <3>1. CodeAt(prog, 0, t) /\ CodeAt(prog, 0 + Len(t), x)
      <4>1. 0 \in Nat
        OBVIOUS
      <4> QED  BY <2>2, <4>1, SplitCode
    <3>2. 0 + Len(t) = n
      BY <1>2
    <3>3. CodeAt(prog, 0, all.tail) /\ Left(prog, data, n, "arch") =
             IF data.arch \in done THEN Left(prog, data, all.table[data.arch], "arch") ELSE "filter"
      BY <1>5, <3>1
    <3>4. Left(prog, data, m, "arch") =
             IF data.arch = aa THEN Left(prog, data, to, "arch") ELSE Left(prog, data, n, "arch")
      BY <1>6, <3>1, <3>2
    <3> QED  BY <1>2, <3>3, <3>4
  <2> QED  BY <2>1, <2>2 DEF JumpsGood
<1>7. CASE jump <= MaxSkip
  <2> DEFINE a == JumpIf("eq", aa, jump, zero)
             x == <<a>>
  <2>1. AddArchJump(all.table, old, aa) = x \o t
    BY <1>1, <1>2, <1>3, <1>7, Jumps DEF AddArchJump
  <2>2. x \in Seq(Insns(V)) /\ Len(x) = 1
    <3>1. a \in Insns(V)
      BY <1>4, JumpIfTyped
    <3> HIDE DEF a
    <3> QED  BY <3>1
  <2>3. ASSUME NEW prog \in Seq(Insns(V)), CodeAt(prog, n, x)
        PROVE  Left(prog, data, n1, "arch") =
                  IF data.arch = aa THEN Left(prog, data, to, "arch") ELSE Left(prog, data, n, "arch")
    <3>1. Has(prog, n1, JumpIf("eq", aa, jump, zero))
      BY <1>3, <2>3, CodeHas1
    <3>2. to = n1 - 1 - jump /\ n = n1 - 1 - zero
      BY <1>2, <1>3
    <3>3. Left(prog, data, n1, "arch") =
             IF Holds("eq", data["arch"], aa) THEN Left(prog, data, to, "arch") ELSE Left(prog, data, n, "arch")
      BY <1>4, <3>1, <3>2, JumpIfDoes
    <3>4. Holds("eq", data["arch"], aa) = (data.arch = aa)
      BY DEF Holds
    <3> QED  BY <3>3, <3>4
  <2> HIDE DEF x
  <2>4. n1 = n + Len(x)
    BY <1>3, <2>2
  <2>5. JumpsGood(V, data, all, x \o t, done \cup {aa})
    <3>1. Len(x) \in Nat
      BY <2>2
    <3> QED  BY <1>6, <2>2, <2>3, <2>4, <3>1
  <2> QED  BY <2>1, <2>5
<1>8. CASE ~(jump <= MaxSkip)
  <2> DEFINE a == JumpIf("ne", aa, one, zero)
             x == <<a, Jump(jump)>>
  <2>1. AddArchJump(all.table, old, aa) = x \o t
    BY <1>1, <1>2, <1>3, <1>8 DEF AddArchJump
  <2>2. x \in Seq(Insns(V)) /\ Len(x) = 2
    <3>1. a \in Insns(V) /\ Jump(jump) \in Insns(V)
      BY <1>4, JumpIfTyped, JumpTyped
    <3> HIDE DEF a
    <3> QED  BY <3>1
  <2>3. ASSUME NEW prog \in Seq(Insns(V)), CodeAt(prog, n, x)
        PROVE  Left(prog, data, n2, "arch") =
                  IF data.arch = aa THEN Left(prog, data, to, "arch") ELSE Left(prog, data, n, "arch")
    <3>1. Has(prog, n2, JumpIf("ne", aa, one, zero)) /\ Has(prog, n1, Jump(jump))
      BY <1>3, <2>3, CodeHas2
    <3>2. n = n2 - 1 - one /\ n1 = n2 - 1 - zero /\ to = n1 - 1 - jump
      BY <1>2, <1>3
    <3>3. Left(prog, data, n2, "arch") =
             IF Holds("ne", data["arch"], aa) THEN Left(prog, data, n, "arch") ELSE Left(prog, data, n1, "arch")
      BY <1>4, <3>1, <3>2, JumpIfDoes
    <3>4. Left(prog, data, n1, "arch") = Left(prog, data, to, "arch")
      BY <1>4, <3>1, <3>2, JumpDoes
    <3>5. Holds("ne", data["arch"], aa) = (data.arch # aa)
      BY DEF Holds
    <3> QED  BY <3>3, <3>4, <3>5
  <2> HIDE DEF x
  <2>4. n2 = n + Len(x)
    BY <1>3, <2>2
  <2>5. JumpsGood(V, data, all, x \o t, done \cup {aa})
    <3>1. Len(x) \in Nat
      BY <2>2
    <3> QED  BY <1>6, <2>2, <2>3, <2>4, <3>1
  <2> QED  BY <2>1, <2>5
<1> QED  BY <1>7, <1>8

(* The second loop.                                                        *)
LEMMA JumpsAreGood ==
    ASSUME NEW V, NEW last, DOMAIN last \subseteq V, NEW data, NEW all, all.tail \in Seq(Insns(V)), TableGood(last, all),
           NEW n \in Nat, NEW order \in [1..n -> DOMAIN last], NEW jumps, IsJumps(jumps, all, order, n)
    PROVE  JumpsGood(V, data, all, jumps[n], Taken(order, n))
<1> DEFINE Handled(i) == Taken(order, i)
           Good(i) == JumpsGood(V, data, all, jumps[i], Handled(i))
           S == {i \in Nat : i <= n => Good(i)}
<1>1. 0 \in S
  <2>1. jumps[0] = FirstJump(all)
    BY DEF IsJumps
  <2>2. Handled(0) = {}
    BY NoneTaken
  <2>3. JumpsGood(V, data, all, FirstJump(all), {})
    BY FirstJumpGood
  <2> QED  BY <2>1, <2>2, <2>3
<1>2. ASSUME NEW i \in Nat, i \in S PROVE i + 1 \in S
  <2> HIDE DEF Good
  <2> SUFFICES ASSUME i + 1 <= n PROVE Good(i + 1)
    OBVIOUS
  <2>1. i \in 0..n /\ i + 1 \in 0..n /\ i + 1 # 0 /\ (i + 1) - 1 = i /\ i + 1 \in 1..n /\ i <= n
    OBVIOUS
  <2>2. Good(i)
    BY <1>2, <2>1
  <2>3. jumps[i + 1] = AddArchJump(all.table, jumps[i], order[i + 1])
    BY <2>1 DEF IsJumps
  <2>4. PICK aa \in DOMAIN last : aa = order[i + 1]
    BY <2>1
  <2>5. Handled(i + 1) = Handled(i) \cup {aa}
    <3>1. 1..(i + 1) = 1..i \cup {i + 1}
      OBVIOUS
    <3> QED  BY <2>4, <3>1 DEF Taken
  <2> HIDE DEF Handled
  <2>6. aa \in V /\ all.table[aa] \in Nat /\ all.table[aa] <= Len(all.tail) /\ Len(all.tail) \in Nat
    BY LenProperties DEF TableGood
  <2>7. JumpsGood(V, data, all, AddArchJump(all.table, jumps[i], aa), Handled(i) \cup {aa})
    BY <2>2, <2>6, AddArchJumpGood DEF Good
  <2> QED  BY <2>3, <2>4, <2>5, <2>7 DEF Good
<1> HIDE DEF S
<1>3. n \in S
  BY <1>1, <1>2, NatSetInduction
<1> QED  BY <1>3 DEF S

(* An order is of all the architectures.                                   *)
LEMMA OrdersTakeAll ==
    ASSUME NEW T, IsFiniteSet(T), NEW order \in Orders(T)
    PROVE  /\ Cardinality(T) \in Nat /\ order \in [1..Cardinality(T) -> T]
           /\ order \in Seq(T) /\ Len(order) = Cardinality(T)
           /\ Taken(order, Cardinality(T)) = T
<1> DEFINE n == Cardinality(T)
<1>1. n \in Nat /\ order \in [1..n -> T] /\ \A i, j \in 1..n : order[i] = order[j] => i = j
  BY FS_CardinalityType DEF Orders
<1> HIDE DEF n
<1>2. order \in Seq(T) /\ Len(order) = n
  <2>1. order \in UNION {[1..m -> T] : m \in Nat}
    BY <1>1
  <2>2. order \in Seq(T)
    BY <2>1, SeqDef
  <2>3. Len(order) \in Nat /\ DOMAIN order = 1..Len(order)
    BY <2>2, LenProperties
  <2>4. 1..Len(order) = 1..n
    BY <1>1, <2>3
  <2> QED  BY <1>1, <2>2, <2>3, <2>4
<1>3. order \in Injection(1..n, T)
  BY <1>1 DEF Injection, IsInjective
<1>4. IsFiniteSet(1..n) /\ Cardinality(1..n) = n
  BY <1>1, FS_Interval
<1>5. order \in Surjection(1..n, T)
  BY <1>3, <1>4, FS_Injection DEF n
<1>6. Taken(order, n) = T
  BY <1>1, <1>5 DEF Surjection, Taken
<1> QED  BY <1>1, <1>2, <1>6 DEF n

(* The whole stub, in whatever orders the map is iterated over.            *)
LEMMA StubAnswers ==
    ASSUME NEW last, LastOK(last), IsFiniteSet(DOMAIN last), NEW data, data.nr \in Nat,
           NEW order1 \in Orders(DOMAIN last), NEW order2 \in Orders(DOMAIN last)
    PROVE  Run(generateEnosysStub(last, order1, order2), data) =
              IF data.arch \in DOMAIN last THEN Answer(last, data) ELSE "filter"
<1> DEFINE T == DOMAIN last
           V == T \cup Nat
<1>1. PICK n \in Nat :
         /\ n = Cardinality(T) /\ Len(order1) = n /\ Len(order2) = n
         /\ order1 \in [1..n -> T] /\ order2 \in [1..n -> T]
         /\ Taken(order1, n) = T /\ Taken(order2, n) = T
  BY OrdersTakeAll
<1>2. PICK sections, jumps :
         /\ IsSections(sections, last, order1, n) /\ IsJumps(jumps, sections[n], order2, n)
         /\ generateEnosysStub(last, order1, order2) = <<Load("arch")>> \o jumps[n]
  <2>1. Len(order1) \in Nat /\ Len(order2) \in Nat
    BY <1>1
  <2>2. \E sections, jumps :
         /\ IsSections(sections, last, order1, Len(order1))
         /\ IsJumps(jumps, sections[Len(order1)], order2, Len(order2))
         /\ generateEnosysStub(last, order1, order2) = <<Load("arch")>> \o jumps[Len(order2)]
    BY <2>1, StubIs
  <2> QED  BY <1>1, <2>2
<1>3. Nat \subseteq V /\ T \subseteq V
  OBVIOUS
<1> HIDE DEF V
<1> DEFINE all == sections[n]
           tail == jumps[n]
<1>4. SectionsGood(V, last, data, all, T)
  <2>1. SectionsGood(V, last, data, all, Taken(order1, n))
    BY <1>1, <1>2, <1>3, SectionsAreGood
  <2> HIDE DEF all
  <2> QED  BY <1>1, <2>1
<1>5. all.tail \in Seq(Insns(V)) /\ TableGood(last, all) /\ TailGood(V, last, data, all, T)
  BY <1>4 DEF SectionsGood
<1>6. JumpsGood(V, data, all, tail, T)
  <2>1. JumpsGood(V, data, all, tail, Taken(order2, n))
    BY <1>1, <1>2, <1>3, <1>5, JumpsAreGood
  <2> HIDE DEF all, tail
  <2> QED  BY <1>1, <2>1
<1> HIDE DEF all, tail
<1>7. PICK t \in Seq(Insns(V)) : t = tail
  BY <1>6 DEF JumpsGood
<1> DEFINE head == <<Load("arch")>>
           prog == head \o t
<1>8. head \in Seq(Insns(V)) /\ Len(head) = 1
  <2>1. Load("arch") \in Insns(V)
    BY LoadTyped
  <2> QED  BY <2>1
<1> HIDE DEF head
<1>9. PICK m \in Nat, zero \in Nat : m = Len(t) /\ zero = 0
  BY LenProperties
<1>10. prog \in Seq(Insns(V)) /\ Len(prog) = m + 1
  BY <1>8, <1>9, ConcatIs
<1>11. CodeAt(prog, zero, t) /\ CodeAt(prog, m, head)
  <2>1. CodeAt(prog, zero, prog)
    <3>1. zero + Len(prog) = Len(prog) /\ Len(prog) <= Len(prog)
      BY <1>9, <1>10
    <3>2. ASSUME NEW j \in 1..Len(prog) PROVE End(prog, zero + Len(prog) - j) = prog[j]
      <4>1. Len(prog) - (zero + Len(prog) - j) = j
        BY <1>9, <1>10
      <4> QED  BY <4>1 DEF End
    <3> QED  BY <3>1, <3>2 DEF CodeAt
  <2>2. CodeAt(prog, zero, t) /\ CodeAt(prog, zero + Len(t), head)
    <3> DEFINE p == prog
    <3>1. p \in Seq(Insns(V)) /\ CodeAt(p, zero, head \o t)
      BY <1>10, <2>1
    <3> HIDE DEF p
    <3>2. CodeAt(p, zero, t) /\ CodeAt(p, zero + Len(t), head)
      BY <1>8, <3>1, SplitCode
    <3> QED  BY <3>2 DEF p
  <2>3. zero + Len(t) = m
    BY <1>9
  <2> QED  BY <2>2, <2>3
<1> HIDE DEF prog
<1>12. Left(prog, data, m, "arch") =
          IF data.arch \in T THEN Left(prog, data, all.table[data.arch], "arch") ELSE "filter"
  BY <1>6, <1>7, <1>9, <1>10, <1>11 DEF JumpsGood
<1>13. CodeAt(prog, 0, all.tail)
  BY <1>6, <1>7, <1>9, <1>10, <1>11 DEF JumpsGood
<1>14. data.arch \in T => Left(prog, data, all.table[data.arch], "arch") = Answer(last, data)
  <2>1. "arch" \in Accumulators
    BY DEF Accumulators
  <2> QED  BY <1>5, <1>10, <1>13, <2>1 DEF TailGood
<1>15. Run(prog, data) = Left(prog, data, m + 1, "none")
  BY <1>10, RunStarts
<1>16. PICK m1 \in Nat : m1 = m + 1
  OBVIOUS
<1>17. Has(prog, m1, Load("arch"))
  <2>1. CodeAt(prog, m, <<Load("arch")>>)
    BY <1>11 DEF head
  <2> QED  BY <1>10, <1>16, <2>1, CodeHas1
<1>18. Left(prog, data, m1, "none") = Left(prog, data, m, "arch")
  <2>1. "none" \in Accumulators /\ m = m1 - 1
    BY <1>16 DEF Accumulators
  <2>2. Left(prog, data, m1, "none") = Does(prog, data, Load("arch"), m1, "none")
    BY <1>10, <1>17, <2>1, InstructionDoes
  <2>3. Does(prog, data, Load("arch"), m1, "none") = Left(prog, data, m1 - 1, "arch")
    BY DEF Does, Load
  <2> QED  BY <2>1, <2>2, <2>3
<1>19. generateEnosysStub(last, order1, order2) = prog
  BY <1>2, <1>7 DEF prog, head, tail
<1> QED  BY <1>12, <1>14, <1>15, <1>16, <1>18, <1>19

-----------------------------------------------------------------------------
(* What findLastSyscalls finds.                                            *)

LEMMA LargestExists ==
    ASSUME NEW T \in SUBSET Int, IsFiniteSet(T), T # {}
    PROVE  \E n \in T : \A m \in T : n >= m
<1> DEFINE HasLargest(U) == \E n \in U : \A m \in U : n >= m
           S == {k \in Nat : \A U \in SUBSET Int : IsFiniteSet(U) /\ U # {} /\ Cardinality(U) <= k => HasLargest(U)}
<1>1. 0 \in S
  <2> SUFFICES ASSUME NEW U \in SUBSET Int, IsFiniteSet(U), U # {}, Cardinality(U) <= 0 PROVE FALSE
    OBVIOUS
  <2>1. Cardinality(U) = 0
    BY FS_CardinalityType
  <2> QED  BY <2>1, FS_EmptySet
<1>2. ASSUME NEW k \in Nat, k \in S PROVE k + 1 \in S
  <2> HIDE DEF HasLargest
  <2> SUFFICES ASSUME NEW U \in SUBSET Int, IsFiniteSet(U), U # {}, Cardinality(U) <= k + 1 PROVE HasLargest(U)
    OBVIOUS
  <2>1. PICK x \in U : TRUE
    OBVIOUS
  <2> DEFINE W == U \ {x}
  <2>2. W \in SUBSET Int /\ IsFiniteSet(W) /\ Cardinality(W) <= k
    <3>1. IsFiniteSet(W) /\ Cardinality(W) = Cardinality(U) - 1
      BY <2>1, FS_RemoveElement
    <3>2. Cardinality(U) \in Nat /\ Cardinality(W) \in Nat
      BY <3>1, FS_CardinalityType
    <3>3. Cardinality(W) <= k
      BY ONLY <3>1, <3>2, Cardinality(U) <= k + 1, k \in Nat
    <3> QED  BY <3>1, <3>3
  <2>3. CASE W = {}
    <3>1. \A m \in U : m = x
      BY <2>3
    <3>2. \A m \in U : x >= m
      BY <2>1, <3>1
    <3> QED  BY <2>1, <3>2 DEF HasLargest
  <2>4. CASE W # {}
    <3>1. HasLargest(W)
      BY <1>2, <2>2, <2>4
    <3>2. PICK n \in W : \A m \in W : n >= m
      BY <3>1 DEF HasLargest
    <3>3. n \in Int /\ x \in Int
      BY <2>1, <3>2
    <3>4. CASE x >= n
      <4>1. \A m \in U : x >= m
        <5> SUFFICES ASSUME NEW m \in U PROVE x >= m
          OBVIOUS
        <5>1. m = x \/ m \in W
          OBVIOUS
        <5> QED  BY <3>2, <3>3, <3>4, <5>1
      <4> QED  BY <2>1, <4>1 DEF HasLargest
    <3>5. CASE ~(x >= n)
      <4>1. \A m \in U : n >= m
        <5> SUFFICES ASSUME NEW m \in U PROVE n >= m
          OBVIOUS
        <5>1. m = x \/ m \in W
          OBVIOUS
        <5> QED  BY <3>2, <3>3, <3>5, <5>1
      <4> QED  BY <3>2, <4>1 DEF HasLargest
    <3> QED  BY <3>4, <3>5
  <2> QED  BY <2>3, <2>4
<1> HIDE DEF S
<1>3. Nat \subseteq S
  BY <1>1, <1>2, NatSetInduction
<1>4. Cardinality(T) \in Nat /\ Cardinality(T) <= Cardinality(T)
  BY FS_CardinalityType
<1> QED  BY <1>3, <1>4 DEF S

LEMMA ImageFinite ==
    ASSUME NEW S, IsFiniteSet(S), NEW f
    PROVE  IsFiniteSet({f[x] : x \in S})
<1> DEFINE T == {f[x] : x \in S}
           g == [x \in S |-> f[x]]
<1>1. g \in Surjection(S, T)
  BY DEF Surjection
<1> HIDE DEF T, g
<1>2. IsFiniteSet(T)
  BY <1>1, FS_Surjection
<1> QED  BY <1>2 DEF T

LEMMA LargestTyped ==
    ASSUME NEW arch \in DOMAIN No, NEW calls
    PROVE  LargestSyscall(arch, calls) \in Nat
<1> DEFINE called == {c.name : c \in Range1(calls)} \cap Names
           f == No[arch]
           known == {f[name] : name \in called}
           nos == known \cup {0}
<1>1. IsFiniteSet(Names) /\ \A name \in Names : f[name] \in Int
  BY SeccompAssumption
<1>2. LargestSyscall(arch, calls) = CHOOSE n \in nos : \A other \in nos : n >= other
  BY DEF LargestSyscall
<1>3. IsFiniteSet(called) /\ called \subseteq Names
  BY <1>1, FS_Intersection
<1> HIDE DEF called, f
<1>4. IsFiniteSet(known)
  BY <1>3, ImageFinite
<1>5. known \subseteq Int
  BY <1>1, <1>3
<1> HIDE DEF known
<1>6. IsFiniteSet(nos) /\ nos \subseteq Int /\ 0 \in nos
  BY <1>4, <1>5, FS_AddElement
<1> HIDE DEF nos
<1>7. \E n \in nos : \A other \in nos : n >= other
  BY <1>6, LargestExists
<1>8. PICK n \in nos : n = LargestSyscall(arch, calls) /\ \A other \in nos : n >= other
  BY <1>2, <1>7
<1>9. n \in Int /\ n >= 0
  BY <1>6, <1>8
<1>10. n \in Nat
  BY <1>9
<1> QED  BY <1>8, <1>10

LEMMA LastIsOK ==
    ASSUME NEW cfg, NEW nat, nat \in DOMAIN No, Range1(cfg.archs) \subseteq DOMAIN No, IsFiniteSet(DOMAIN cfg.archs)
    PROVE  LastOK(findLastSyscalls(cfg, nat)) /\ IsFiniteSet(DOMAIN findLastSyscalls(cfg, nat))
<1> DEFINE all == Range1(cfg.archs) \cup {nat}
           last == findLastSyscalls(cfg, nat)
<1>1. all \subseteq DOMAIN No /\ IsFiniteSet(all)
  <2> DEFINE f == cfg.archs
  <2>1. Range1(f) = {f[i] : i \in DOMAIN f}
    BY DEF Range1
  <2> HIDE DEF f
  <2>2. IsFiniteSet(DOMAIN f) => IsFiniteSet(Range1(f))
    BY <2>1, ImageFinite
  <2>3. IsFiniteSet(Range1(cfg.archs))
    BY <2>2 DEF f
  <2> QED  BY <2>3, FS_AddElement
<1>2. last = [aa \in {scmpArchToAuditArch(a) : a \in all} |->
                [a \in {m \in all : scmpArchToAuditArch(m) = aa /\ LargestSyscall(m, cfg.calls) # 0} |->
                    LargestSyscall(a, cfg.calls)]]
  BY DEF findLastSyscalls
<1> HIDE DEF all, last
<1>3. IsFiniteSet(DOMAIN last)
  <2> DEFINE f == [a \in all |-> scmpArchToAuditArch(a)]
  <2>1. DOMAIN last = {f[a] : a \in all}
    BY <1>2
  <2> HIDE DEF f
  <2> QED  BY <1>1, <2>1, ImageFinite
<1>4. LastOK(last)
  <2> SUFFICES ASSUME NEW aa \in DOMAIN last, NEW m \in DOMAIN last[aa]
               PROVE  last[aa][m] \in Nat /\ IF aa = "X86_64" THEN m \in {"amd64", "x32"} ELSE m = aa
    BY DEF LastOK
  <2>1. m \in all /\ scmpArchToAuditArch(m) = aa /\ last[aa][m] = LargestSyscall(m, cfg.calls)
    BY <1>2
  <2>2. m \in DOMAIN No /\ m # "X86_64"
    BY <1>1, <2>1, SeccompAssumption
  <2>3. LargestSyscall(m, cfg.calls) \in Nat
    BY <2>2, LargestTyped
  <2> QED  BY <2>1, <2>2, <2>3 DEF scmpArchToAuditArch
<1> QED  BY <1>3, <1>4 DEF last

-----------------------------------------------------------------------------
(* The profile on its way: what each stage leaves for the next.            *)

Converted ==
    /\ profile \in Profiles /\ native \in DOMAIN No
    /\ Range1(seccomp.archs) \subseteq DOMAIN No /\ IsFiniteSet(DOMAIN seccomp.archs)

(* Every rule is there for a call of the profile, with the call's action.  *)
RulesAreCalls ==
    \A r \in filter.rules : \E c \in Range1(seccomp.calls) :
        r.name = c.name /\ r.act = getAction(c.action, c.errno)

Built ==
    /\ filter.archs = Range1(seccomp.archs) \cup {native}
    /\ filter.default = getAction(seccomp.default, seccomp.errno)
    /\ RulesAreCalls

SeccompInv ==
    /\ Converted
    /\ stage \in {"build", "patch", "load", "done"} => ~NotifyProblem
    /\ stage \in {"patch", "load", "done"} => Built
    /\ stage \in {"load", "done"} => stub \in Patches(seccomp, native) /\ (listener <=> filterFlags)
    /\ stage = "done" => fd = IF listener THEN 3 ELSE -1
    /\ loaded => stage = "done"

LEMMA InitSeccompInv == SeccompInit => SeccompInv
<1> SUFFICES ASSUME SeccompInit PROVE SeccompInv
  OBVIOUS
<1>1. Range1(seccomp.archs) = {} /\ DOMAIN seccomp.archs = {}
  <2>1. seccomp.archs = << >>
    BY DEF SeccompInit, NoConfig
  <2>2. << >> \in Seq({})
    OBVIOUS
  <2>3. Len(<< >>) = 0 /\ DOMAIN << >> = 1..Len(<< >>)
    BY <2>2, LenProperties
  <2>4. ~(\E i \in 1..0 : TRUE)
    OBVIOUS
  <2>5. DOMAIN seccomp.archs = {}
    BY <2>1, <2>3, <2>4
  <2> QED  BY <2>5 DEF Range1
<1>2. Converted
  BY <1>1, FS_EmptySet, SeccompAssumption DEF Converted, SeccompInit
<1> QED  BY <1>2 DEF SeccompInv, SeccompInit

LEMMA ConvertKeeps ==
    ASSUME Converted, SetupSeccomp, stage' = "check"
    PROVE  Converted'
<1>1. Converts(profile) /\ seccomp' = ConvertProfile(profile) /\ profile' = profile /\ native' = native
  BY DEF SetupSeccomp, Fail
<1> DEFINE names == profile.archs
           converted == [i \in DOMAIN names |-> archs[names[i]]]
<1>2. seccomp'.archs = converted
  BY <1>1 DEF ConvertProfile
<1>3. profile \in Profiles
  BY DEF Converted
<1>4. names \in Seq(STRING) /\ \A a \in Range1(names) \cap DOMAIN archs : archs[a] \in DOMAIN No
  BY <1>3, SeccompAssumption
<1>5. Range1(names) \subseteq DOMAIN archs
  BY <1>1 DEF Converts
<1> HIDE DEF names
<1>6. ASSUME NEW i \in DOMAIN names PROVE archs[names[i]] \in DOMAIN No
  <2>1. names[i] \in Range1(names)
    BY DEF Range1
  <2> QED  BY <1>4, <1>5, <2>1
<1>7. Range1(converted) \subseteq DOMAIN No
  BY <1>6 DEF Range1
<1>8. IsFiniteSet(DOMAIN converted)
  <2>1. DOMAIN names = 1..Len(names) /\ Len(names) \in Nat
    BY <1>4, LenProperties
  <2> QED  BY <2>1, FS_Interval
<1> HIDE DEF converted
<1> QED  BY <1>1, <1>2, <1>7, <1>8 DEF Converted

(* The rules BuildFilter makes.                                            *)
LEMMA RuleOfCall ==
    ASSUME NEW c, NEW default, NEW r \in matchCall(c, default).rules
    PROVE  r.name = c.name /\ r.act = getAction(c.action, c.errno)
<1> DEFINE act == getAction(c.action, c.errno)
<1>1. r \in CallRules(c, act)
  BY DEF matchCall
<1> HIDE DEF act
<1>2. r.name = c.name /\ r.act = act
  BY <1>1 DEF CallRules
<1> QED  BY <1>2 DEF act

LEMMA FailKeeps == ASSUME SeccompInv, Fail, ~loaded PROVE SeccompInv'
BY DEF SeccompInv, Fail, Converted

LEMMA BuildKeeps == ASSUME SeccompInv, BuildFilter PROVE SeccompInv'
<1>1. CASE Fail
  <2>1. ~loaded
    BY DEF SeccompInv, BuildFilter
  <2> QED  BY <1>1, <2>1, FailKeeps
<1>2. CASE ~Fail
  <2> DEFINE default == getAction(seccomp.default, seccomp.errno)
             matched == {matchCall(c, default) : c \in Range1(seccomp.calls)}
  <2>1. /\ stage = "build" /\ stage' = "patch"
        /\ filter' = [default |-> default, rules |-> UNION {m.rules : m \in matched},
                      archs |-> Range1(seccomp.archs) \cup {native}]
        /\ UNCHANGED <<profile, seccomp, native, apiLevel, stub, listener, loaded, fd>>
    BY <1>2 DEF BuildFilter
  <2> HIDE DEF default
  <2>2. ASSUME NEW r \in filter'.rules
        PROVE  \E c \in Range1(seccomp.calls) : r.name = c.name /\ r.act = getAction(c.action, c.errno)
    <3>1. PICK c \in Range1(seccomp.calls) : r \in matchCall(c, default).rules
      BY <2>1
    <3>2. r.name = c.name /\ r.act = getAction(c.action, c.errno)
      BY <3>1, RuleOfCall
    <3> QED  BY <3>2
  <2>3. RulesAreCalls'
    BY <2>1, <2>2 DEF RulesAreCalls
  <2>4. Built'
    BY <2>1, <2>3 DEF Built, default
  <2>5. Converted' /\ ~NotifyProblem'
    BY <2>1 DEF SeccompInv, Converted, NotifyProblem
  <2> QED  BY <2>1, <2>4, <2>5 DEF SeccompInv
<1> QED  BY <1>1, <1>2

LEMMA StepSeccompInv == SeccompInv /\ [SeccompNext]_seccompVars => SeccompInv'
<1> SUFFICES ASSUME SeccompInv, [SeccompNext]_seccompVars PROVE SeccompInv'
  OBVIOUS
<1>1. CASE SetupSeccomp
  <2>1. ~loaded
    BY <1>1 DEF SeccompInv, SetupSeccomp
  <2>2. CASE Fail
    BY <2>1, <2>2, FailKeeps
  <2>3. CASE stage' = "disabled"
    BY <1>1, <2>1, <2>3 DEF SeccompInv, SetupSeccomp, Fail, Converted
  <2>4. CASE stage' = "check"
    <3>1. Converted'
      BY <1>1, <2>4, ConvertKeeps DEF SeccompInv
    <3>2. loaded' = loaded
      BY <1>1, <2>4 DEF SetupSeccomp, Fail
    <3> QED  BY <2>1, <2>4, <3>1, <3>2 DEF SeccompInv
  <2> QED  BY <1>1, <2>2, <2>3, <2>4 DEF SetupSeccomp
<1>2. CASE CheckConfig
  <2>1. ~loaded
    BY <1>2 DEF SeccompInv, CheckConfig
  <2>2. CASE Fail
    BY <2>1, <2>2, FailKeeps
  <2>3. CASE ~Fail
    <3>1. ~NotifyProblem /\ stage' = "build" /\ UNCHANGED <<profile, seccomp, native, apiLevel, filter, stub, listener, loaded, fd>>
      BY <1>2, <2>3 DEF CheckConfig
    <3>2. Converted' /\ ~NotifyProblem'
      BY <3>1 DEF SeccompInv, Converted, NotifyProblem
    <3> QED  BY <2>1, <3>1, <3>2 DEF SeccompInv
  <2> QED  BY <2>2, <2>3
<1>3. CASE BuildFilter
  BY <1>3, BuildKeeps
<1>4. CASE Patch
  <2>1. ~loaded
    BY <1>4 DEF SeccompInv, Patch
  <2>2. CASE Fail
    BY <2>1, <2>2, FailKeeps
  <2>3. CASE ~Fail
    <3>1. /\ stage = "patch" /\ stage' = "load" /\ stub' \in Patches(seccomp, native) /\ listener' = filterFlags
          /\ UNCHANGED <<profile, seccomp, native, apiLevel, filter, loaded, fd>>
      BY <1>4, <2>3 DEF Patch
    <3>2. Converted' /\ ~NotifyProblem' /\ Built' /\ (listener' <=> filterFlags')
      BY <3>1 DEF SeccompInv, Converted, NotifyProblem, Built, RulesAreCalls, filterFlags
    <3>3. stub' \in Patches(seccomp', native')
      BY <3>1
    <3> QED  BY <2>1, <3>1, <3>2, <3>3 DEF SeccompInv
  <2> QED  BY <2>2, <2>3
<1>5. CASE LoadFilter
  <2>1. ~loaded
    BY <1>5 DEF SeccompInv, LoadFilter
  <2>2. CASE Fail
    BY <2>1, <2>2, FailKeeps
  <2>3. CASE ~Fail
    <3>1. /\ stage = "load" /\ stage' = "done" /\ loaded' = TRUE /\ fd' = IF listener THEN 3 ELSE -1
          /\ UNCHANGED <<profile, seccomp, native, apiLevel, filter, stub, listener>>
      BY <1>5, <2>3 DEF LoadFilter
    <3>2. Converted' /\ ~NotifyProblem' /\ Built' /\ (listener' <=> filterFlags') /\ stub' \in Patches(seccomp', native')
      BY <3>1 DEF SeccompInv, Converted, NotifyProblem, Built, RulesAreCalls, filterFlags
    <3> QED  BY <3>1, <3>2 DEF SeccompInv
  <2> QED  BY <2>2, <2>3
<1>6. CASE UNCHANGED seccompVars
  BY <1>6 DEF SeccompInv, seccompVars, Converted, NotifyProblem, Built, RulesAreCalls, filterFlags
<1> QED  BY <1>1, <1>2, <1>3, <1>4, <1>5, <1>6 DEF SeccompNext, SeccompEnds

LEMMA SeccompInvariance == SeccompSpec => []SeccompInv
BY InitSeccompInv, StepSeccompInv, PTL DEF SeccompSpec

(* Theorem: the loaded stub answers -ENOSYS to exactly the numbers beyond  *)
(* the last one the profile names for the caller's mode.  For every table  *)
(* of system calls, every length of a conditional jump, every profile,     *)
(* every order of the map iterations and every number generateEnosysStub's *)
(* offsets are right.                                                      *)
THEOREM StubAnswersUnknown == SeccompSpec => []StubMeansUnknown
<1>1. SeccompInv => StubMeansUnknown
  <2> SUFFICES ASSUME SeccompInv, loaded, ~Unpatched(seccomp), NEW data \in AllData
               PROVE  Run(stub, data) = IF Beyond(data) THEN "ENOSYS" ELSE "filter"
    BY DEF StubMeansUnknown
  <2> DEFINE last == findLastSyscalls(seccomp, native)
             all == Range1(seccomp.archs) \cup {native}
             mode == Mode(data)
  <2>1. Converted /\ Built /\ stub \in Patches(seccomp, native)
    BY DEF SeccompInv
  <2>2. PICK o1 \in Orders(DOMAIN last), o2 \in Orders(DOMAIN last) : stub = generateEnosysStub(last, o1, o2)
    BY <2>1 DEF Patches
  <2>3. LastOK(last) /\ IsFiniteSet(DOMAIN last)
    BY <2>1, LastIsOK DEF Converted
  <2>4. PICK a \in DOMAIN No : data.arch = scmpArchToAuditArch(a)
    BY DEF AllData
  <2>5. data.nr \in Nat
    BY SeccompAssumption DEF AllData
  <2> HIDE DEF last
  <2>6. Run(stub, data) = IF data.arch \in DOMAIN last THEN Answer(last, data) ELSE "filter"
    BY <2>2, <2>3, <2>5, StubAnswers
  <2>7. scmpArchToAuditArch(mode) = data.arch
    <3>1. a # "X86_64"
      BY <2>4, SeccompAssumption
    <3> QED  BY <2>4, <3>1 DEF Mode, scmpArchToAuditArch
  <2> HIDE DEF all, mode
  <2>8. last = [aa \in {scmpArchToAuditArch(m) : m \in all} |->
                   [m \in {k \in all : scmpArchToAuditArch(k) = aa /\ LargestSyscall(k, seccomp.calls) # 0} |->
                       LargestSyscall(m, seccomp.calls)]]
    BY DEF findLastSyscalls, last, all
  <2>9. Beyond(data) = /\ mode \in all /\ LargestSyscall(mode, seccomp.calls) # 0
                       /\ Unknown(mode, LargestSyscall(mode, seccomp.calls), data.nr)
    BY <2>1 DEF Beyond, Built, Unknown, all, mode
  <2>10. mode \in all => data.arch \in DOMAIN last
    BY <2>7, <2>8
  <2>11. data.arch \in DOMAIN last =>
            /\ mode \in DOMAIN last[data.arch] <=> mode \in all /\ LargestSyscall(mode, seccomp.calls) # 0
            /\ mode \in DOMAIN last[data.arch] => last[data.arch][mode] = LargestSyscall(mode, seccomp.calls)
    BY <2>7, <2>8
  <2> QED  BY <2>6, <2>9, <2>10, <2>11 DEF Answer, mode
<1> QED  BY <1>1, SeccompInvariance, PTL

LEMMA OnlyNotifyNotifies ==
    ASSUME NEW act, NEW errno, getAction(act, errno) = <<"Notify">>
    PROVE  act = "Notify"
<1>1. <<"KillThread">> # <<"Notify">> /\ <<"invalid">> # <<"Notify">>
  OBVIOUS
<1>2. \A n : <<act, n>> # <<"Notify">>
  OBVIOUS
<1>3. <<act>> = <<"Notify">> => act = "Notify"
  OBVIOUS
<1> QED  BY <1>1, <1>2, <1>3 DEF getAction, Invalid

LEMMA NotifiesByARule ==
    ASSUME SeccompInv, loaded, NEW name, <<"Notify">> \in Answers(name)
    PROVE  \E c \in Range1(seccomp.calls) : c.name = name /\ c.action = "Notify"
<1>1. Built /\ ~NotifyProblem
  BY DEF SeccompInv
<1>2. <<"Notify">> # filter.default
  BY <1>1, OnlyNotifyNotifies DEF Built, NotifyProblem
<1>3. PICK r \in filter.rules : r.name = name /\ r.act = <<"Notify">>
  BY <1>2 DEF Answers
<1>4. PICK c \in Range1(seccomp.calls) : r.name = c.name /\ r.act = getAction(c.action, c.errno)
  BY <1>1 DEF Built, RulesAreCalls
<1> QED  BY <1>3, <1>4, OnlyNotifyNotifies

(* Theorem: InitSeccomp loads no filter that notifies for write, the call  *)
(* that gives the listening descriptor to the parent, by a rule or by the  *)
(* default action, whatever the profile.                                   *)
THEOREM WriteIsNotNotified == SeccompSpec => []WriteNeverNotifies
<1>1. SeccompInv => WriteNeverNotifies
  BY NotifiesByARule DEF SeccompInv, NotifyProblem, WriteNeverNotifies
<1> QED  BY <1>1, SeccompInvariance, PTL

(* Theorem: InitSeccomp returns a descriptor for every filter that may     *)
(* notify, since filterFlags asks for a listener for any rule that does.   *)
THEOREM NotifyIsHeard == SeccompSpec => []NotifyHasListener
<1>1. SeccompInv => NotifyHasListener
  <2> SUFFICES ASSUME SeccompInv, loaded, NEW name \in Names, <<"Notify">> \in Answers(name) PROVE fd # -1
    BY DEF NotifyHasListener
  <2>1. filterFlags
    BY NotifiesByARule DEF filterFlags
  <2> QED  BY <2>1 DEF SeccompInv
<1> QED  BY <1>1, SeccompInvariance, PTL

=============================================================================
