------------------------- MODULE BridgeConfigProofs -------------------------
(***************************************************************************)
(* The running bridge does what its configuration says, for any            *)
(* configuration file.                                                     *)
(***************************************************************************)
EXTENDS BridgeConfig, FiniteSetTheorems, SequenceTheorems, WellFoundedInduction, TLAPS

-----------------------------------------------------------------------------
(* Folds.  A fold that sets the entries of map after map: f gives the map   *)
(* of each element, ch the order in which the elements come.                *)

FoldStep(g, s, base, f, ch) ==
  IF s = {} THEN base ELSE Over(f[ch[s]], g[s \ {ch[s]}])

IsFold(g, S, base, f, ch) == g = [s \in SUBSET S |-> FoldStep(g, s, base, f, ch)]

FoldOf(S, base, f, ch) == CHOOSE g : IsFold(g, S, base, f, ch)

Chooses(ch, S) == \A s \in SUBSET S : s # {} => ch[s] \in s

(* A set of finite sets that is not empty has a least one. *)
LEMMA LeastSet ==
  ASSUME NEW S, IsFiniteSet(S), NEW B, B \subseteq SUBSET S, B # {}
  PROVE  \E T \in B : \A U \in B : U \subseteq T => U = T
<1>1. IsWellFoundedOn(StrictSubsetOrdering(S), SUBSET S)
  BY FS_FiniteSubsetsOfFinite, FS_StrictSubsetOrderingWellFounded
<1>2. PICK T \in B : \A U \in B : ~(<<U, T>> \in StrictSubsetOrdering(S))
  BY <1>1, WFMin
<1>3. ASSUME NEW U \in B, U \subseteq T, U # T PROVE FALSE
  BY <1>2, <1>3 DEF StrictSubsetOrdering
<1> QED
  BY <1>3

LEMMA FoldUnique ==
  ASSUME NEW S, IsFiniteSet(S), NEW T, NEW base, NEW f, NEW ch, Chooses(ch, S),
         NEW g, NEW h, IsFold(g, S, base, f, ch), IsFold(h, T, base, f, ch),
         NEW u \in SUBSET (S \cap T)
  PROVE  g[u] = h[u]
<1> SUFFICES ASSUME g[u] # h[u] PROVE FALSE
  OBVIOUS
<1> DEFINE B == {v \in SUBSET (S \cap T) : g[v] # h[v]}
<1>1. PICK v \in B : \A w \in B : w \subseteq v => w = v
  <2>1. B \subseteq SUBSET S /\ B # {}
    OBVIOUS
  <2> HIDE DEF B
  <2> QED
    BY <2>1, LeastSet
<1>2. g[v] = FoldStep(g, v, base, f, ch) /\ h[v] = FoldStep(h, v, base, f, ch)
  BY DEF IsFold
<1>3. CASE v = {}
  BY <1>2, <1>3 DEF FoldStep
<1>4. CASE v # {}
  <2>1. ch[v] \in v
    BY <1>4 DEF Chooses
  <2>2. v \ {ch[v]} \notin B
    BY <1>1, <2>1
  <2>3. g[v \ {ch[v]}] = h[v \ {ch[v]}]
    BY <1>1, <2>2
  <2> QED
    BY <1>1, <1>2, <1>4, <2>3 DEF FoldStep
<1> QED
  BY <1>3, <1>4

LEMMA FoldExists ==
  ASSUME NEW S, IsFiniteSet(S), NEW base, NEW f, NEW ch, Chooses(ch, S)
  PROVE  IsFold(FoldOf(S, base, f, ch), S, base, f, ch)
<1> DEFINE H(T) == FoldOf(T, base, f, ch)
           Good(T) == IsFold(H(T), T, base, f, ch)
           B == {T \in SUBSET S : ~Good(T)}
<1> SUFFICES ASSUME ~Good(S) PROVE FALSE
  OBVIOUS
<1>1. PICK T \in B : \A U \in B : U \subseteq T => U = T
  <2>1. B \subseteq SUBSET S /\ B # {}
    OBVIOUS
  <2> HIDE DEF B
  <2> QED
    BY <2>1, LeastSet
<1>2. IsFiniteSet(T)
  BY FS_Subset
<1> DEFINE rest(s) == s \ {ch[s]}
           g == [s \in SUBSET T |->
                   IF s = {} THEN base ELSE Over(f[ch[s]], H(rest(s))[rest(s)])]
<1>3. ASSUME NEW t \in SUBSET T, t # T PROVE Good(t)
  BY <1>1, <1>3
<1>4. ASSUME NEW s \in SUBSET T PROVE g[s] = FoldStep(g, s, base, f, ch)
  <2>1. CASE s = {}
    BY <2>1 DEF FoldStep
  <2>2. CASE s # {}
    <3> DEFINE t == rest(s)
    <3>1. t \in SUBSET T /\ t # T
      BY <2>2 DEF Chooses
    <3>2. Good(t) /\ IsFiniteSet(t) /\ Chooses(ch, t)
      BY <1>2, <1>3, <3>1, FS_Subset DEF Chooses
    <3>3. H(t)[t] = FoldStep(H(t), t, base, f, ch)
      BY <3>2 DEF IsFold
    <3>4. g[t] = H(t)[t]
      <4>1. CASE t = {}
        BY <3>1, <3>3, <4>1 DEF FoldStep
      <4>2. CASE t # {}
        <5>1. rest(t) \in SUBSET t /\ rest(t) \in SUBSET T /\ rest(t) # T
          BY <3>1, <4>2 DEF Chooses
        <5>2. Good(rest(t))
          BY <1>3, <5>1
        <5>3. H(t)[rest(t)] = H(rest(t))[rest(t)]
          <6> HIDE DEF H
          <6> QED
            BY <3>2, <5>1, <5>2, FoldUnique
        <5> QED
          BY <3>1, <3>3, <4>2, <5>3 DEF FoldStep
      <4> QED
        BY <4>1, <4>2
    <3> QED
      BY <2>2, <3>4 DEF FoldStep
  <2> QED
    BY <2>1, <2>2
<1>5. IsFold(g, T, base, f, ch)
  BY <1>4 DEF IsFold
<1> HIDE DEF g
<1>6. Good(T)
  BY <1>5 DEF FoldOf
<1> QED
  BY <1>1, <1>6

(* What is left of the maps in the end: all of their keys, and under each   *)
(* key an entry of one of them.                                             *)
Merged(r, S, base, f) ==
  /\ DOMAIN r = DOMAIN base \cup UNION {DOMAIN f[x] : x \in S}
  /\ \A k \in DOMAIN r :
        \/ k \in DOMAIN base /\ r[k] = base[k]
        \/ \E x \in S : k \in DOMAIN f[x] /\ r[k] = f[x][k]

LEMMA FoldMerges ==
  ASSUME NEW S, IsFiniteSet(S), NEW base, NEW f, NEW ch, Chooses(ch, S)
  PROVE  Merged(FoldOf(S, base, f, ch)[S], S, base, f)
<1> DEFINE g == FoldOf(S, base, f, ch)
<1>1. IsFold(g, S, base, f, ch)
  BY FoldExists
<1> HIDE DEF g
<1> SUFFICES ASSUME ~Merged(g[S], S, base, f) PROVE FALSE
  BY DEF g
<1> DEFINE B == {s \in SUBSET S : ~Merged(g[s], s, base, f)}
<1>2. PICK s \in B : \A u \in B : u \subseteq s => u = s
  <2>1. B \subseteq SUBSET S /\ B # {}
    OBVIOUS
  <2> HIDE DEF B
  <2> QED
    BY <2>1, LeastSet
<1>3. g[s] = FoldStep(g, s, base, f, ch)
  BY <1>1 DEF IsFold
<1>4. CASE s = {}
  BY <1>2, <1>3, <1>4 DEF FoldStep, Merged
<1>5. CASE s # {}
  <2> DEFINE x == ch[s]
             t == s \ {x}
  <2>1. x \in s
    BY <1>5 DEF Chooses
  <2>2. Merged(g[t], t, base, f)
    BY <1>2, <2>1
  <2>3. g[s] = Over(f[x], g[t])
    BY <1>3, <1>5 DEF FoldStep
  <2>4. s = t \cup {x}
    BY <2>1
  <2> HIDE DEF x, t
  <2>5. DOMAIN g[s] = DOMAIN base \cup UNION {DOMAIN f[y] : y \in s}
    BY <2>2, <2>3, <2>4 DEF Merged, Over
  <2>6. ASSUME NEW k \in DOMAIN g[s]
        PROVE  \/ k \in DOMAIN base /\ g[s][k] = base[k]
               \/ \E y \in s : k \in DOMAIN f[y] /\ g[s][k] = f[y][k]
    <3>1. CASE k \in DOMAIN f[x]
      BY <2>3, <2>4, <3>1 DEF Over
    <3>2. CASE k \notin DOMAIN f[x]
      <4>1. k \in DOMAIN g[t] /\ g[s][k] = g[t][k]
        BY <2>3, <2>6, <3>2 DEF Over
      <4> QED
        BY <2>2, <2>4, <4>1 DEF Merged
    <3> QED
      BY <3>1, <3>2
  <2> QED
    BY <1>2, <2>5, <2>6 DEF Merged
<1> QED
  BY <1>4, <1>5

(* A set of numbers with an upper bound has a greatest, one of naturals a   *)
(* least.                                                                   *)
LEMMA LeastNumber ==
  ASSUME NEW S, S \subseteq Nat, S # {}
  PROVE  Min(S) \in S /\ \A x \in S : Min(S) <= x
<1>1. PICK m \in S : \A x \in S : ~(<<x, m>> \in OpToRel(<, Nat))
  BY NatLessThanWellFounded, WFMin
<1>2. \A x \in S : m <= x
  <2> SUFFICES ASSUME NEW x \in S PROVE m <= x
    OBVIOUS
  <2>1. ~(x < m)
    BY <1>1 DEF OpToRel
  <2> QED
    BY <2>1
<1> QED
  BY <1>2 DEF Min

LEMMA GreatestNumber ==
  ASSUME NEW n \in Nat, NEW S, S \subseteq 1..n, S # {}
  PROVE  Max(S) \in S /\ \A x \in S : Max(S) >= x
<1> DEFINE T == {n - x : x \in S}
<1>1. T \subseteq Nat /\ T # {}
  <2>1. ASSUME NEW x \in S PROVE n - x \in Nat
    <3>1. x \in 1..n
      OBVIOUS
    <3> QED
      BY <3>1
  <2>2. PICK x \in S : TRUE
    OBVIOUS
  <2>3. n - x \in T
    OBVIOUS
  <2> QED
    BY <2>1, <2>3
<1>2. Min(T) \in T /\ \A y \in T : Min(T) <= y
  <2> HIDE DEF T
  <2> QED
    BY <1>1, LeastNumber
<1>3. PICK m \in S : \A x \in S : n - m <= n - x
  BY <1>2
<1>4. \A x \in S : m >= x
  BY <1>3
<1> QED
  BY <1>4 DEF Max

-----------------------------------------------------------------------------
(* The maps of the configuration in any order *)

LEMMA MergesMerged ==
  ASSUME NEW maps, IsFiniteSet(maps), NEW r \in Merges(maps)
  PROVE  /\ DOMAIN r = UNION {DOMAIN m : m \in maps}
         /\ \A k \in DOMAIN r : \E m \in maps : k \in DOMAIN m /\ r[k] = m[k]
<1> DEFINE n == Cardinality(maps)
<1>1. n \in Nat
  BY FS_CardinalityType
<1>2. PICK order \in [1..n -> maps] :
         /\ \A i, j \in 1..n : i # j => order[i] # order[j]
         /\ r = FoldLeft(LAMBDA acc, m : Over(m, acc), <<>>, order)
  BY DEF Merges, SetToSeqs
<1>3. order \in Surjection(1..n, maps)
  <2>1. order \in Injection(1..n, maps)
    BY <1>2 DEF Injection, IsInjective
  <2>2. Cardinality(1..n) = n
    BY <1>1, FS_Interval
  <2> QED
    BY <2>1, <2>2, FS_Injection
<1> HIDE DEF n
<1> DEFINE S == DOMAIN order
           ch == [s \in SUBSET S |-> Max(s)]
<1>4. S = 1..n /\ IsFiniteSet(S)
  <2>1. 1 \in Int /\ n \in Int /\ S = 1..n
    BY <1>1, <1>3 DEF Surjection
  <2>2. IsFiniteSet(1..n)
    BY <2>1, FS_Interval
  <2> QED
    BY <2>1, <2>2
<1>5. Chooses(ch, S)
  BY <1>1, <1>4, GreatestNumber DEF Chooses
<1>6. r = FoldOf(S, <<>>, order, ch)[S]
  BY <1>2 DEF FoldLeft, MapThenFoldSet, FoldOf, IsFold, FoldStep
<1> HIDE DEF ch
<1>7. Merged(r, S, <<>>, order)
  BY <1>4, <1>5, <1>6, FoldMerges
<1>8. DOMAIN <<>> = {}
  OBVIOUS
<1>9. \A m \in maps : \E i \in S : order[i] = m
  BY <1>3, <1>4 DEF Surjection
<1>10. \A i \in S : order[i] \in maps
  BY <1>2
<1> HIDE DEF S
<1> QED
  BY <1>7, <1>8, <1>9, <1>10 DEF Merged

-----------------------------------------------------------------------------
(* Joined keys *)

(* The provers find lemmas about joined keys by this name of the equation.  *)
Joins(k, d, x) == k = d \o x

LEMMA Joined ==
  ASSUME NEW d \in Names, NEW n \in Names
  PROVE  /\ d \o n \in Names
         /\ SubSeq(d \o n, Len(d) + 1, Len(d \o n)) = n
BY DEF Names

LEMMA SameJoined ==
  ASSUME NEW d \in Names, NEW m \in Names, NEW n \in Names, d \o m = d \o n
  PROVE  m = n
<1>1. SubSeq(d \o m, Len(d) + 1, Len(d \o m)) = m
  BY Joined
<1>2. SubSeq(d \o n, Len(d) + 1, Len(d \o n)) = n
  BY Joined
<1> QED
  BY <1>1, <1>2

(* The entries of a register group's map stand for registers of the group.  *)
LEMMA RegisterMapEntries ==
  ASSUME NEW g \in RegisterGroup, NEW d, NEW topics,
         NEW k \in DOMAIN RegisterMap(g, d, topics)
  PROVE  \E i \in Readable(g) :
            /\ k = d \o g.registers[i].key
            /\ RegisterMap(g, d, topics)[k]
                 = [address |-> Address(g, i), topic |-> topics[g.registers[i].key]]
<1> DEFINE S == {i \in Readable(g) : d \o g.registers[i].key = k}
<1>1. S # {}
  BY DEF RegisterMap
<1>2. g.registers \in Seq([key : Names, offset : Int])
  BY DEF RegisterGroup
<1>3. Len(g.registers) \in Nat /\ S \subseteq 1..Len(g.registers)
  BY <1>2 DEF Readable
<1>4. Max(S) \in S
  BY <1>1, <1>3, GreatestNumber
<1>5. RegisterMap(g, d, topics)[k]
        = [address |-> Address(g, Max(S)), topic |-> topics[g.registers[Max(S)].key]]
  BY DEF RegisterMap
<1> QED
  BY <1>4, <1>5

LEMMA RegisterMapKeys ==
  ASSUME NEW g, NEW d, NEW topics, NEW i \in Readable(g)
  PROVE  d \o g.registers[i].key \in DOMAIN RegisterMap(g, d, topics)
BY DEF RegisterMap

(* The calculated value a device has under a key                            *)
LEMMA CalcAtKey ==
  ASSUME NEW d \in DOMAIN config.devices, IsFile(config), NEW k \in CalcKeys(d)
  PROVE  \E i \in DOMAIN config.devices[d].calcs :
            k = d \o config.devices[d].calcs[i].key /\ CalcAt(d, k) = config.devices[d].calcs[i]
<1> DEFINE calcs == config.devices[d].calcs
           S == {i \in DOMAIN calcs : d \o calcs[i].key = k}
<1>1. S # {}
  BY DEF CalcKeys
<1>2. calcs \in Seq([key : Names, variables : SUBSET Names])
  BY DEF IsFile, IsDevice
<1>3. Len(calcs) \in Nat /\ S \subseteq 1..Len(calcs)
  BY <1>2
<1>4. Max(S) \in S
  <2> HIDE DEF S, calcs
  <2> QED
    BY <1>1, <1>3, GreatestNumber
<1>5. CalcAt(d, k) = calcs[Max(S)]
  BY DEF CalcAt
<1> QED
  BY <1>4, <1>5

-----------------------------------------------------------------------------
(* The invariant *)

Phases == {"file", "loaded", "refused", "devices", "valid", "accepted",
           "not supported", "registering", "running"}
Validated == {"valid", "accepted", "not supported", "registering", "running"}
Accepted  == Validated \ {"valid"}
Registry  == {"registering", "running"}

TypeInv ==
  /\ IsFile(config)
  /\ phase \in Phases
  /\ todo \subseteq DOMAIN config.devices
  /\ phase = "registering" => todo \subseteq Enabled
  /\ phase = "running" => todo = {}
  /\ phase \notin Accepted => ownRegisters = (DOMAIN config.registers # {})

(* What the validation has looked at in a file of version 2.1               *)
Sound(d) == ValidDevice(config.devices[d]) /\ config.devices[d].slave \in usedSlaveIDs

DevicesChecked ==
  phase \in Validated \cup {"devices"} /\ config.version = "2.1" =>
    \A d \in DOMAIN config.devices : Sound(d) \/ (phase = "devices" /\ d \in todo)

(* A flat view made from the devices: all their registers, and nothing but  *)
(* these and the calculated values.                                         *)
FlatView(devices, registers) ==
  LET on == {d \in DOMAIN devices : devices[d].enabled} IN
  /\ \A d \in on : \A n \in DOMAIN devices[d].groups :
       \A i \in Readable(devices[d].groups[n]) :
          d \o devices[d].groups[n].registers[i].key \in DOMAIN registers
  /\ \A k \in DOMAIN registers : \E d \in on :
       \/ \E i \in DOMAIN devices[d].calcs : k = d \o devices[d].calcs[i].key
       \/ \E n \in DOMAIN devices[d].groups : \E i \in Readable(devices[d].groups[n]) :
             /\ k = d \o devices[d].groups[n].registers[i].key
             /\ registers[k].address = Address(devices[d].groups[n], i)

FlatViewMade ==
  phase \in Accepted /\ config.version = "2.1" /\ DOMAIN config.devices # {} /\ ~ownRegisters
    => FlatView(config.devices, config.registers)

(* The devices registered, and the entries they have                        *)
Done == IF phase = "registering" THEN Enabled \ todo
        ELSE IF phase \in Registry THEN Enabled ELSE {}

GroupsRegistered ==
  /\ \A d \in Done : \A n \in EnabledGroups(config.devices[d]) : d \o n \in DOMAIN groupStrategies
  /\ \A k \in DOMAIN groupStrategies : \E d \in Done : \E n \in EnabledGroups(config.devices[d]) :
       k = d \o n /\ groupStrategies[k] = GroupStrategy(d, n)

CalcsRegistered ==
  /\ \A d \in Done : CalcKeys(d) \subseteq DOMAIN calcStrategies
  /\ \A k \in DOMAIN calcStrategies : \E d \in Done :
       k \in CalcKeys(d) /\ calcStrategies[k] = CalcStrategy(d, k)

IntervalsRegistered ==
  /\ DOMAIN groupIntervals = DOMAIN groupStrategies \cup DOMAIN calcStrategies
  /\ \A k \in DOMAIN groupIntervals : \E d \in Done :
       \/ k \in CalcKeys(d) /\ groupIntervals[k] = FastestInterval(config.devices[d])
       \/ \E n \in EnabledGroups(config.devices[d]) :
            k = d \o n /\ groupIntervals[k] = config.devices[d].groups[n].interval

Announced ==
  phase = "running" =>
    discovered = UNION {{<<HADeviceID(d), k>> : k \in SensorKeys(config.devices[d])} : d \in Enabled}

IInv == /\ TypeInv /\ DevicesChecked /\ FlatViewMade
        /\ GroupsRegistered /\ CalcsRegistered /\ IntervalsRegistered /\ Announced

-----------------------------------------------------------------------------
LEMMA InitIInv == Init => IInv
<1> SUFFICES ASSUME Init PROVE IInv
  OBVIOUS
<1> USE DEF Init
<1>1. TypeInv
  BY FilesAssumption DEF TypeInv, Phases, Accepted, Validated
<1>2. DevicesChecked /\ FlatViewMade /\ Announced
  BY DEF DevicesChecked, FlatViewMade, Announced, Accepted, Validated
<1>3. Done = {}
  BY DEF Done, Registry
<1>4. DOMAIN <<>> = {}
  OBVIOUS
<1>5. GroupsRegistered /\ CalcsRegistered /\ IntervalsRegistered
  BY <1>3, <1>4 DEF GroupsRegistered, CalcsRegistered, IntervalsRegistered
<1> QED
  BY <1>1, <1>2, <1>5 DEF IInv

(* Steps that keep the configuration and register nothing new               *)
LEMMA RegistryKept ==
  ASSUME IInv, config'.devices = config.devices, UNCHANGED executor, Done' = Done
  PROVE  GroupsRegistered' /\ CalcsRegistered' /\ IntervalsRegistered'
<1>1. \A d, n : GroupStrategy(d, n)' = GroupStrategy(d, n)
  BY DEF GroupStrategy, TopicsOf, RegisterMap
<1>2. \A d : CalcKeys(d)' = CalcKeys(d)
  BY DEF CalcKeys
<1>3. \A d, k : CalcStrategy(d, k)' = CalcStrategy(d, k)
  BY DEF CalcStrategy, CalcAt
<1>4. \A d : /\ EnabledGroups(config.devices[d])' = EnabledGroups(config.devices[d])
             /\ FastestInterval(config.devices[d])' = FastestInterval(config.devices[d])
  BY DEF EnabledGroups, FastestInterval
<1>5. GroupsRegistered'
  BY <1>1, <1>4 DEF IInv, GroupsRegistered, executor
<1>6. CalcsRegistered'
  BY <1>2, <1>3 DEF IInv, CalcsRegistered, executor
<1>7. IntervalsRegistered'
  <2>1. /\ groupIntervals' = groupIntervals /\ groupStrategies' = groupStrategies
        /\ calcStrategies' = calcStrategies
    BY DEF executor
  <2>2. DOMAIN groupIntervals' = DOMAIN groupStrategies' \cup DOMAIN calcStrategies'
    BY <2>1 DEF IInv, IntervalsRegistered
  <2>3. ASSUME NEW k \in DOMAIN groupIntervals'
        PROVE  \E d \in Done' :
                 \/ k \in CalcKeys(d)' /\ groupIntervals'[k] = FastestInterval(config.devices[d])'
                 \/ \E n \in EnabledGroups(config.devices[d])' :
                      k = d \o n /\ groupIntervals'[k] = config'.devices[d].groups[n].interval
    <3>1. PICK d \in Done :
            \/ k \in CalcKeys(d) /\ groupIntervals[k] = FastestInterval(config.devices[d])
            \/ \E n \in EnabledGroups(config.devices[d]) :
                 k = d \o n /\ groupIntervals[k] = config.devices[d].groups[n].interval
      BY <2>1, <2>3 DEF IInv, IntervalsRegistered
    <3> QED
      BY <1>2, <1>4, <2>1, <3>1
  <2> QED
    BY <2>2, <2>3 DEF IntervalsRegistered
<1> QED
  BY <1>5, <1>6, <1>7

(* Steps before the registration                                            *)
LEMMA NothingRegistered ==
  ASSUME IInv, Done = {}, Done' = {}, UNCHANGED executor
  PROVE  GroupsRegistered' /\ CalcsRegistered' /\ IntervalsRegistered'
<1>1. /\ groupIntervals' = groupIntervals /\ groupStrategies' = groupStrategies
      /\ calcStrategies' = calcStrategies
  BY DEF executor
<1>2. DOMAIN groupStrategies = {} /\ DOMAIN calcStrategies = {} /\ DOMAIN groupIntervals = {}
  BY DEF IInv, GroupsRegistered, CalcsRegistered, IntervalsRegistered
<1> QED
  BY <1>1, <1>2 DEF GroupsRegistered, CalcsRegistered, IntervalsRegistered

LEMMA SameDevices ==
  ASSUME NEW c, NEW e, IsFile(c), DOMAIN e = DOMAIN c, e.devices = c.devices
  PROVE  IsFile(e)
BY DEF IsFile

LEMMA LoadIInv == IInv /\ LoadConfig /\ UNCHANGED ownRegisters => IInv'
<1> SUFFICES ASSUME IInv, LoadConfig, UNCHANGED ownRegisters PROVE IInv'
  OBVIOUS
<1> USE DEF LoadConfig
<1>1. IsFile(config)
  BY DEF IInv, TypeInv
<1>2. /\ DOMAIN config' = DOMAIN config
      /\ config'.devices = config.devices /\ config'.registers = config.registers
  BY <1>1 DEF IsFile
<1>3. TypeInv'
  <2>1. IsFile(config')
    BY <1>1, <1>2, SameDevices
  <2> QED
    BY <1>2, <2>1 DEF IInv, TypeInv, Phases, Accepted, Validated
<1>4. DevicesChecked' /\ FlatViewMade' /\ Announced'
  BY DEF DevicesChecked, FlatViewMade, Announced, Accepted, Validated
<1>5. Done = {} /\ Done' = {}
  BY DEF Done, Registry
<1> QED
  BY <1>3, <1>4, <1>5, NothingRegistered DEF IInv

LEMMA ValidateIInv == IInv /\ Validate /\ UNCHANGED ownRegisters => IInv'
<1> SUFFICES ASSUME IInv, Validate, UNCHANGED ownRegisters PROVE IInv'
  OBVIOUS
<1> USE DEF Validate
<1>1. phase' \in {"refused", "devices", "valid"}
  OBVIOUS
<1>2. TypeInv'
  BY <1>1 DEF IInv, TypeInv, Phases, Accepted, Validated
<1>3. DevicesChecked'
  BY DEF DevicesChecked, Validated
<1>4. FlatViewMade' /\ Announced'
  BY <1>1 DEF FlatViewMade, Announced, Accepted, Validated
<1>5. Done = {} /\ Done' = {}
  BY <1>1 DEF Done, Registry
<1> QED
  BY <1>2, <1>3, <1>4, <1>5, NothingRegistered DEF IInv

(* A device that passed passes again with its groups' slave ids filled in.  *)
LEMMA InheritKeeps ==
  ASSUME NEW device, IsDevice(device), ValidDevice(device)
  PROVE  /\ IsDevice(Inherit(device)) /\ ValidDevice(Inherit(device))
         /\ Inherit(device).enabled = device.enabled /\ Inherit(device).slave = device.slave
<1> DEFINE heir == Inherit(device)
<1>1. /\ DOMAIN heir = DOMAIN device
      /\ heir.named = device.named /\ heir.slave = device.slave
      /\ heir.haDeviceID = device.haDeviceID /\ heir.enabled = device.enabled
      /\ heir.calcs = device.calcs
      /\ DOMAIN heir.groups = DOMAIN device.groups
  BY DEF Inherit, IsDevice
<1>2. ASSUME NEW n \in DOMAIN device.groups
      PROVE  /\ heir.groups[n] \in RegisterGroup
             /\ heir.groups[n].registers = device.groups[n].registers
             /\ heir.groups[n].slave # 0
             /\ ValidGroup(heir.groups[n])
  <2>1. device.groups[n] \in RegisterGroup /\ device.slave \in Nat /\ device.slave # 0
    BY DEF IsDevice, ValidDevice
  <2>2. heir.groups[n] = IF device.groups[n].slave = 0
                         THEN [device.groups[n] EXCEPT !.slave = device.slave]
                         ELSE device.groups[n]
    BY DEF Inherit, IsDevice
  <2>3. ValidGroup(heir.groups[n])
    BY DEF ValidDevice
  <2> HIDE DEF heir
  <2> QED
    BY <2>1, <2>2, <2>3 DEF RegisterGroup
<1>3. ASSUME NEW n \in DOMAIN device.groups PROVE ValidGroup(Inherit(heir).groups[n])
  <2>1. Inherit(heir).groups[n] = heir.groups[n]
    <3> HIDE DEF heir
    <3> QED
      BY <1>1, <1>2 DEF Inherit, IsDevice
  <2> QED
    BY <1>2, <2>1
<1> HIDE DEF heir
<1>4. IsDevice(heir)
  BY <1>1, <1>2 DEF IsDevice, IsMap
<1>5. \A n \in DOMAIN device.groups : KeysOf(heir.groups[n]) = KeysOf(device.groups[n])
  BY <1>2 DEF KeysOf
<1>6. RegisterKeys(heir) = RegisterKeys(device)
  BY <1>1, <1>5 DEF RegisterKeys
<1>7. UniqueKeys(heir)
  BY <1>1, <1>2, <1>6 DEF UniqueKeys, ValidDevice
<1>8. ASSUME NEW i \in DOMAIN device.calcs PROVE KnownTo(heir, i) = KnownTo(device, i)
  BY <1>1, <1>6 DEF KnownTo
<1>9. ValidDevice(heir)
  BY <1>1, <1>3, <1>6, <1>7, <1>8 DEF ValidDevice
<1> QED
  BY <1>1, <1>4, <1>9 DEF heir

LEMMA ValidateDeviceIInv ==
  ASSUME NEW d \in DOMAIN config.devices
  PROVE  IInv /\ ValidateDevice(d) /\ UNCHANGED ownRegisters => IInv'
<1> SUFFICES ASSUME IInv, ValidateDevice(d), UNCHANGED ownRegisters PROVE IInv'
  OBVIOUS
<1>1. phase = "devices" /\ d \in todo /\ UNCHANGED executor
  BY DEF ValidateDevice
<1>2. IsFile(config) /\ IsDevice(config.devices[d]) /\ todo \subseteq DOMAIN config.devices
  BY DEF IInv, TypeInv, IsFile
<1>3. CASE phase' = "refused" /\ UNCHANGED config /\ todo' = {}
  <2>1. TypeInv'
    BY <1>1, <1>3 DEF IInv, TypeInv, Phases, Accepted, Validated
  <2>2. DevicesChecked' /\ FlatViewMade' /\ Announced'
    BY <1>3 DEF DevicesChecked, FlatViewMade, Announced, Accepted, Validated
  <2>3. Done = {} /\ Done' = {}
    BY <1>1, <1>3 DEF Done, Registry
  <2> QED
    BY <1>1, <2>1, <2>2, <2>3, NothingRegistered DEF IInv
<1>4. CASE /\ ValidDevice(config.devices[d])
           /\ config' = [config EXCEPT !.devices[d] = Inherit(@)]
           /\ usedSlaveIDs' = usedSlaveIDs \cup {config.devices[d].slave}
           /\ todo' = todo \ {d}
           /\ phase' = IF todo' = {} THEN "valid" ELSE "devices"
  <2>1. /\ DOMAIN config' = DOMAIN config
        /\ config'.registers = config.registers
        /\ config'.version = config.version
        /\ DOMAIN config'.devices = DOMAIN config.devices
        /\ config'.devices[d] = Inherit(config.devices[d])
        /\ \A e \in DOMAIN config.devices : e # d => config'.devices[e] = config.devices[e]
    BY <1>2, <1>4 DEF IsFile
  <2>2. /\ IsDevice(config'.devices[d]) /\ ValidDevice(config'.devices[d])
        /\ config'.devices[d].slave = config.devices[d].slave
    BY <1>2, <1>4, <2>1, InheritKeeps
  <2>3. IsFile(config')
    BY <1>2, <2>1, <2>2 DEF IsFile, IsMap
  <2>4. TypeInv'
    <3>1. phase' \in {"valid", "devices"}
      BY <1>4
    <3>2. todo' \subseteq DOMAIN config'.devices
      BY <1>2, <1>4, <2>1
    <3>3. ownRegisters' = (DOMAIN config'.registers # {})
      BY <1>1, <2>1 DEF IInv, TypeInv, Accepted, Validated
    <3> QED
      BY <2>3, <3>1, <3>2, <3>3 DEF TypeInv, Phases
  <2>5. DevicesChecked'
    <3> SUFFICES ASSUME config'.version = "2.1", NEW e \in DOMAIN config'.devices
                 PROVE  Sound(e)' \/ (phase' = "devices" /\ e \in todo')
      BY DEF DevicesChecked
    <3>1. CASE e = d
      BY <1>4, <2>2, <3>1 DEF Sound
    <3>2. CASE e # d
      <4>1. Sound(e) \/ e \in todo
        BY <1>1, <2>1 DEF IInv, DevicesChecked
      <4>2. CASE Sound(e)
        BY <1>4, <2>1, <3>2, <4>2 DEF Sound
      <4>3. CASE e \in todo
        BY <1>4, <3>2, <4>3
      <4> QED
        BY <4>1, <4>2, <4>3
    <3> QED
      BY <3>1, <3>2
  <2>6. FlatViewMade' /\ Announced'
    BY <1>4 DEF FlatViewMade, Announced, Accepted, Validated
  <2>7. Done = {} /\ Done' = {}
    BY <1>1, <1>4 DEF Done, Registry
  <2> QED
    BY <1>1, <2>4, <2>5, <2>6, <2>7, NothingRegistered DEF IInv
<1> QED
  BY <1>3, <1>4 DEF ValidateDevice

(* The flat view                                                            *)
LEMMA OfDevice ==
  ASSUME IsFile(config), NEW d \in DOMAIN config.devices
  PROVE  \E groups : /\ DeviceRegisters(d) = Over(CalcRegisters(d), groups)
                     /\ Merged(groups, DOMAIN config.devices[d].groups, <<>>, GroupRegisters(d))
<1> DEFINE S == DOMAIN config.devices[d].groups
           base == <<>>
           f == GroupRegisters(d)
           ch == [s \in SUBSET S |-> CHOOSE x \in s : TRUE]
           groups == FoldSet(LAMBDA n, acc : Over(f[n], acc), base, S)
<1>1. IsFiniteSet(S)
  BY DEF IsFile, IsDevice, IsMap
<1>2. Chooses(ch, S)
  BY DEF Chooses
<1>3. groups = FoldOf(S, base, f, ch)[S]
  <2> HIDE DEF base, f, S
  <2> QED
    BY DEF FoldSet, MapThenFoldSet, FoldOf, IsFold, FoldStep
<1>4. DeviceRegisters(d) = Over(CalcRegisters(d), groups)
  BY DEF DeviceRegisters
<1> HIDE DEF groups, ch, S, base, f
<1>5. Merged(groups, S, base, f)
  BY <1>1, <1>2, <1>3, FoldMerges
<1> QED
  BY <1>4, <1>5 DEF S, base, f

LEMMA EnabledFinite ==
  ASSUME IsFile(config)
  PROVE  IsFiniteSet(Enabled) /\ Enabled \subseteq Names /\ Enabled \subseteq DOMAIN config.devices
<1>1. IsFiniteSet(DOMAIN config.devices) /\ DOMAIN config.devices \subseteq Names
  BY DEF IsFile, IsMap
<1>2. Enabled \in SUBSET DOMAIN config.devices
  BY DEF Enabled
<1> QED
  BY <1>1, <1>2, FS_Subset

LEMMA DevicesFlatView ==
  ASSUME IsFile(config), NEW registers \in GetAllRegistersFromDevices
  PROVE  FlatView(config.devices, registers)
<1> DEFINE maps == {DeviceRegisters(d) : d \in Enabled}
           f == [d \in Enabled |-> DeviceRegisters(d)]
<1>1. IsFiniteSet(maps)
  <2>1. f \in Surjection(Enabled, maps)
    BY DEF Surjection
  <2> HIDE DEF f, maps
  <2> QED
    BY <2>1, EnabledFinite, FS_Surjection
<1>2. registers \in Merges(maps)
  BY DEF GetAllRegistersFromDevices
<1>3. /\ DOMAIN registers = UNION {DOMAIN m : m \in maps}
      /\ \A k \in DOMAIN registers : \E m \in maps : k \in DOMAIN m /\ registers[k] = m[k]
  <2> HIDE DEF maps
  <2> QED
    BY <1>1, <1>2, MergesMerged
<1>4. Enabled = {d \in DOMAIN config.devices : config.devices[d].enabled}
  BY DEF Enabled
<1>5. ASSUME NEW d \in Enabled, NEW n \in DOMAIN config.devices[d].groups,
             NEW i \in Readable(config.devices[d].groups[n])
      PROVE  d \o config.devices[d].groups[n].registers[i].key \in DOMAIN registers
  <2> DEFINE g == config.devices[d].groups[n]
  <2>1. d \o g.registers[i].key \in DOMAIN GroupRegisters(d)[n]
    BY RegisterMapKeys DEF GroupRegisters
  <2>2. PICK groups : /\ DeviceRegisters(d) = Over(CalcRegisters(d), groups)
                      /\ Merged(groups, DOMAIN config.devices[d].groups, <<>>, GroupRegisters(d))
    BY OfDevice, EnabledFinite
  <2>3. DOMAIN GroupRegisters(d)[n] \subseteq DOMAIN groups
    BY <2>2 DEF Merged
  <2>4. DOMAIN groups \subseteq DOMAIN DeviceRegisters(d)
    BY <2>2 DEF Over
  <2> QED
    BY <1>3, <2>1, <2>3, <2>4
<1>6. ASSUME NEW k \in DOMAIN registers
      PROVE  \E d \in Enabled :
               \/ \E i \in DOMAIN config.devices[d].calcs : k = d \o config.devices[d].calcs[i].key
               \/ \E n \in DOMAIN config.devices[d].groups :
                  \E i \in Readable(config.devices[d].groups[n]) :
                     /\ k = d \o config.devices[d].groups[n].registers[i].key
                     /\ registers[k].address = Address(config.devices[d].groups[n], i)
  <2>1. PICK d \in Enabled : k \in DOMAIN DeviceRegisters(d) /\ registers[k] = DeviceRegisters(d)[k]
    BY <1>3
  <2>2. PICK groups : /\ DeviceRegisters(d) = Over(CalcRegisters(d), groups)
                      /\ Merged(groups, DOMAIN config.devices[d].groups, <<>>, GroupRegisters(d))
    BY OfDevice, EnabledFinite
  <2>3. CASE k \in DOMAIN CalcRegisters(d)
    BY <2>3 DEF CalcRegisters, CalcKeys
  <2>4. CASE \E n \in DOMAIN config.devices[d].groups :
               /\ k \in DOMAIN GroupRegisters(d)[n]
               /\ DeviceRegisters(d)[k] = GroupRegisters(d)[n][k]
    <3>1. PICK n \in DOMAIN config.devices[d].groups :
               /\ k \in DOMAIN GroupRegisters(d)[n]
               /\ DeviceRegisters(d)[k] = GroupRegisters(d)[n][k]
      BY <2>4
    <3> DEFINE g == config.devices[d].groups[n]
               topics == TopicsOf(HADeviceID(d), g)
    <3>2. GroupRegisters(d)[n] = RegisterMap(g, d, topics)
      BY DEF GroupRegisters
    <3>3. g \in RegisterGroup
      BY EnabledFinite DEF IsFile, IsDevice
    <3> HIDE DEF g, topics
    <3>4. PICK i \in Readable(g) :
             /\ k = d \o g.registers[i].key
             /\ RegisterMap(g, d, topics)[k]
                  = [address |-> Address(g, i), topic |-> topics[g.registers[i].key]]
      BY <3>1, <3>2, <3>3, RegisterMapEntries
    <3>5. registers[k].address = Address(g, i)
      BY <2>1, <3>1, <3>2, <3>4
    <3> QED
      BY <3>4, <3>5 DEF g
  <2>5. CASE k \notin DOMAIN CalcRegisters(d)
    <3>1. k \in DOMAIN groups /\ DeviceRegisters(d)[k] = groups[k]
      BY <2>1, <2>2, <2>5 DEF Over
    <3>2. k \notin DOMAIN <<>>
      OBVIOUS
    <3> QED
      BY <2>2, <2>4, <3>1, <3>2 DEF Merged
  <2> QED
    BY <2>3, <2>5
<1> QED
  BY <1>4, <1>5, <1>6 DEF FlatView

LEMMA ConvertIInv == IInv /\ Convert /\ UNCHANGED ownRegisters => IInv'
<1> SUFFICES ASSUME IInv, Convert, UNCHANGED ownRegisters PROVE IInv'
  OBVIOUS
<1>1. /\ phase = "valid" /\ phase' = "accepted"
      /\ UNCHANGED todo /\ UNCHANGED used /\ UNCHANGED executor /\ UNCHANGED discovered
  BY DEF Convert
<1>2. IsFile(config)
  BY DEF IInv, TypeInv
<1>3. PICK groups, registers :
         /\ config' = [config EXCEPT !.groups = groups, !.registers = registers]
         /\ config.version = "2.1" /\ DOMAIN config.devices # {} /\ DOMAIN config.registers = {}
              => registers \in GetAllRegistersFromDevices
  BY DEF Convert
<1>4. /\ DOMAIN config' = DOMAIN config /\ config'.devices = config.devices
      /\ config'.version = config.version /\ config'.registers = registers
  BY <1>2, <1>3 DEF IsFile
<1>5. TypeInv'
  <2>1. IsFile(config')
    BY <1>2, <1>4, SameDevices
  <2> QED
    BY <1>1, <1>4, <2>1 DEF IInv, TypeInv, Phases, Accepted, Validated
<1>6. DevicesChecked'
  <2>1. UNCHANGED usedSlaveIDs
    BY <1>1 DEF used
  <2> QED
    BY <1>1, <1>4, <2>1 DEF IInv, DevicesChecked, Sound, Validated
<1>7. FlatViewMade'
  <2> SUFFICES ASSUME config.version = "2.1", DOMAIN config.devices # {}, ~ownRegisters
               PROVE  FlatView(config'.devices, config'.registers)
    BY <1>4 DEF FlatViewMade
  <2>1. registers \in GetAllRegistersFromDevices
    BY <1>1, <1>3 DEF IInv, TypeInv, Accepted
  <2> QED
    BY <1>2, <1>4, <2>1, DevicesFlatView
<1>8. Announced'
  BY <1>1 DEF Announced
<1>9. Done = {} /\ Done' = {}
  BY <1>1 DEF Done, Registry
<1> QED
  BY <1>1, <1>5, <1>6, <1>7, <1>8, <1>9, NothingRegistered DEF IInv

LEMMA RegisterStrategiesIInv == IInv /\ RegisterStrategies /\ UNCHANGED ownRegisters => IInv'
<1> SUFFICES ASSUME IInv, RegisterStrategies, UNCHANGED ownRegisters PROVE IInv'
  OBVIOUS
<1>1. /\ phase = "accepted" /\ phase' \in {"not supported", "registering"}
      /\ todo' = Enabled /\ UNCHANGED <<config, used, executor, discovered>>
  BY DEF RegisterStrategies
<1>2. Enabled' = Enabled /\ Enabled \subseteq DOMAIN config.devices
  BY <1>1 DEF Enabled
<1>3. TypeInv'
  BY <1>1, <1>2 DEF IInv, TypeInv, Phases, Accepted, Validated
<1>4. DevicesChecked'
  BY <1>1 DEF IInv, DevicesChecked, Sound, Validated, used
<1>5. FlatViewMade' /\ Announced'
  BY <1>1 DEF IInv, FlatViewMade, Announced, Accepted, Validated
<1>6. Done = {} /\ Done' = {}
  BY <1>1, <1>2 DEF Done, Registry
<1> QED
  BY <1>1, <1>3, <1>4, <1>5, <1>6, NothingRegistered DEF IInv

LEMMA PublishDiscoveryIInv == IInv /\ PublishDiscovery /\ UNCHANGED ownRegisters => IInv'
<1> SUFFICES ASSUME IInv, PublishDiscovery, UNCHANGED ownRegisters PROVE IInv'
  OBVIOUS
<1>1. /\ phase = "registering" /\ todo = {} /\ phase' = "running"
      /\ discovered' = UNION {{<<HADeviceID(d), k>> : k \in SensorKeys(config.devices[d])} : d \in Enabled}
      /\ UNCHANGED <<config, todo, used, executor>>
  BY DEF PublishDiscovery
<1>2. Enabled' = Enabled
  BY <1>1 DEF Enabled
<1>3. TypeInv'
  BY <1>1 DEF IInv, TypeInv, Phases, Accepted, Validated
<1>4. DevicesChecked'
  BY <1>1 DEF IInv, DevicesChecked, Sound, Validated, used
<1>5. FlatViewMade'
  BY <1>1 DEF IInv, FlatViewMade, Accepted, Validated
<1>6. Announced'
  BY <1>1 DEF Announced, HADeviceID, Enabled, SensorKeys, RegisterKeys, KeysOf
<1>7. Done' = Done
  BY <1>1, <1>2 DEF Done, Registry
<1> QED
  BY <1>1, <1>3, <1>4, <1>5, <1>6, <1>7, RegistryKept DEF IInv

LEMMA RegisterDeviceIInv ==
  ASSUME NEW d \in DOMAIN config.devices
  PROVE  IInv /\ RegisterDevice(d) /\ UNCHANGED ownRegisters => IInv'
<1> SUFFICES ASSUME IInv, RegisterDevice(d), UNCHANGED ownRegisters PROVE IInv'
  OBVIOUS
<1> DEFINE device == config.devices[d]
           keys   == {d \o n : n \in EnabledGroups(device)}
           Name(k) == SubSeq(k, Len(d) + 1, Len(k))
<1>1. /\ phase = "registering" /\ d \in todo
      /\ todo' = todo \ {d}
      /\ UNCHANGED <<config, phase, used, discovered>>
  BY DEF RegisterDevice
<1>2. /\ groupStrategies' = Over([k \in keys |-> GroupStrategy(d, Name(k))], groupStrategies)
      /\ calcStrategies' = Over([k \in CalcKeys(d) |-> CalcStrategy(d, k)], calcStrategies)
      /\ groupIntervals' = Over([k \in CalcKeys(d) |-> FastestInterval(device)],
                                Over([k \in keys |-> device.groups[Name(k)].interval],
                                     groupIntervals))
  BY DEF RegisterDevice
<1>3. IsFile(config) /\ todo \subseteq Enabled /\ Enabled' = Enabled
  BY <1>1 DEF IInv, TypeInv, Enabled
<1>4. TypeInv'
  BY <1>1, <1>3 DEF IInv, TypeInv, Phases, Accepted, Validated
<1>5. DevicesChecked'
  BY <1>1 DEF IInv, DevicesChecked, Sound, Validated, used
<1>6. FlatViewMade' /\ Announced'
  BY <1>1 DEF IInv, FlatViewMade, Announced, Accepted, Validated
<1>7. d \in Enabled /\ Done' = Done \cup {d}
  BY <1>1, <1>3 DEF Done, Registry
<1>8. \A n \in EnabledGroups(device) : Name(d \o n) = n
  <2>1. d \in Names /\ EnabledGroups(device) \subseteq Names
    BY <1>3 DEF IsFile, IsDevice, IsMap, EnabledGroups
  <2> QED
    BY <2>1, Joined
<1> HIDE DEF Name
<1>9. /\ \A e, n : GroupStrategy(e, n)' = GroupStrategy(e, n)
      /\ \A e : CalcKeys(e)' = CalcKeys(e)
      /\ \A e, k : CalcStrategy(e, k)' = CalcStrategy(e, k)
      /\ \A e : /\ EnabledGroups(config.devices[e])' = EnabledGroups(config.devices[e])
                /\ FastestInterval(config.devices[e])' = FastestInterval(config.devices[e])
  BY <1>1 DEF GroupStrategy, TopicsOf, RegisterMap, CalcKeys, CalcStrategy, CalcAt,
              EnabledGroups, FastestInterval
<1>10. /\ GroupsRegistered /\ CalcsRegistered /\ IntervalsRegistered
  BY DEF IInv
<1>11. GroupsRegistered'
  <2>1. DOMAIN groupStrategies' = keys \cup DOMAIN groupStrategies
    BY <1>2 DEF Over
  <2>2. ASSUME NEW e \in Done', NEW n \in EnabledGroups(config.devices[e])'
        PROVE  e \o n \in DOMAIN groupStrategies'
    BY <1>7, <1>9, <1>10, <2>1 DEF GroupsRegistered
  <2>3. ASSUME NEW k \in DOMAIN groupStrategies'
        PROVE  \E e \in Done' : \E n \in EnabledGroups(config.devices[e])' :
                 k = e \o n /\ groupStrategies'[k] = GroupStrategy(e, n)'
    <3>1. CASE k \in keys
      <4>1. groupStrategies'[k] = GroupStrategy(d, Name(k))
        BY <1>2, <3>1 DEF Over
      <4> QED
        BY <1>7, <1>8, <1>9, <3>1, <4>1
    <3>2. CASE k \notin keys
      <4>1. k \in DOMAIN groupStrategies /\ groupStrategies'[k] = groupStrategies[k]
        BY <1>2, <2>1, <2>3, <3>2 DEF Over
      <4> QED
        BY <1>7, <1>9, <1>10, <4>1 DEF GroupsRegistered
    <3> QED
      BY <3>1, <3>2
  <2> QED
    BY <2>2, <2>3 DEF GroupsRegistered
<1>12. CalcsRegistered'
  <2>1. DOMAIN calcStrategies' = CalcKeys(d) \cup DOMAIN calcStrategies
    BY <1>2 DEF Over
  <2>2. ASSUME NEW e \in Done' PROVE CalcKeys(e)' \subseteq DOMAIN calcStrategies'
    BY <1>7, <1>9, <1>10, <2>1 DEF CalcsRegistered
  <2>3. ASSUME NEW k \in DOMAIN calcStrategies'
        PROVE  \E e \in Done' : k \in CalcKeys(e)' /\ calcStrategies'[k] = CalcStrategy(e, k)'
    <3>1. CASE k \in CalcKeys(d)
      BY <1>2, <1>7, <1>9, <3>1 DEF Over
    <3>2. CASE k \notin CalcKeys(d)
      <4>1. k \in DOMAIN calcStrategies /\ calcStrategies'[k] = calcStrategies[k]
        BY <1>2, <2>1, <2>3, <3>2 DEF Over
      <4> QED
        BY <1>7, <1>9, <1>10, <4>1 DEF CalcsRegistered
    <3> QED
      BY <3>1, <3>2
  <2> QED
    BY <2>2, <2>3 DEF CalcsRegistered
<1>13. IntervalsRegistered'
  <2> DEFINE mine == Over([k \in keys |-> device.groups[Name(k)].interval], groupIntervals)
  <2>1. DOMAIN mine = keys \cup DOMAIN groupIntervals
    BY DEF Over
  <2>2. /\ DOMAIN groupIntervals' = CalcKeys(d) \cup DOMAIN mine
        /\ \A k \in CalcKeys(d) : groupIntervals'[k] = FastestInterval(device)
        /\ \A k \in DOMAIN mine \ CalcKeys(d) : groupIntervals'[k] = mine[k]
    BY <1>2 DEF Over
  <2>3. /\ DOMAIN groupStrategies' = keys \cup DOMAIN groupStrategies
        /\ DOMAIN calcStrategies' = CalcKeys(d) \cup DOMAIN calcStrategies
    BY <1>2 DEF Over
  <2>4. DOMAIN groupIntervals' = DOMAIN groupStrategies' \cup DOMAIN calcStrategies'
    <3> HIDE DEF mine, keys
    <3> QED
      BY <1>10, <2>1, <2>2, <2>3 DEF IntervalsRegistered
  <2>5. ASSUME NEW k \in DOMAIN groupIntervals'
        PROVE  \E e \in Done' :
                 \/ k \in CalcKeys(e)' /\ groupIntervals'[k] = FastestInterval(config.devices[e])'
                 \/ \E n \in EnabledGroups(config.devices[e])' :
                      k = e \o n /\ groupIntervals'[k] = config'.devices[e].groups[n].interval
    <3>1. CASE k \in CalcKeys(d)
      BY <1>7, <1>9, <2>2, <3>1
    <3>2. CASE k \notin CalcKeys(d) /\ k \in keys
      <4>1. groupIntervals'[k] = device.groups[Name(k)].interval
        BY <2>1, <2>2, <3>2 DEF Over
      <4>2. config' = config
        BY <1>1
      <4> QED
        BY <1>7, <1>8, <1>9, <3>2, <4>1, <4>2
    <3>3. CASE k \notin CalcKeys(d) /\ k \notin keys
      <4>1. k \in DOMAIN groupIntervals /\ groupIntervals'[k] = groupIntervals[k]
        BY <2>1, <2>2, <2>5, <3>3 DEF Over
      <4>2. PICK e \in Done :
              \/ k \in CalcKeys(e) /\ groupIntervals[k] = FastestInterval(config.devices[e])
              \/ \E n \in EnabledGroups(config.devices[e]) :
                   k = e \o n /\ groupIntervals[k] = config.devices[e].groups[n].interval
        BY <1>10, <4>1 DEF IntervalsRegistered
      <4>3. config' = config
        BY <1>1
      <4> QED
        BY <1>7, <1>9, <4>1, <4>2, <4>3
    <3> QED
      BY <3>1, <3>2, <3>3
  <2> QED
    BY <2>4, <2>5 DEF IntervalsRegistered
<1> QED
  BY <1>4, <1>5, <1>6, <1>11, <1>12, <1>13 DEF IInv

LEMMA StutterIInv == IInv /\ UNCHANGED vars => IInv'
<1> SUFFICES ASSUME IInv, UNCHANGED vars PROVE IInv'
  OBVIOUS
<1>1. Enabled' = Enabled
  BY DEF Enabled, vars
<1>2. TypeInv' /\ DevicesChecked' /\ FlatViewMade'
  BY <1>1 DEF IInv, TypeInv, DevicesChecked, FlatViewMade, Sound, vars
<1>3. Announced'
  <2>1. \A d : HADeviceID(d)' = HADeviceID(d)
    BY DEF HADeviceID, vars
  <2> QED
    BY <1>1, <2>1 DEF IInv, Announced, vars
<1>4. Done' = Done
  BY <1>1 DEF Done, vars
<1> QED
  BY <1>2, <1>3, <1>4, RegistryKept DEF IInv, vars, executor

LEMMA NextIInv == IInv /\ [Next]_vars => IInv'
BY LoadIInv, ValidateIInv, ValidateDeviceIInv, ConvertIInv, RegisterStrategiesIInv,
   RegisterDeviceIInv, PublishDiscoveryIInv, StutterIInv DEF Next, history

(* The inductive invariant: what the validation and the registration have   *)
(* looked at so far (LoadConfig, RegisterFromDevices).                      *)
THEOREM Invariance == Spec => []IInv
BY InitIInv, NextIInv, PTL DEF Spec

-----------------------------------------------------------------------------
(* What the running bridge has registered *)

LEMMA AtMostOne ==
  ASSUME NEW S, IsFiniteSet(S), ~(Cardinality(S) > 1), NEW a \in S, NEW b \in S
  PROVE  a = b
<1> SUFFICES ASSUME a # b PROVE FALSE
  OBVIOUS
<1>1. IsFiniteSet({a}) /\ Cardinality({a}) = 1
  BY FS_Singleton
<1>2. IsFiniteSet({a} \cup {b}) /\ Cardinality({a} \cup {b}) = 2
  <2>1. Cardinality({a} \cup {b}) = Cardinality({a}) + 1 /\ IsFiniteSet({a} \cup {b})
    BY <1>1, FS_AddElement
  <2> QED
    BY <1>1, <2>1
<1>3. Cardinality({a} \cup {b}) <= Cardinality(S) /\ Cardinality(S) \in Nat
  BY FS_Subset, FS_CardinalityType
<1> QED
  BY <1>2, <1>3

LEMMA InSeq ==
  ASSUME NEW S, NEW seq \in Seq(S), NEW i \in DOMAIN seq
  PROVE  seq[i] \in S
OBVIOUS

LEMMA NamesOfDevice ==
  ASSUME IsFile(config), NEW d \in Enabled
  PROVE  /\ d \in Names /\ d \in DOMAIN config.devices /\ IsDevice(config.devices[d])
         /\ DOMAIN config.devices[d].groups \subseteq Names
         /\ SensorKeys(config.devices[d]) \subseteq Names
<1> DEFINE device == config.devices[d]
<1>1. d \in Names /\ d \in DOMAIN config.devices /\ IsDevice(device)
  BY EnabledFinite DEF IsFile
<1> HIDE DEF device
<1>2. DOMAIN device.groups \subseteq Names
  BY <1>1 DEF IsDevice, IsMap
<1>3. ASSUME NEW n \in DOMAIN device.groups PROVE KeysOf(device.groups[n]) \subseteq Names
  <2>1. device.groups[n].registers \in Seq([key : Names, offset : Int])
    BY <1>1 DEF IsDevice, RegisterGroup
  <2>2. \A i \in DOMAIN device.groups[n].registers :
          device.groups[n].registers[i] \in [key : Names, offset : Int]
    BY <2>1, InSeq
  <2> QED
    BY <2>2 DEF KeysOf
<1>4. \A i \in DOMAIN device.calcs : device.calcs[i].key \in Names
  <2>1. device.calcs \in Seq([key : Names, variables : SUBSET Names])
    BY <1>1 DEF IsDevice
  <2>2. \A i \in DOMAIN device.calcs : device.calcs[i] \in [key : Names, variables : SUBSET Names]
    BY <2>1, InSeq
  <2> QED
    BY <2>2
<1>5. SensorKeys(device) \subseteq Names
  BY <1>3, <1>4 DEF SensorKeys, RegisterKeys
<1> QED
  BY <1>1, <1>2, <1>5 DEF device

LEMMA Uncontested ==
  ASSUME IsFile(config), NEW k, ~Contested(k), NEW d \in Enabled, NEW e \in Enabled
  PROVE  /\ \A n \in EnabledGroups(config.devices[d]), m \in EnabledGroups(config.devices[e]) :
              k = d \o n /\ k = e \o m => d = e /\ n = m
         /\ \A n \in EnabledGroups(config.devices[d]) : k = d \o n => k \notin CalcKeys(e)
         /\ k \in CalcKeys(d) /\ k \in CalcKeys(e) => d = e
<1> DEFINE Of(f) == IF f[2] = "group" THEN {f[1] \o n : n \in EnabledGroups(config.devices[f[1]])}
                    ELSE CalcKeys(f[1])
           kinds == {"group", "calc"}
           entries == {f \in Enabled \X kinds : k \in Of(f)}
<1>1. ~(Cardinality(entries) > 1)
  BY DEF Contested
<1>2. IsFiniteSet(Enabled)
  BY EnabledFinite
<1>3. IsFiniteSet(entries)
  <2>1. IsFiniteSet(kinds)
    <3>1. kinds = {"group"} \cup {"calc"}
      OBVIOUS
    <3>2. IsFiniteSet({"group"})
      BY FS_Singleton
    <3> HIDE DEF kinds
    <3> QED
      BY <3>1, <3>2, FS_AddElement
  <2>2. IsFiniteSet(Enabled \X kinds)
    BY <1>2, <2>1, FS_Product
  <2>3. entries \in SUBSET (Enabled \X kinds)
    OBVIOUS
  <2> HIDE DEF entries, kinds
  <2> QED
    BY <2>2, <2>3, FS_Subset
<1>4. \A f, g \in entries : f = g
  <2> HIDE DEF entries
  <2> QED
    BY <1>1, <1>3, AtMostOne
<1>6. ASSUME NEW c \in Enabled, NEW n \in EnabledGroups(config.devices[c]), k = c \o n
      PROVE  <<c, "group">> \in entries
  BY <1>6
<1>7. ASSUME NEW c \in Enabled, k \in CalcKeys(c)
      PROVE  <<c, "calc">> \in entries
  BY <1>7
<1> HIDE DEF entries
<1>9. ASSUME NEW n \in EnabledGroups(config.devices[d]), NEW m \in EnabledGroups(config.devices[e]),
             k = d \o n, k = e \o m
      PROVE  d = e /\ n = m
  <2>1. <<d, "group">> = <<e, "group">>
    BY <1>4, <1>6, <1>9
  <2>2. n \in Names /\ m \in Names /\ d \in Names
    BY NamesOfDevice DEF EnabledGroups
  <2> QED
    BY <1>9, <2>1, <2>2, SameJoined
<1>10. ASSUME NEW n \in EnabledGroups(config.devices[d]), k = d \o n, k \in CalcKeys(e)
       PROVE  FALSE
  <2>1. <<d, "group">> = <<e, "calc">>
    BY <1>4, <1>6, <1>7, <1>10
  <2> QED
    BY <2>1
<1>11. ASSUME k \in CalcKeys(d), k \in CalcKeys(e) PROVE d = e
  <2>1. <<d, "calc">> = <<e, "calc">>
    BY <1>4, <1>7, <1>11
  <2> QED
    BY <2>1
<1> QED
  BY <1>9, <1>10, <1>11

LEMMA GroupUncontested ==
  ASSUME IsFile(config), NEW k, ~Contested(k), NEW d \in Enabled, NEW e \in Enabled,
         NEW n \in EnabledGroups(config.devices[d]), NEW m \in EnabledGroups(config.devices[e]),
         Joins(k, d, n), Joins(k, e, m)
  PROVE  d = e /\ n = m
<1>1. \A x \in EnabledGroups(config.devices[d]), y \in EnabledGroups(config.devices[e]) :
              k = d \o x /\ k = e \o y => d = e /\ x = y
  BY ONLY IsFile(config), ~Contested(k), d \in Enabled, e \in Enabled, Uncontested
<1> QED
  BY <1>1 DEF Joins

LEMMA GroupRuns ==
  ASSUME IInv, phase = "running", NEW d \in Enabled, NEW n \in EnabledGroups(config.devices[d]),
         ~Contested(d \o n)
  PROVE  /\ d \o n \in DOMAIN groupStrategies
         /\ groupStrategies[d \o n] = GroupStrategy(d, n)
         /\ d \o n \in DOMAIN groupIntervals
         /\ groupIntervals[d \o n] = config.devices[d].groups[n].interval
<1> DEFINE k == d \o n
<1>1. Done = Enabled /\ IsFile(config)
  BY DEF Done, Registry, IInv, TypeInv
<1>2. k \in DOMAIN groupStrategies
  BY <1>1 DEF IInv, GroupsRegistered
<1>3. PICK e \in Enabled : \E m \in EnabledGroups(config.devices[e]) :
         k = e \o m /\ groupStrategies[k] = GroupStrategy(e, m)
  BY <1>1, <1>2 DEF IInv, GroupsRegistered
<1>4. k \in DOMAIN groupIntervals
  BY <1>2 DEF IInv, IntervalsRegistered
<1>5. PICK f \in Enabled :
         \/ k \in CalcKeys(f) /\ groupIntervals[k] = FastestInterval(config.devices[f])
         \/ \E m \in EnabledGroups(config.devices[f]) :
               k = f \o m /\ groupIntervals[k] = config.devices[f].groups[m].interval
  BY <1>1, <1>4 DEF IInv, IntervalsRegistered
<1> HIDE DEF k
<1>6. k = d \o n
  BY DEF k
<1>7. groupStrategies[k] = GroupStrategy(d, n)
  <2>1. PICK m \in EnabledGroups(config.devices[e]) :
           k = e \o m /\ groupStrategies[k] = GroupStrategy(e, m)
    BY <1>3
  <2>2. ~Contested(k) /\ Joins(k, d, n) /\ Joins(k, e, m)
    BY <1>6, <2>1 DEF Joins
  <2>3. d = e /\ n = m
    BY <1>1, <2>2, GroupUncontested
  <2> QED
    BY <2>1, <2>3
<1>8. k \notin CalcKeys(f)
  BY <1>1, <1>6, Uncontested
<1>9. groupIntervals[k] = config.devices[d].groups[n].interval
  <2>1. PICK m \in EnabledGroups(config.devices[f]) :
           k = f \o m /\ groupIntervals[k] = config.devices[f].groups[m].interval
    BY <1>5, <1>8
  <2>2. ~Contested(k) /\ Joins(k, d, n) /\ Joins(k, f, m)
    BY <1>6, <2>1 DEF Joins
  <2>3. d = f /\ n = m
    BY <1>1, <2>2, GroupUncontested
  <2> QED
    BY <2>1, <2>3
<1> QED
  BY <1>2, <1>4, <1>6, <1>7, <1>9

LEMMA CalcRuns ==
  ASSUME IInv, phase = "running", NEW d \in Enabled, NEW k \in CalcKeys(d), ~Contested(k)
  PROVE  /\ k \in DOMAIN calcStrategies /\ k \notin DOMAIN groupStrategies
         /\ calcStrategies[k] = CalcStrategy(d, k)
         /\ groupIntervals[k] = FastestInterval(config.devices[d])
<1>1. Done = Enabled /\ IsFile(config)
  BY DEF Done, Registry, IInv, TypeInv
<1>2. k \in DOMAIN calcStrategies
  BY <1>1 DEF IInv, CalcsRegistered
<1>3. PICK e \in Enabled : k \in CalcKeys(e) /\ calcStrategies[k] = CalcStrategy(e, k)
  BY <1>1, <1>2 DEF IInv, CalcsRegistered
<1>4. e = d
  BY <1>1, <1>3, Uncontested
<1>5. \A f \in Enabled : \A m \in EnabledGroups(config.devices[f]) : k # f \o m
  BY <1>1, Uncontested
<1>6. k \notin DOMAIN groupStrategies
  BY <1>1, <1>5 DEF IInv, GroupsRegistered
<1>7. PICK f \in Enabled :
         \/ k \in CalcKeys(f) /\ groupIntervals[k] = FastestInterval(config.devices[f])
         \/ \E m \in EnabledGroups(config.devices[f]) :
               k = f \o m /\ groupIntervals[k] = config.devices[f].groups[m].interval
  BY <1>1, <1>2 DEF IInv, IntervalsRegistered
<1>8. groupIntervals[k] = FastestInterval(config.devices[d])
  BY <1>1, <1>5, <1>7, Uncontested
<1> QED
  BY <1>2, <1>3, <1>4, <1>6, <1>8

LEMMA SensorUncontested ==
  ASSUME IsFile(config), NEW k, ~Contested(k), NEW d \in Enabled, NEW e \in Enabled,
         NEW x \in SensorKeys(config.devices[d]), NEW y \in SensorKeys(config.devices[e]),
         Joins(k, d, x), Joins(k, e, y)
  PROVE  d = e /\ x = y
<1> DEFINE sensors == {c \in Enabled : k \in {c \o key : key \in SensorKeys(config.devices[c])}}
<1>1. ~(Cardinality(sensors) > 1)
  BY DEF Contested
<1>2. sensors \in SUBSET Enabled /\ d \in sensors /\ e \in sensors
  BY DEF Joins
<1> HIDE DEF sensors
<1>3. IsFiniteSet(sensors)
  BY <1>2, EnabledFinite, FS_Subset
<1>4. d = e
  BY <1>1, <1>2, <1>3, AtMostOne
<1>5. x \in Names /\ y \in Names /\ d \in Names
  BY NamesOfDevice
<1> QED
  BY <1>4, <1>5, SameJoined DEF Joins

LEMMA Checked ==
  ASSUME IInv, phase = "running", config.version = "2.1", NEW d \in Enabled
  PROVE  /\ IsFile(config) /\ d \in DOMAIN config.devices /\ IsDevice(config.devices[d])
         /\ Sound(d)
BY NamesOfDevice DEF IInv, TypeInv, DevicesChecked, Validated

(* Registers of a device that passed validation                             *)
LEMMA ValidRegister ==
  ASSUME NEW device, IsDevice(device), ValidDevice(device), NEW n \in DOMAIN device.groups
  PROVE  LET g == device.groups[n] IN
         /\ g \in RegisterGroup
         /\ g.interval \in 1..MaxPollInterval
         /\ \A i \in DOMAIN g.registers :
              /\ g.registers[i].offset \in Nat /\ g.registers[i].offset + 4 <= 2 * g.count
              /\ g.registers[i].key \in RegisterKeys(device)
<1> DEFINE g == device.groups[n]
           heir == Inherit(device).groups[n]
<1>1. g \in RegisterGroup
  BY DEF IsDevice
<1>2. ValidGroup(heir)
  BY DEF ValidDevice
<1>3. heir = IF g.slave = 0 THEN [g EXCEPT !.slave = device.slave] ELSE g
  BY DEF Inherit, IsDevice
<1> HIDE DEF heir
<1>4. heir.registers = g.registers /\ heir.count = g.count /\ heir.interval = g.interval
  BY <1>1, <1>3 DEF RegisterGroup
<1>5. ASSUME NEW i \in DOMAIN g.registers
      PROVE  /\ g.registers[i].offset \in Nat /\ g.registers[i].offset + 4 <= 2 * g.count
             /\ g.registers[i].key \in RegisterKeys(device)
  <2>1. g.registers \in Seq([key : Names, offset : Int])
    BY <1>1 DEF RegisterGroup
  <2>2. g.registers[i].offset \in Int
    <3>1. g.registers[i] \in [key : Names, offset : Int]
      BY <2>1, InSeq
    <3> QED
      BY <3>1
  <2>3. g.registers[i].offset >= 0 /\ g.registers[i].offset + 4 <= 2 * g.count
    BY <1>2, <1>4 DEF ValidGroup
  <2>4. g.registers[i].key \in RegisterKeys(device)
    BY DEF RegisterKeys, KeysOf
  <2> QED
    BY <2>2, <2>3, <2>4
<1>6. g.interval \in 1..MaxPollInterval
  BY <1>2, <1>4 DEF ValidGroup
<1> QED
  BY <1>1, <1>5, <1>6

LEMMA AddressInside ==
  ASSUME NEW g \in RegisterGroup, NEW i, g.registers[i].offset \in Nat,
         g.registers[i].offset + 4 <= 2 * g.count
  PROVE  Address(g, i) \in g.start .. g.start + g.count - 2
<1>1. g.start \in Nat /\ g.count \in Nat
  BY DEF RegisterGroup
<1> QED
  BY <1>1 DEF Address

(* A register key of a device says which register of which group it is.     *)
LEMMA OneRegister ==
  ASSUME NEW device, UniqueKeys(device),
         NEW m \in DOMAIN device.groups, NEW i \in DOMAIN device.groups[m].registers,
         NEW n \in DOMAIN device.groups, NEW j \in DOMAIN device.groups[n].registers,
         device.groups[m].registers[i].key = device.groups[n].registers[j].key
  PROVE  m = n /\ i = j
BY DEF UniqueKeys

LEMMA RegisterIsSensor ==
  ASSUME NEW device, NEW n \in DOMAIN device.groups, NEW i \in DOMAIN device.groups[n].registers
  PROVE  /\ device.groups[n].registers[i].key \in RegisterKeys(device)
         /\ device.groups[n].registers[i].key \in SensorKeys(device)
<1>1. device.groups[n].registers[i].key \in KeysOf(device.groups[n])
  BY DEF KeysOf
<1> QED
  BY <1>1 DEF RegisterKeys, SensorKeys

LEMMA CalcIsSensor ==
  ASSUME NEW device, NEW i \in DOMAIN device.calcs
  PROVE  device.calcs[i].key \in SensorKeys(device)
BY DEF SensorKeys

(* The registers a group's strategy reads                                   *)
LEMMA StrategyRegisters ==
  ASSUME IsFile(config), NEW d \in Enabled, NEW n \in DOMAIN config.devices[d].groups,
         NEW k \in DOMAIN GroupStrategy(d, n).registers
  PROVE  \E i \in Readable(config.devices[d].groups[n]) :
           /\ i \in DOMAIN config.devices[d].groups[n].registers
           /\ k = d \o config.devices[d].groups[n].registers[i].key
           /\ GroupStrategy(d, n).registers[k].address = Address(config.devices[d].groups[n], i)
           /\ GroupStrategy(d, n).registers[k].topic
                = <<d, config.devices[d].groups[n].registers[i].key>>
<1> DEFINE g == config.devices[d].groups[n]
           topics == TopicsOf(d, g)
<1>1. g \in RegisterGroup
  BY NamesOfDevice DEF IsDevice
<1>2. GroupStrategy(d, n).registers = RegisterMap(g, d, topics)
  BY DEF GroupStrategy
<1> HIDE DEF topics, g
<1>3. PICK i \in Readable(g) :
         /\ k = d \o g.registers[i].key
         /\ RegisterMap(g, d, topics)[k]
              = [address |-> Address(g, i), topic |-> topics[g.registers[i].key]]
  BY <1>1, <1>2, RegisterMapEntries
<1>4. i \in DOMAIN g.registers
  BY DEF Readable
<1>5. topics[g.registers[i].key] = <<d, g.registers[i].key>>
  BY <1>4 DEF topics, TopicsOf, KeysOf
<1>6. /\ GroupStrategy(d, n).registers[k].address = Address(g, i)
      /\ GroupStrategy(d, n).registers[k].topic = <<d, g.registers[i].key>>
  BY <1>2, <1>3, <1>5
<1> QED
  BY <1>3, <1>4, <1>6 DEF g

LEMMA FastestOfAll ==
  ASSUME NEW device, IsDevice(device), ValidDevice(device), NEW n \in DOMAIN device.groups
  PROVE  FastestInterval(device) <= device.groups[n].interval
<1> DEFINE S == {DefaultCalcInterval} \cup {device.groups[m].interval : m \in DOMAIN device.groups}
<1>1. \A m \in DOMAIN device.groups : device.groups[m].interval \in 1..MaxPollInterval
  BY ValidRegister
<1>2. S \subseteq Nat /\ S # {} /\ device.groups[n].interval \in S
  BY <1>1, FilesAssumption
<1>3. FastestInterval(device) = Min(S)
  BY DEF FastestInterval
<1> HIDE DEF S
<1> QED
  BY <1>2, <1>3, LeastNumber

-----------------------------------------------------------------------------
(* PolledAsConfigured *)

(* The flat view and the strategies agree on what is a register's address.  *)
LEMMA SameAddress ==
  ASSUME IInv, phase = "running", config.version = "2.1", ~ownRegisters, NEW d \in Enabled,
         NEW n \in DOMAIN config.devices[d].groups, NEW k \in DOMAIN GroupStrategy(d, n).registers
  PROVE  /\ k \in DOMAIN config.registers
         /\ Contested(k) \/ config.registers[k].address = GroupStrategy(d, n).registers[k].address
<1>1. /\ IsFile(config) /\ d \in DOMAIN config.devices
      /\ IsDevice(config.devices[d]) /\ ValidDevice(config.devices[d])
  BY Checked DEF Sound
<1>2. FlatView(config.devices, config.registers)
  BY <1>1 DEF IInv, FlatViewMade, Accepted, Validated
<1>3. Enabled = {c \in DOMAIN config.devices : config.devices[c].enabled}
  BY DEF Enabled
<1>4. PICK i \in Readable(config.devices[d].groups[n]) :
        /\ i \in DOMAIN config.devices[d].groups[n].registers
        /\ k = d \o config.devices[d].groups[n].registers[i].key
        /\ GroupStrategy(d, n).registers[k].address = Address(config.devices[d].groups[n], i)
  BY <1>1, StrategyRegisters
<1>5. k \in DOMAIN config.registers
  BY <1>2, <1>3, <1>4 DEF FlatView
<1>6. ASSUME ~Contested(k)
      PROVE  config.registers[k].address = Address(config.devices[d].groups[n], i)
  <2> DEFINE key == config.devices[d].groups[n].registers[i].key
  <2>1. PICK e \in Enabled :
          \/ \E j \in DOMAIN config.devices[e].calcs : k = e \o config.devices[e].calcs[j].key
          \/ \E m \in DOMAIN config.devices[e].groups :
             \E j \in Readable(config.devices[e].groups[m]) :
                /\ k = e \o config.devices[e].groups[m].registers[j].key
                /\ config.registers[k].address = Address(config.devices[e].groups[m], j)
    BY <1>2, <1>3, <1>5 DEF FlatView
  <2>2. key \in RegisterKeys(config.devices[d]) /\ key \in SensorKeys(config.devices[d])
    BY <1>4, RegisterIsSensor
  <2>3. UniqueKeys(config.devices[d])
    BY <1>1 DEF ValidDevice
  <2> HIDE DEF key
  <2>4. k = d \o key
    BY <1>4 DEF key
  <2>5. ASSUME NEW j \in DOMAIN config.devices[e].calcs, k = e \o config.devices[e].calcs[j].key
        PROVE  FALSE
    <3> DEFINE other == config.devices[e].calcs[j].key
    <3>1. other \in SensorKeys(config.devices[e])
      BY CalcIsSensor
    <3> HIDE DEF other
    <3>2. k = e \o other
      BY <2>5 DEF other
    <3>3. d = e /\ key = other
      <4>1. Joins(k, d, key) /\ Joins(k, e, other)
        BY <2>4, <3>2 DEF Joins
      <4> QED
        BY <1>1, <1>6, <2>2, <3>1, <4>1, SensorUncontested
    <3> QED
      BY <2>2, <2>3, <3>3 DEF UniqueKeys, other
  <2>6. PICK m \in DOMAIN config.devices[e].groups :
             \E j \in Readable(config.devices[e].groups[m]) :
                /\ k = e \o config.devices[e].groups[m].registers[j].key
                /\ config.registers[k].address = Address(config.devices[e].groups[m], j)
    BY <2>1, <2>5
  <2>7. PICK j \in Readable(config.devices[e].groups[m]) :
                /\ k = e \o config.devices[e].groups[m].registers[j].key
                /\ config.registers[k].address = Address(config.devices[e].groups[m], j)
    BY <2>6
  <2>8. j \in DOMAIN config.devices[e].groups[m].registers
    BY DEF Readable
  <2> DEFINE other == config.devices[e].groups[m].registers[j].key
  <2>9. other \in SensorKeys(config.devices[e]) /\ k = e \o other
    BY <2>7, <2>8, RegisterIsSensor
  <2> HIDE DEF other
  <2>10. d = e /\ key = other
    <3>1. Joins(k, d, key) /\ Joins(k, e, other)
      BY <2>4, <2>9 DEF Joins
    <3> QED
      BY <1>1, <1>6, <2>2, <2>9, <3>1, SensorUncontested
  <2>11. m = n /\ j = i
    <3> DEFINE groups == config.devices[d].groups
    <3>1. m \in DOMAIN groups /\ j \in DOMAIN groups[m].registers
      BY <2>8, <2>10
    <3>2. i \in DOMAIN groups[n].registers
      BY <1>4
    <3>3. groups[m].registers[j].key = groups[n].registers[i].key
      BY <2>10 DEF key, other
    <3> QED
      BY <2>3, <3>1, <3>2, <3>3, OneRegister
  <2> QED
    BY <2>7, <2>10, <2>11
<1> QED
  BY <1>4, <1>5, <1>6

LEMMA RunningAsConfigured == IInv => PolledAsConfigured
<1> SUFFICES ASSUME IInv, phase = "running", config.version = "2.1", NEW d \in Enabled
             PROVE  /\ \A n \in EnabledGroups(config.devices[d]) : ~Contested(d \o n) =>
                         LET g == config.devices[d].groups[n]  s == groupStrategies[d \o n] IN
                         /\ groupIntervals[d \o n] = g.interval
                         /\ s.slave \in usedSlaveIDs
                         /\ (s.slave = g.slave \/ g.slave # config.devices[d].slave)
                         /\ \A k \in DOMAIN s.registers :
                              /\ s.registers[k].address \in s.start .. s.start + s.count - 2
                              /\ ~ownRegisters =>
                                   /\ k \in DOMAIN config.registers
                                   /\ \/ Contested(k)
                                      \/ config.registers[k].address = s.registers[k].address
                    /\ \A k \in CalcKeys(d) : ~Contested(k) =>
                         /\ k \in DOMAIN calcStrategies /\ k \notin DOMAIN groupStrategies
                         /\ \A n \in EnabledGroups(config.devices[d]) :
                              Contested(d \o n) \/ groupIntervals[k] <= groupIntervals[d \o n]
  BY DEF PolledAsConfigured
<1> DEFINE device == config.devices[d]
<1>1. IsFile(config) /\ IsDevice(device) /\ ValidDevice(device) /\ device.slave \in usedSlaveIDs
  BY Checked DEF Sound
<1>2. EnabledGroups(device) \subseteq DOMAIN device.groups
  BY DEF EnabledGroups
<1>3. ASSUME NEW n \in EnabledGroups(device), ~Contested(d \o n)
      PROVE  LET g == device.groups[n]  s == groupStrategies[d \o n] IN
             /\ groupIntervals[d \o n] = g.interval
             /\ s.slave = device.slave
             /\ \A k \in DOMAIN s.registers :
                  /\ s.registers[k].address \in s.start .. s.start + s.count - 2
                  /\ ~ownRegisters =>
                       /\ k \in DOMAIN config.registers
                       /\ Contested(k) \/ config.registers[k].address = s.registers[k].address
  <2> DEFINE g == device.groups[n]
             s == GroupStrategy(d, n)
  <2>1. groupStrategies[d \o n] = s /\ groupIntervals[d \o n] = g.interval
    BY <1>3, GroupRuns
  <2>2. s.slave = device.slave /\ s.start = g.start /\ s.count = g.count
    BY DEF GroupStrategy
  <2>3. ASSUME NEW k \in DOMAIN s.registers
        PROVE  /\ s.registers[k].address \in s.start .. s.start + s.count - 2
               /\ ~ownRegisters =>
                    /\ k \in DOMAIN config.registers
                    /\ Contested(k) \/ config.registers[k].address = s.registers[k].address
    <3>1. PICK i \in Readable(g) :
             i \in DOMAIN g.registers /\ s.registers[k].address = Address(g, i)
      BY <1>1, <1>2, StrategyRegisters
    <3>2. g \in RegisterGroup /\ g.registers[i].offset \in Nat
            /\ g.registers[i].offset + 4 <= 2 * g.count
      BY <1>1, <1>2, <3>1, ValidRegister
    <3>3. Address(g, i) \in g.start .. g.start + g.count - 2
      BY <3>2, AddressInside
    <3>4. ~ownRegisters =>
            /\ k \in DOMAIN config.registers
            /\ Contested(k) \/ config.registers[k].address = s.registers[k].address
      BY <1>2, SameAddress
    <3> QED
      BY <2>2, <3>1, <3>3, <3>4
  <2> HIDE DEF s, g
  <2> QED
    BY <2>1, <2>2, <2>3 DEF g
<1>4. ASSUME NEW k \in CalcKeys(d), ~Contested(k)
      PROVE  /\ k \in DOMAIN calcStrategies /\ k \notin DOMAIN groupStrategies
             /\ \A n \in EnabledGroups(device) :
                  Contested(d \o n) \/ groupIntervals[k] <= groupIntervals[d \o n]
  <2>1. /\ k \in DOMAIN calcStrategies /\ k \notin DOMAIN groupStrategies
        /\ groupIntervals[k] = FastestInterval(device)
    BY <1>4, CalcRuns
  <2>2. ASSUME NEW n \in EnabledGroups(device), ~Contested(d \o n)
        PROVE  groupIntervals[k] <= groupIntervals[d \o n]
    <3>1. groupIntervals[d \o n] = device.groups[n].interval
      BY <2>2, GroupRuns
    <3>2. FastestInterval(device) <= device.groups[n].interval
      BY <1>1, <1>2, FastestOfAll
    <3> QED
      BY <2>1, <3>1, <3>2
  <2> QED
    BY <2>1, <2>2
<1> QED
  BY <1>1, <1>3, <1>4

(* The running bridge polls what its configuration says, for any file:      *)
(* intervals, slaves, addresses, and how often values are calculated        *)
(* (RegisterFromDevices).                                                   *)
THEOREM RunsAsConfigured == Spec => []PolledAsConfigured
BY Invariance, RunningAsConfigured, PTL

-----------------------------------------------------------------------------
(* InputsAvailable *)

LEMMA WriterOfKey ==
  ASSUME IInv, phase = "running", config.version = "2.1", NEW d \in Enabled,
         NEW v \in SensorKeys(config.devices[d]), NEW k, Joins(k, d, v), ~Contested(k),
         NEW s \in Strategies, k \in DOMAIN s.registers
  PROVE  \E n \in EnabledGroups(config.devices[d]) :
           /\ s = GroupStrategy(d, n)
           /\ \E i \in DOMAIN config.devices[d].groups[n].registers :
                config.devices[d].groups[n].registers[i].key = v
<1>1. Done = Enabled /\ IsFile(config)
  BY DEF Done, Registry, IInv, TypeInv
<1>2. PICK e \in Enabled : \E n \in EnabledGroups(config.devices[e]) : s = GroupStrategy(e, n)
  BY <1>1 DEF IInv, GroupsRegistered, Strategies
<1>3. PICK n \in EnabledGroups(config.devices[e]) : s = GroupStrategy(e, n)
  BY <1>2
<1>4. n \in DOMAIN config.devices[e].groups
  BY DEF EnabledGroups
<1>5. PICK i \in DOMAIN config.devices[e].groups[n].registers :
         k = e \o config.devices[e].groups[n].registers[i].key
  BY <1>1, <1>3, <1>4, StrategyRegisters
<1> DEFINE key == config.devices[e].groups[n].registers[i].key
<1>6. key \in SensorKeys(config.devices[e])
  BY <1>4, RegisterIsSensor
<1>7. Joins(k, e, key)
  BY <1>5 DEF Joins
<1> HIDE DEF key
<1>8. d = e /\ v = key
  BY <1>1, <1>6, <1>7, SensorUncontested
<1> QED
  BY <1>3, <1>8 DEF key

LEMMA CalcOfKey ==
  ASSUME IInv, phase = "running", NEW d \in Enabled,
         NEW v \in SensorKeys(config.devices[d]), NEW k, Joins(k, d, v), ~Contested(k),
         k \in DOMAIN calcStrategies
  PROVE  \E j \in DOMAIN config.devices[d].calcs : config.devices[d].calcs[j].key = v
<1>1. Done = Enabled /\ IsFile(config)
  BY DEF Done, Registry, IInv, TypeInv
<1>2. PICK e \in Enabled : k \in CalcKeys(e)
  BY <1>1 DEF IInv, CalcsRegistered
<1>3. PICK j \in DOMAIN config.devices[e].calcs : k = e \o config.devices[e].calcs[j].key
  BY <1>2 DEF CalcKeys
<1> DEFINE key == config.devices[e].calcs[j].key
<1>4. key \in SensorKeys(config.devices[e])
  BY CalcIsSensor
<1>5. Joins(k, e, key)
  BY <1>3 DEF Joins
<1> HIDE DEF key
<1>6. d = e /\ v = key
  BY <1>1, <1>4, <1>5, SensorUncontested
<1> QED
  BY <1>6 DEF key

(* What is counted in and not left out is read.                             *)
LEMMA ReadIfCounted ==
  ASSUME NEW d, NEW n \in DOMAIN config.devices[d].groups,
         NEW i \in DOMAIN config.devices[d].groups[n].registers,
         config.devices[d].groups[n].registers[i].key \notin Unread(d)
  PROVE  /\ n \in EnabledGroups(config.devices[d]) /\ ~Contested(d \o n)
         /\ i \in Readable(config.devices[d].groups[n])
<1> DEFINE g == config.devices[d].groups[n]
           names == DOMAIN config.devices[d].groups
           left(m) == LET h == config.devices[d].groups[m]
                      IN  IF ~h.enabled \/ Contested(d \o m) THEN KeysOf(h)
                          ELSE {h.registers[j].key : j \in DOMAIN h.registers \ Readable(h)}
<1>1. left(n) \subseteq Unread(d)
  <2>1. Unread(d) = UNION {left(m) : m \in names}
    BY Zenon DEF Unread
  <2> HIDE DEF left, names
  <2>2. left(n) \in {left(m) : m \in names}
    BY DEF names
  <2> QED
    BY <2>1, <2>2
<1>2. g.registers[i].key \notin left(n)
  BY <1>1
<1>3. g.enabled /\ ~Contested(d \o n)
  BY <1>2 DEF KeysOf
<1>4. i \in Readable(g)
  BY <1>2, <1>3
<1> QED
  BY <1>3, <1>4 DEF EnabledGroups

LEMMA OneWriter ==
  ASSUME IInv, phase = "running", config.version = "2.1", NEW d \in Enabled,
         NEW v \in SensorKeys(config.devices[d]), v \notin Unread(d), ~Contested(d \o v)
  PROVE  \E w : Writers(d \o v) = {w}
<1> DEFINE device == config.devices[d]
           k == d \o v
<1>1. IsFile(config) /\ UniqueKeys(device)
  BY Checked DEF Sound, ValidDevice
<1>2. Joins(k, d, v) /\ ~Contested(k)
  BY DEF Joins
<1> HIDE DEF k
<1>3. CASE v \in RegisterKeys(device)
  <2>1. PICK n \in DOMAIN device.groups : \E i \in DOMAIN device.groups[n].registers :
           device.groups[n].registers[i].key = v
    BY <1>3 DEF RegisterKeys, KeysOf
  <2>2. PICK i \in DOMAIN device.groups[n].registers : device.groups[n].registers[i].key = v
    BY <2>1
  <2>3. n \in EnabledGroups(device) /\ ~Contested(d \o n) /\ i \in Readable(device.groups[n])
    BY <2>2, ReadIfCounted
  <2> DEFINE w == GroupStrategy(d, n)
  <2>4. w \in Strategies
    BY <2>3, GroupRuns DEF Strategies
  <2>5. k \in DOMAIN w.registers
    BY <2>2, <2>3, RegisterMapKeys DEF GroupStrategy, k
  <2> HIDE DEF w
  <2>6. ASSUME NEW s \in Strategies, k \in DOMAIN s.registers PROVE s = w
    <3>1. PICK m \in EnabledGroups(device) :
            /\ s = GroupStrategy(d, m)
            /\ \E j \in DOMAIN device.groups[m].registers : device.groups[m].registers[j].key = v
      BY <1>2, <2>6, WriterOfKey
    <3>2. m \in DOMAIN device.groups
      BY DEF EnabledGroups
    <3>3. m = n
      BY <1>1, <2>2, <3>1, <3>2, OneRegister
    <3> QED
      BY <3>1, <3>3 DEF w
  <2>7. k \notin DOMAIN calcStrategies
    <3>1. ASSUME k \in DOMAIN calcStrategies PROVE FALSE
      <4>1. PICK j \in DOMAIN device.calcs : device.calcs[j].key = v
        BY <1>2, <3>1, CalcOfKey
      <4> QED
        BY <1>1, <1>3, <4>1 DEF UniqueKeys
    <3> QED
      BY <3>1
  <2>8. Writers(k) = {w}
    BY <2>4, <2>5, <2>6, <2>7 DEF Writers, CalcsRun
  <2> QED
    BY <2>8 DEF k
<1>4. CASE v \notin RegisterKeys(device)
  <2>1. PICK j \in DOMAIN device.calcs : device.calcs[j].key = v
    BY <1>4 DEF SensorKeys
  <2>2. k \in CalcKeys(d)
    BY <2>1 DEF CalcKeys, k
  <2>3. k \in CalcsRun
    BY <1>2, <2>2, CalcRuns DEF CalcsRun
  <2>4. ASSUME NEW s \in Strategies, k \in DOMAIN s.registers PROVE FALSE
    <3>1. PICK m \in EnabledGroups(device) :
            \E i \in DOMAIN device.groups[m].registers : device.groups[m].registers[i].key = v
      BY <1>2, <2>4, WriterOfKey
    <3>2. m \in DOMAIN device.groups
      BY DEF EnabledGroups
    <3> QED
      BY <1>4, <3>1, <3>2, RegisterIsSensor
  <2>5. Writers(k) = {calcStrategies[k]}
    BY <2>3, <2>4 DEF Writers
  <2> QED
    BY <2>5 DEF k
<1> QED
  BY <1>3, <1>4

LEMMA RunningHasInputs == IInv => InputsAvailable
<1> SUFFICES ASSUME IInv, phase = "running", config.version = "2.1", NEW d \in Enabled,
                    NEW k \in CalcKeys(d), ~Contested(k),
                    \A v \in CalcAt(d, k).variables : v \notin Unread(d) /\ ~Contested(d \o v)
             PROVE  \A v \in calcStrategies[k].inputs : Cardinality(Writers(v)) = 1
  BY DEF InputsAvailable
<1> DEFINE device == config.devices[d]
<1>1. IsFile(config) /\ d \in DOMAIN config.devices /\ ValidDevice(device)
  BY Checked DEF Sound
<1>2. calcStrategies[k].inputs = {d \o v : v \in CalcAt(d, k).variables}
  <2>1. calcStrategies[k] = CalcStrategy(d, k)
    BY CalcRuns
  <2> QED
    BY <2>1 DEF CalcStrategy
<1>3. PICK i \in DOMAIN device.calcs : CalcAt(d, k) = device.calcs[i]
  BY <1>1, CalcAtKey
<1>4. device.calcs[i].variables \subseteq KnownTo(device, i)
  BY <1>1 DEF ValidDevice
<1>5. KnownTo(device, i) \subseteq SensorKeys(device)
  <2>1. device.calcs \in Seq([key : Names, variables : SUBSET Names])
    BY <1>1 DEF IsFile, IsDevice
  <2>2. \A j \in 1..i - 1 : j \in DOMAIN device.calcs
    BY <2>1
  <2> QED
    BY <2>2 DEF KnownTo, SensorKeys
<1>6. ASSUME NEW v \in CalcAt(d, k).variables PROVE Cardinality(Writers(d \o v)) = 1
  <2>1. v \in SensorKeys(device)
    BY <1>3, <1>4, <1>5
  <2>2. PICK w : Writers(d \o v) = {w}
    BY <2>1, OneWriter
  <2> QED
    BY <2>2, FS_Singleton
<1> QED
  BY <1>2, <1>6

(* Every input of a formula that passed validation is written by exactly    *)
(* one strategy, for any file, save the exceptions that InputsAvailable     *)
(* names (Device.Validate, RegisterFromDevices).                            *)
THEOREM HasInputs == Spec => []InputsAvailable
BY Invariance, RunningHasInputs, PTL

-----------------------------------------------------------------------------
(* TopicsMatch *)

LEMMA InPublished ==
  ASSUME NEW t
  PROVE  t \in Published <=>
           \/ \E s \in Strategies : \E k \in DOMAIN s.registers : t = s.registers[k].topic
           \/ \E k \in CalcsRun : t = calcStrategies[k].topic
<1> DEFINE ofGroups == UNION {{s.registers[k].topic : k \in DOMAIN s.registers} : s \in Strategies}
           ofCalcs  == {calcStrategies[k].topic : k \in CalcsRun}
<1>1. t \in ofGroups <=> \E s \in Strategies : \E k \in DOMAIN s.registers : t = s.registers[k].topic
  OBVIOUS
<1>2. t \in ofCalcs <=> \E k \in CalcsRun : t = calcStrategies[k].topic
  OBVIOUS
<1>3. Published = ofGroups \cup ofCalcs
  BY DEF Published
<1> HIDE DEF ofGroups, ofCalcs
<1> QED
  BY <1>1, <1>2, <1>3

LEMMA PublishedTopic ==
  ASSUME IInv, phase = "running", NEW t \in Published
  PROVE  \E d \in Enabled : \E k \in SensorKeys(config.devices[d]) : t = <<d, k>>
<1>1. Done = Enabled /\ IsFile(config)
  BY DEF Done, Registry, IInv, TypeInv
<1>2. CASE \E s \in Strategies : \E k \in DOMAIN s.registers : t = s.registers[k].topic
  <2>1. PICK s \in Strategies : \E k \in DOMAIN s.registers : t = s.registers[k].topic
    BY <1>2
  <2>2. PICK k \in DOMAIN s.registers : t = s.registers[k].topic
    BY <2>1
  <2>3. PICK d \in Enabled : \E n \in EnabledGroups(config.devices[d]) : s = GroupStrategy(d, n)
    BY <1>1 DEF IInv, GroupsRegistered, Strategies
  <2>4. PICK n \in EnabledGroups(config.devices[d]) : s = GroupStrategy(d, n)
    BY <2>3
  <2>5. n \in DOMAIN config.devices[d].groups
    BY DEF EnabledGroups
  <2>6. PICK i \in DOMAIN config.devices[d].groups[n].registers :
           s.registers[k].topic = <<d, config.devices[d].groups[n].registers[i].key>>
    BY <1>1, <2>2, <2>4, <2>5, StrategyRegisters
  <2>7. config.devices[d].groups[n].registers[i].key \in SensorKeys(config.devices[d])
    BY <2>5, RegisterIsSensor
  <2> QED
    BY <2>2, <2>6, <2>7
<1>3. CASE \E k \in CalcsRun : t = calcStrategies[k].topic
  <2>1. PICK k \in CalcsRun : t = calcStrategies[k].topic
    BY <1>3
  <2>2. PICK d \in Enabled : k \in CalcKeys(d) /\ calcStrategies[k] = CalcStrategy(d, k)
    BY <1>1 DEF IInv, CalcsRegistered, CalcsRun
  <2>3. d \in DOMAIN config.devices
    BY DEF Enabled
  <2>4. PICK i \in DOMAIN config.devices[d].calcs : CalcAt(d, k) = config.devices[d].calcs[i]
    BY <1>1, <2>2, <2>3, CalcAtKey
  <2>5. t = <<d, config.devices[d].calcs[i].key>>
    BY <2>1, <2>2, <2>4 DEF CalcStrategy
  <2> QED
    BY <2>5, CalcIsSensor
<1> QED
  BY <1>2, <1>3, InPublished

LEMMA SensorPublished ==
  ASSUME IInv, phase = "running", config.version = "2.1", NEW d \in Enabled,
         NEW v \in SensorKeys(config.devices[d]), v \notin Unread(d),
         ~(d \o v \in CalcKeys(d) /\ Contested(d \o v))
  PROVE  <<d, v>> \in Published
<1> DEFINE device == config.devices[d]
           k == d \o v
<1>1. IsFile(config) /\ d \in DOMAIN config.devices /\ UniqueKeys(device)
  BY Checked DEF Sound, ValidDevice
<1>2. d \in Names /\ v \in Names /\ SensorKeys(device) \subseteq Names
  BY <1>1, NamesOfDevice
<1>3. CASE v \in RegisterKeys(device)
  <2>1. PICK n \in DOMAIN device.groups : \E i \in DOMAIN device.groups[n].registers :
           device.groups[n].registers[i].key = v
    BY <1>3 DEF RegisterKeys, KeysOf
  <2>2. PICK i \in DOMAIN device.groups[n].registers : device.groups[n].registers[i].key = v
    BY <2>1
  <2>3. n \in EnabledGroups(device) /\ ~Contested(d \o n) /\ i \in Readable(device.groups[n])
    BY <2>2, ReadIfCounted
  <2> DEFINE s == GroupStrategy(d, n)
  <2>4. s \in Strategies
    BY <2>3, GroupRuns DEF Strategies
  <2>5. k \in DOMAIN s.registers
    BY <2>2, <2>3, RegisterMapKeys DEF GroupStrategy
  <2>6. PICK j \in DOMAIN device.groups[n].registers :
          /\ k = d \o device.groups[n].registers[j].key
          /\ s.registers[k].topic = <<d, device.groups[n].registers[j].key>>
    BY <1>1, <2>5, StrategyRegisters
  <2>7. device.groups[n].registers[j].key \in Names
    BY <1>2, RegisterIsSensor
  <2>8. device.groups[n].registers[j].key = v
    BY <1>2, <2>6, <2>7, SameJoined
  <2> HIDE DEF s, k
  <2> QED
    BY <2>4, <2>5, <2>6, <2>8, InPublished
<1>4. CASE v \notin RegisterKeys(device)
  <2>1. PICK j \in DOMAIN device.calcs : device.calcs[j].key = v
    BY <1>4 DEF SensorKeys
  <2>2. k \in CalcKeys(d)
    BY <2>1 DEF CalcKeys
  <2>3. k \in CalcsRun /\ calcStrategies[k] = CalcStrategy(d, k)
    BY <2>2, CalcRuns DEF CalcsRun
  <2>4. PICK i \in DOMAIN device.calcs : k = d \o device.calcs[i].key /\ CalcAt(d, k) = device.calcs[i]
    BY <1>1, <2>2, CalcAtKey
  <2>5. device.calcs[i].key \in Names
    BY <1>2, CalcIsSensor
  <2>6. device.calcs[i].key = v
    BY <1>2, <2>4, <2>5, SameJoined
  <2>7. calcStrategies[k].topic = <<d, v>>
    BY <2>3, <2>4, <2>6 DEF CalcStrategy
  <2> QED
    BY <2>3, <2>7, InPublished
<1> QED
  BY <1>3, <1>4

LEMMA RunningMatches == IInv => TopicsMatch
<1> SUFFICES ASSUME IInv, phase = "running", config.version = "2.1",
                    NEW d \in Enabled, HADeviceID(d) = d
             PROVE  /\ \A k \in SensorKeys(config.devices[d]) :
                         /\ <<d, k>> \in discovered
                         /\ \/ <<d, k>> \in Published
                            \/ k \in Unread(d)
                            \/ d \o k \in CalcKeys(d) /\ Contested(d \o k)
                    /\ \A t \in Published : t[1] = d => t \in discovered
  BY DEF TopicsMatch
<1>1. discovered = UNION {{<<HADeviceID(e), k>> : k \in SensorKeys(config.devices[e])} : e \in Enabled}
  BY DEF IInv, Announced
<1>2. \A k \in SensorKeys(config.devices[d]) : <<d, k>> \in discovered
  BY <1>1
<1>3. ASSUME NEW t \in Published, t[1] = d PROVE t \in discovered
  <2>1. PICK e \in Enabled : \E k \in SensorKeys(config.devices[e]) : t = <<e, k>>
    BY PublishedTopic
  <2> QED
    BY <1>2, <1>3, <2>1
<1> QED
  BY <1>2, <1>3, SensorPublished

(* The topics announced are those published to, for any file, save the      *)
(* exceptions that TopicsMatch names (publishDiscoveryConfigsV21).          *)
THEOREM TopicsAgree == Spec => []TopicsMatch
BY Invariance, RunningMatches, PTL

-----------------------------------------------------------------------------
(* The verdict.  What the documentation asks of a device is what Validate   *)
(* looks at: as many keys as sensors is no key twice.                       *)

LEMMA FiniteImage ==
  ASSUME NEW S, IsFiniteSet(S), NEW f
  PROVE  IsFiniteSet({f[x] : x \in S})
<1> DEFINE T == {f[x] : x \in S}
           g == [x \in S |-> f[x]]
<1>1. g \in Surjection(S, T)
  BY DEF Surjection
<1> HIDE DEF g, T
<1> QED
  BY <1>1, FS_Surjection DEF T

RegistersOf(device, n) == {<<"register", n, i>> : i \in DOMAIN device.groups[n].registers}
CalcsOf(device)        == {<<"calculated", <<>>, i>> : i \in DOMAIN device.calcs}

LEMMA SensorIs ==
  ASSUME NEW device, NEW s
  PROVE  s \in Sensors(device) <=>
           \/ \E i \in DOMAIN device.calcs : s = <<"calculated", <<>>, i>>
           \/ \E n \in DOMAIN device.groups : \E i \in DOMAIN device.groups[n].registers :
                 s = <<"register", n, i>>
<1>1. s \in CalcsOf(device) <=> \E i \in DOMAIN device.calcs : s = <<"calculated", <<>>, i>>
  BY DEF CalcsOf
<1>2. s \in UNION {RegistersOf(device, n) : n \in DOMAIN device.groups}
        <=> \E n \in DOMAIN device.groups : \E i \in DOMAIN device.groups[n].registers :
               s = <<"register", n, i>>
  BY DEF RegistersOf
<1>3. Sensors(device) = CalcsOf(device) \cup UNION {RegistersOf(device, n) : n \in DOMAIN device.groups}
  BY DEF Sensors, CalcsOf, RegistersOf
<1> QED
  BY <1>1, <1>2, <1>3

LEMMA SensorsFinite ==
  ASSUME NEW device, IsDevice(device)
  PROVE  IsFiniteSet(Sensors(device))
<1>1. ASSUME NEW q, NEW T, q \in Seq(T) PROVE IsFiniteSet(DOMAIN q)
  <2>1. DOMAIN q = 1..Len(q) /\ Len(q) \in Int /\ 1 \in Int
    BY <1>1
  <2> QED
    BY <2>1, FS_Interval
<1>2. ASSUME NEW n \in DOMAIN device.groups PROVE IsFiniteSet(RegistersOf(device, n))
  <2> DEFINE S == DOMAIN device.groups[n].registers
             f == [i \in S |-> <<"register", n, i>>]
  <2>1. IsFiniteSet(S)
    BY <1>1 DEF IsDevice, RegisterGroup
  <2>2. RegistersOf(device, n) = {f[i] : i \in S}
    BY DEF RegistersOf
  <2> HIDE DEF S, f
  <2> QED
    BY <2>1, <2>2, FiniteImage
<1>3. IsFiniteSet(CalcsOf(device))
  <2> DEFINE S == DOMAIN device.calcs
             f == [i \in S |-> <<"calculated", <<>>, i>>]
  <2>1. IsFiniteSet(S)
    BY <1>1 DEF IsDevice
  <2>2. CalcsOf(device) = {f[i] : i \in S}
    BY DEF CalcsOf
  <2> HIDE DEF S, f
  <2> QED
    BY <2>1, <2>2, FiniteImage
<1>4. IsFiniteSet(UNION {RegistersOf(device, n) : n \in DOMAIN device.groups})
  <2> DEFINE S == DOMAIN device.groups
             f == [n \in S |-> RegistersOf(device, n)]
             C == {f[n] : n \in S}
  <2>1. IsFiniteSet(S)
    BY DEF IsDevice, IsMap
  <2>2. \A T \in C : IsFiniteSet(T)
    BY <1>2
  <2>3. C = {RegistersOf(device, n) : n \in DOMAIN device.groups}
    OBVIOUS
  <2>4. IsFiniteSet(C)
    <3> HIDE DEF S, f
    <3> QED
      BY <2>1, FiniteImage
  <2> HIDE DEF C
  <2>5. IsFiniteSet(UNION C)
    BY <2>2, <2>4, FS_UNION
  <2> QED
    BY <2>3, <2>5
<1> DEFINE registers == UNION {RegistersOf(device, n) : n \in DOMAIN device.groups}
<1>5. Sensors(device) = CalcsOf(device) \cup registers
  BY DEF Sensors, CalcsOf, RegistersOf
<1> HIDE DEF registers
<1>6. IsFiniteSet(registers)
  BY <1>4 DEF registers
<1>7. IsFiniteSet(CalcsOf(device) \cup registers)
  BY <1>3, <1>6, FS_Union
<1> QED
  BY <1>5, <1>7

KeyOf(device, s) == IF s[1] = "calculated" THEN device.calcs[s[3]].key
                    ELSE device.groups[s[2]].registers[s[3]].key

LEMMA RegisterKeyIs ==
  ASSUME NEW device, NEW k
  PROVE  k \in RegisterKeys(device) <=>
           \E n \in DOMAIN device.groups : \E i \in DOMAIN device.groups[n].registers :
              k = device.groups[n].registers[i].key
<1>1. \A n : k \in KeysOf(device.groups[n]) <=>
               \E i \in DOMAIN device.groups[n].registers : k = device.groups[n].registers[i].key
  BY DEF KeysOf
<1> QED
  BY <1>1 DEF RegisterKeys

LEMMA KeysAreUnique ==
  ASSUME NEW device, IsDevice(device)
  PROVE  UniqueKeys(device) <=>
           \A s, t \in Sensors(device) : KeyOf(device, s) = KeyOf(device, t) => s = t
<1>1. DOMAIN device.calcs = 1..Len(device.calcs) /\ Len(device.calcs) \in Nat
  BY DEF IsDevice
<1>2. \A n, i : KeyOf(device, <<"register", n, i>>) = device.groups[n].registers[i].key
  BY DEF KeyOf
<1>3. \A i : KeyOf(device, <<"calculated", <<>>, i>>) = device.calcs[i].key
  BY DEF KeyOf
<1>4. ASSUME UniqueKeys(device), NEW s \in Sensors(device), NEW t \in Sensors(device),
             KeyOf(device, s) = KeyOf(device, t)
      PROVE  s = t
  <2>1. ASSUME NEW i \in DOMAIN device.calcs, NEW j \in DOMAIN device.calcs,
               device.calcs[i].key = device.calcs[j].key
        PROVE  i = j
    <3>1. i \in Int /\ j \in Int /\ (j < i => j \in 1..i - 1) /\ (i < j => i \in 1..j - 1)
      BY <1>1
    <3>2. ~(i < j) /\ ~(j < i)
      BY <1>4, <2>1, <3>1 DEF UniqueKeys
    <3> QED
      BY <3>1, <3>2
  <2>2. ASSUME NEW i \in DOMAIN device.calcs, NEW n \in DOMAIN device.groups,
               NEW j \in DOMAIN device.groups[n].registers
        PROVE  device.calcs[i].key # device.groups[n].registers[j].key
    <3>1. device.calcs[i].key \notin RegisterKeys(device)
      BY <1>4 DEF UniqueKeys
    <3> QED
      BY <3>1, RegisterKeyIs
  <2>3. CASE \E i \in DOMAIN device.calcs : s = <<"calculated", <<>>, i>>
    <3>1. PICK i \in DOMAIN device.calcs : s = <<"calculated", <<>>, i>>
      BY <2>3
    <3>2. CASE \E j \in DOMAIN device.calcs : t = <<"calculated", <<>>, j>>
      BY <1>3, <1>4, <2>1, <3>1, <3>2
    <3>3. CASE \E n \in DOMAIN device.groups : \E j \in DOMAIN device.groups[n].registers :
                 t = <<"register", n, j>>
      BY <1>2, <1>3, <1>4, <2>2, <3>1, <3>3
    <3> QED
      BY <3>2, <3>3, SensorIs
  <2>4. CASE \E n \in DOMAIN device.groups : \E i \in DOMAIN device.groups[n].registers :
               s = <<"register", n, i>>
    <3>1. PICK n \in DOMAIN device.groups : \E i \in DOMAIN device.groups[n].registers :
                s = <<"register", n, i>>
      BY <2>4
    <3>2. PICK i \in DOMAIN device.groups[n].registers : s = <<"register", n, i>>
      BY <3>1
    <3>3. CASE \E j \in DOMAIN device.calcs : t = <<"calculated", <<>>, j>>
      BY <1>2, <1>3, <1>4, <2>2, <3>2, <3>3
    <3>4. CASE \E m \in DOMAIN device.groups : \E j \in DOMAIN device.groups[m].registers :
                 t = <<"register", m, j>>
      <4>1. PICK m \in DOMAIN device.groups : \E j \in DOMAIN device.groups[m].registers :
                   t = <<"register", m, j>>
        BY <3>4
      <4>2. PICK j \in DOMAIN device.groups[m].registers : t = <<"register", m, j>>
        BY <4>1
      <4>3. device.groups[n].registers[i].key = device.groups[m].registers[j].key
        BY <1>2, <1>4, <3>2, <4>2
      <4>4. n = m /\ i = j
        BY <1>4, <4>3 DEF UniqueKeys
      <4> QED
        BY <3>2, <4>2, <4>4
    <3> QED
      BY <3>3, <3>4, SensorIs
  <2> QED
    BY <2>3, <2>4, SensorIs
<1>5. ASSUME \A s, t \in Sensors(device) : KeyOf(device, s) = KeyOf(device, t) => s = t
      PROVE  UniqueKeys(device)
  <2>1. ASSUME NEW m \in DOMAIN device.groups, NEW n \in DOMAIN device.groups,
               NEW i \in DOMAIN device.groups[m].registers,
               NEW j \in DOMAIN device.groups[n].registers,
               device.groups[m].registers[i].key = device.groups[n].registers[j].key
        PROVE  m = n /\ i = j
    <3>1. <<"register", m, i>> \in Sensors(device) /\ <<"register", n, j>> \in Sensors(device)
      BY SensorIs
    <3>2. <<"register", m, i>> = <<"register", n, j>>
      BY <1>2, <1>5, <2>1, <3>1
    <3> QED
      BY <3>2
  <2>2. ASSUME NEW i \in DOMAIN device.calcs, device.calcs[i].key \in RegisterKeys(device)
        PROVE  FALSE
    <3>1. PICK n \in DOMAIN device.groups : \E j \in DOMAIN device.groups[n].registers :
             device.calcs[i].key = device.groups[n].registers[j].key
      BY <2>2, RegisterKeyIs
    <3>2. PICK j \in DOMAIN device.groups[n].registers :
             device.calcs[i].key = device.groups[n].registers[j].key
      BY <3>1
    <3>3. <<"register", n, j>> \in Sensors(device) /\ <<"calculated", <<>>, i>> \in Sensors(device)
      BY SensorIs
    <3>4. <<"register", n, j>> = <<"calculated", <<>>, i>>
      BY <1>2, <1>3, <1>5, <3>2, <3>3
    <3> QED
      BY <3>4
  <2>3. ASSUME NEW i \in DOMAIN device.calcs, NEW j \in 1..i - 1,
               device.calcs[j].key = device.calcs[i].key
        PROVE  FALSE
    <3>1. j \in DOMAIN device.calcs /\ j # i
      BY <1>1
    <3>2. <<"calculated", <<>>, i>> \in Sensors(device) /\ <<"calculated", <<>>, j>> \in Sensors(device)
      BY <3>1, SensorIs
    <3>3. <<"calculated", <<>>, i>> = <<"calculated", <<>>, j>>
      BY <1>3, <1>5, <2>3, <3>2
    <3> QED
      BY <3>1, <3>3
  <2> QED
    BY <2>1, <2>2, <2>3 DEF UniqueKeys
<1> QED
  BY <1>4, <1>5

LEMMA CountingKeys ==
  ASSUME NEW device, IsDevice(device)
  PROVE  Cardinality(SensorKeys(device)) = Cardinality(Sensors(device)) <=> UniqueKeys(device)
<1> DEFINE S == Sensors(device)
           T == SensorKeys(device)
           f == [s \in S |-> KeyOf(device, s)]
<1>1. /\ \A n, i : KeyOf(device, <<"register", n, i>>) = device.groups[n].registers[i].key
      /\ \A i : KeyOf(device, <<"calculated", <<>>, i>>) = device.calcs[i].key
  BY DEF KeyOf
<1>2. ASSUME NEW s \in S PROVE KeyOf(device, s) \in T
  <2>1. CASE \E i \in DOMAIN device.calcs : s = <<"calculated", <<>>, i>>
    BY <1>1, <2>1 DEF SensorKeys
  <2>2. CASE \E n \in DOMAIN device.groups : \E i \in DOMAIN device.groups[n].registers :
               s = <<"register", n, i>>
    <3>1. KeyOf(device, s) \in RegisterKeys(device)
      BY <1>1, <2>2, RegisterKeyIs
    <3> QED
      BY <3>1 DEF SensorKeys
  <2> QED
    BY <2>1, <2>2, SensorIs
<1>3. ASSUME NEW k \in T PROVE \E s \in S : KeyOf(device, s) = k
  <2>1. CASE \E i \in DOMAIN device.calcs : k = device.calcs[i].key
    <3>1. PICK i \in DOMAIN device.calcs : k = device.calcs[i].key
      BY <2>1
    <3>2. <<"calculated", <<>>, i>> \in S
      BY SensorIs
    <3> QED
      BY <1>1, <3>1, <3>2
  <2>2. CASE k \in RegisterKeys(device)
    <3>1. PICK n \in DOMAIN device.groups : \E i \in DOMAIN device.groups[n].registers :
             k = device.groups[n].registers[i].key
      BY <2>2, RegisterKeyIs
    <3>2. PICK i \in DOMAIN device.groups[n].registers : k = device.groups[n].registers[i].key
      BY <3>1
    <3>3. <<"register", n, i>> \in S
      BY SensorIs
    <3> QED
      BY <1>1, <3>2, <3>3
  <2> QED
    BY <2>1, <2>2 DEF SensorKeys
<1>4. IsFiniteSet(S)
  BY SensorsFinite
<1>5. UniqueKeys(device) <=> \A s, t \in S : KeyOf(device, s) = KeyOf(device, t) => s = t
  BY KeysAreUnique
<1> HIDE DEF S, T
<1>6. f \in Surjection(S, T) /\ \A s \in S : f[s] = KeyOf(device, s)
  BY <1>2, <1>3 DEF Surjection
<1>7. f \in Injection(S, T) <=> \A s, t \in S : f[s] = f[t] => s = t
  BY <1>6 DEF Surjection, Injection, IsInjective
<1>8. Cardinality(T) = Cardinality(S) <=> f \in Injection(S, T)
  <2> HIDE DEF f
  <2> QED
    BY <1>4, <1>6, FS_Surjection
<1>9. Cardinality(T) = Cardinality(S) <=> UniqueKeys(device)
  <2> HIDE DEF f
  <2> QED
    BY <1>5, <1>6, <1>7, <1>8
<1> QED
  BY <1>9 DEF S, T

LEMMA WellFormedIsValid ==
  ASSUME NEW device, IsDevice(device)
  PROVE  WellFormed(device) <=> ValidDevice(device)
<1>1. <<>> \notin SensorKeys(device)
        <=> /\ <<>> \notin RegisterKeys(device)
            /\ \A i \in DOMAIN device.calcs : device.calcs[i].key # <<>>
  BY DEF SensorKeys
<1>2. ASSUME NEW i \in DOMAIN device.calcs
      PROVE  SensorKeys([device EXCEPT !.calcs = SubSeq(@, 1, i - 1)]) = KnownTo(device, i)
  <2> DEFINE calcs  == device.calcs
             first  == SubSeq(calcs, 1, i - 1)
             before == [device EXCEPT !.calcs = SubSeq(@, 1, i - 1)]
  <2>1. before.calcs = first /\ before.groups = device.groups
    BY DEF IsDevice
  <2>2. i \in 1..Len(calcs) /\ Len(calcs) \in Nat /\ calcs \in Seq([key : Names, variables : SUBSET Names])
    BY DEF IsDevice
  <2> HIDE DEF calcs
  <2>3. DOMAIN first = 1..i - 1 /\ \A j \in 1..i - 1 : first[j] = calcs[j]
    BY <2>2
  <2> HIDE DEF before, first
  <2>4. RegisterKeys(before) = RegisterKeys(device)
    BY <2>1 DEF RegisterKeys
  <2>5. SensorKeys(before) = KnownTo(device, i)
    BY <2>1, <2>3, <2>4 DEF SensorKeys, KnownTo, calcs
  <2> QED
    BY <2>5 DEF before
<1>3. Cardinality(SensorKeys(device)) = Cardinality(Sensors(device)) <=> UniqueKeys(device)
  BY CountingKeys
<1> QED
  BY <1>1, <1>2, <1>3 DEF WellFormed, ValidDevice

(* What the verdict hangs on.  The devices not looked at yet: each is in    *)
(* order, and its slave and Home Assistant ids are its own.                 *)
Fits(d) ==
  /\ d # <<>> /\ ValidDevice(config.devices[d])
  /\ config.devices[d].slave \notin usedSlaveIDs /\ HADeviceID(d) \notin usedHADeviceIDs

OwnIDs(d, e) ==
  \/ d = e
  \/ config.devices[d].slave # config.devices[e].slave /\ HADeviceID(d) # HADeviceID(e)

RestFits ==
  /\ \A d \in todo : Fits(d)
  /\ \A d, e \in todo : OwnIDs(d, e)

LoadedWell ==
  /\ ValidCommon(config)
  /\ DOMAIN config.devices # {}
  /\ IF config.version = "2.1" THEN DevicesWellFormed ELSE FlatFileAccepted

VerdictSoFar ==
  /\ phase \in {"file", "loaded"} => usedSlaveIDs = {} /\ usedHADeviceIDs = {}
  /\ phase = "file" => (sound <=> WellConfigured)
  /\ phase = "loaded" => (sound <=> LoadedWell)
  /\ phase = "devices" => (sound <=> RestFits)
  /\ phase \in {"valid", "accepted"} => (sound <=> DOMAIN config.devices # {})
  /\ phase \in Registry => sound
  /\ phase \in {"refused", "not supported"} => ~sound

-----------------------------------------------------------------------------
LEMMA InitVerdict == Init => VerdictSoFar
BY DEF Init, VerdictSoFar, Registry

LEMMA LoadVerdict == IInv /\ VerdictSoFar /\ LoadConfig /\ UNCHANGED sound => VerdictSoFar'
<1> SUFFICES ASSUME IInv, VerdictSoFar, LoadConfig, UNCHANGED sound PROVE VerdictSoFar'
  OBVIOUS
<1>1. /\ phase = "file" /\ phase' = "loaded"
      /\ UNCHANGED usedSlaveIDs /\ UNCHANGED usedHADeviceIDs
      /\ config' = [config EXCEPT !.app  = ApplyApplicationDefaults(@),
                                  !.diag = ApplyDeviceDiagnosticsDefaults(@)]
  BY DEF LoadConfig, used
<1>2. IsFile(config)
  BY DEF IInv, TypeInv
<1> DEFINE c == [config EXCEPT !.app = ApplyApplicationDefaults(@)]
<1>3. /\ config'.mqtt = c.mqtt /\ config'.modbus = c.modbus /\ config'.app = c.app
      /\ config'.version = config.version /\ config'.devices = config.devices
      /\ config'.groups = config.groups /\ config'.calculated = config.calculated
      /\ config'.registers = config.registers /\ config'.modbus = config.modbus
  BY <1>1, <1>2 DEF IsFile
<1> HIDE DEF c
<1>4. ValidCommon(config)' <=> ValidCommon(c)
  BY <1>3 DEF ValidCommon
<1>5. DevicesWellFormed' <=> DevicesWellFormed
  BY <1>3 DEF DevicesWellFormed, AllDifferent, HADeviceID
<1>6. FlatFileAccepted' <=> FlatFileAccepted
  BY <1>3 DEF FlatFileAccepted
<1>7. LoadedWell' <=> WellConfigured
  BY <1>3, <1>4, <1>5, <1>6 DEF LoadedWell, WellConfigured, c
<1> QED
  BY <1>1, <1>7 DEF VerdictSoFar, Registry

(* All devices are still to be looked at                                    *)
LEMMA AllFit ==
  ASSUME IsFile(config), UNCHANGED config, todo' = DOMAIN config.devices,
         usedSlaveIDs' = {}, usedHADeviceIDs' = {}
  PROVE  RestFits' <=> DevicesWellFormed
<1>1. \A d \in DOMAIN config.devices : WellFormed(config.devices[d]) <=> ValidDevice(config.devices[d])
  BY WellFormedIsValid DEF IsFile
<1>2. \A d : HADeviceID(d)' = HADeviceID(d)
  BY DEF HADeviceID
<1>3. (\A d \in todo' : Fits(d)')
        <=> \A d \in DOMAIN config.devices : d # <<>> /\ WellFormed(config.devices[d])
  BY <1>1 DEF Fits
<1>4. (\A d, e \in todo' : OwnIDs(d, e)')
        <=> /\ AllDifferent([d \in DOMAIN config.devices |-> config.devices[d].slave])
            /\ AllDifferent([d \in DOMAIN config.devices |-> HADeviceID(d)])
  BY <1>2 DEF OwnIDs, AllDifferent
<1> QED
  BY <1>3, <1>4 DEF RestFits, DevicesWellFormed

LEMMA ValidateVerdict == IInv /\ VerdictSoFar /\ Validate /\ UNCHANGED sound => VerdictSoFar'
<1> SUFFICES ASSUME IInv, VerdictSoFar, Validate, UNCHANGED sound PROVE VerdictSoFar'
  OBVIOUS
<1>1. /\ phase = "loaded" /\ UNCHANGED <<config, usedSlaveIDs, usedHADeviceIDs>>
      /\ phase' = IF ~ValidCommon(config) THEN "refused"
                  ELSE IF config.version = "2.1" /\ DOMAIN config.devices # {} THEN "devices"
                  ELSE IF FlatFileAccepted THEN "valid" ELSE "refused"
      /\ todo' = IF phase' = "devices" THEN DOMAIN config.devices ELSE {}
  BY DEF Validate, used
<1>2. (sound <=> LoadedWell) /\ usedSlaveIDs = {} /\ usedHADeviceIDs = {} /\ IsFile(config)
  BY <1>1 DEF VerdictSoFar, IInv, TypeInv
<1>3. CASE phase' = "refused"
  <2>1. ~LoadedWell
    BY <1>1, <1>3 DEF LoadedWell
  <2> QED
    BY <1>2, <1>3, <2>1 DEF VerdictSoFar, Registry
<1>4. CASE phase' = "devices"
  <2>1. LoadedWell <=> DevicesWellFormed
    BY <1>1, <1>4 DEF LoadedWell
  <2>2. /\ UNCHANGED config /\ todo' = DOMAIN config.devices
        /\ usedSlaveIDs' = {} /\ usedHADeviceIDs' = {}
    BY <1>1, <1>2, <1>4
  <2>3. RestFits' <=> DevicesWellFormed
    BY <1>2, <2>2, AllFit
  <2> QED
    BY <1>2, <1>4, <2>1, <2>3 DEF VerdictSoFar, Registry
<1>5. CASE phase' = "valid"
  <2>1. LoadedWell <=> DOMAIN config.devices # {}
    BY <1>1, <1>5 DEF LoadedWell
  <2> QED
    BY <1>1, <1>2, <1>5, <2>1 DEF VerdictSoFar, Registry
<1> QED
  BY <1>1, <1>3, <1>4, <1>5

LEMMA ValidateDeviceVerdict ==
  ASSUME NEW d \in DOMAIN config.devices
  PROVE  IInv /\ VerdictSoFar /\ ValidateDevice(d) /\ UNCHANGED sound => VerdictSoFar'
<1> SUFFICES ASSUME IInv, VerdictSoFar, ValidateDevice(d), UNCHANGED sound PROVE VerdictSoFar'
  OBVIOUS
<1>1. phase = "devices" /\ d \in todo /\ (sound <=> RestFits)
  BY DEF ValidateDevice, VerdictSoFar
<1>2. IsFile(config) /\ IsDevice(config.devices[d]) /\ todo \subseteq DOMAIN config.devices
  BY DEF IInv, TypeInv, IsFile
<1>3. CASE ~Fits(d) /\ phase' = "refused"
  <2>1. ~sound
    BY <1>1, <1>3 DEF RestFits
  <2> QED
    BY <1>3, <2>1 DEF VerdictSoFar, Registry
<1>4. CASE /\ Fits(d)
           /\ config' = [config EXCEPT !.devices[d] = Inherit(@)]
           /\ usedSlaveIDs' = usedSlaveIDs \cup {config.devices[d].slave}
           /\ usedHADeviceIDs' = usedHADeviceIDs \cup {HADeviceID(d)}
           /\ todo' = todo \ {d}
           /\ phase' = IF todo' = {} THEN "valid" ELSE "devices"
  <2>1. /\ DOMAIN config'.devices = DOMAIN config.devices
        /\ config'.devices[d] = Inherit(config.devices[d])
        /\ \A e \in DOMAIN config.devices : e # d => config'.devices[e] = config.devices[e]
    BY <1>2, <1>4 DEF IsFile
  <2>2. ASSUME NEW e \in todo, e # d
        PROVE  Fits(e)' <=> Fits(e) /\ OwnIDs(d, e)
    <3>1. config'.devices[e] = config.devices[e] /\ HADeviceID(e)' = HADeviceID(e)
      BY <1>2, <2>1, <2>2 DEF HADeviceID
    <3> QED
      BY <1>4, <2>2, <3>1 DEF Fits, OwnIDs
  <2>3. ASSUME NEW e \in todo, NEW f \in todo, e # d, f # d
        PROVE  OwnIDs(e, f)' <=> OwnIDs(e, f)
    <3>1. config'.devices[e] = config.devices[e] /\ HADeviceID(e)' = HADeviceID(e)
      BY <1>2, <2>1, <2>3 DEF HADeviceID
    <3>2. config'.devices[f] = config.devices[f] /\ HADeviceID(f)' = HADeviceID(f)
      BY <1>2, <2>1, <2>3 DEF HADeviceID
    <3> QED
      BY <3>1, <3>2 DEF OwnIDs
  <2>4. \A e, f \in todo : OwnIDs(e, f) <=> OwnIDs(f, e)
    BY DEF OwnIDs
  <2>5. \A e \in todo : e \in todo' <=> e # d
    BY <1>4
  <2>6. todo' \subseteq todo /\ OwnIDs(d, d)
    BY <1>4 DEF OwnIDs
  <2>7. RestFits' <=> RestFits
    <3>1. ASSUME RestFits PROVE RestFits'
      <4>1. \A e \in todo' : Fits(e)'
        BY <1>1, <2>2, <2>5, <2>6, <3>1 DEF RestFits
      <4>2. \A e, f \in todo' : OwnIDs(e, f)'
        BY <2>3, <2>5, <2>6, <3>1 DEF RestFits
      <4> QED
        BY <4>1, <4>2 DEF RestFits
    <3>2. ASSUME RestFits' PROVE RestFits
      <4>1. ASSUME NEW e \in todo, e # d PROVE Fits(e) /\ OwnIDs(d, e)
        <5>1. Fits(e)'
          BY <2>5, <3>2, <4>1 DEF RestFits
        <5> QED
          BY <2>2, <4>1, <5>1
      <4>2. ASSUME NEW e \in todo, NEW f \in todo PROVE OwnIDs(e, f)
        <5>1. CASE e = d \/ f = d
          BY <1>1, <2>4, <2>6, <4>1, <5>1
        <5>2. CASE e # d /\ f # d
          <6>1. OwnIDs(e, f)'
            BY <2>5, <3>2, <5>2 DEF RestFits
          <6> QED
            BY <2>3, <5>2, <6>1
        <5> QED
          BY <5>1, <5>2
      <4>3. \A e \in todo : Fits(e)
        BY <1>4, <4>1
      <4> QED
        BY <4>2, <4>3 DEF RestFits
    <3> QED
      BY <3>1, <3>2
  <2>8. CASE phase' = "devices"
    BY <1>1, <2>7, <2>8 DEF VerdictSoFar, Registry
  <2>9. CASE phase' = "valid"
    <3>1. RestFits'
      BY <1>4, <2>9 DEF RestFits
    <3>2. DOMAIN config'.devices # {}
      BY <2>1
    <3> QED
      BY <1>1, <2>7, <2>9, <3>1, <3>2 DEF VerdictSoFar, Registry
  <2> QED
    BY <1>4, <2>8, <2>9
<1> QED
  BY <1>3, <1>4 DEF ValidateDevice, Fits

LEMMA LaterVerdict ==
  IInv /\ VerdictSoFar /\ UNCHANGED sound
    /\ (Convert \/ RegisterStrategies \/ PublishDiscovery
          \/ \E d \in DOMAIN config.devices : RegisterDevice(d))
    => VerdictSoFar'
<1> SUFFICES ASSUME IInv, VerdictSoFar, UNCHANGED sound PROVE
      Convert \/ RegisterStrategies \/ PublishDiscovery
        \/ (\E d \in DOMAIN config.devices : RegisterDevice(d)) => VerdictSoFar'
  OBVIOUS
<1>1. CASE Convert
  <2>1. phase = "valid" /\ phase' = "accepted" /\ config'.devices = config.devices
    <3>1. IsFile(config)
      BY DEF IInv, TypeInv
    <3>2. PICK groups, registers :
             config' = [config EXCEPT !.groups = groups, !.registers = registers]
      BY <1>1 DEF Convert
    <3>3. config'.devices = config.devices
      BY <3>1, <3>2 DEF IsFile
    <3> QED
      BY <1>1, <3>3 DEF Convert
  <2> QED
    BY <2>1 DEF VerdictSoFar, Registry
<1>2. CASE RegisterStrategies
  <2>1. /\ phase = "accepted" /\ UNCHANGED config
        /\ phase' = IF DOMAIN config.devices = {} THEN "not supported" ELSE "registering"
    BY <1>2 DEF RegisterStrategies
  <2> QED
    BY <2>1 DEF VerdictSoFar, Registry
<1>3. CASE PublishDiscovery
  BY <1>3 DEF PublishDiscovery, VerdictSoFar, Registry
<1>4. CASE \E d \in DOMAIN config.devices : RegisterDevice(d)
  <2>1. phase = "registering" /\ phase' = "registering"
    BY <1>4 DEF RegisterDevice
  <2> QED
    BY <2>1 DEF VerdictSoFar, Registry
<1> QED
  BY <1>1, <1>2, <1>3, <1>4

LEMMA StutterVerdict == VerdictSoFar /\ UNCHANGED vars => VerdictSoFar'
<1> SUFFICES ASSUME VerdictSoFar, UNCHANGED vars PROVE VerdictSoFar'
  OBVIOUS
<1> USE DEF vars
<1>1. \A d : HADeviceID(d)' = HADeviceID(d)
  BY DEF HADeviceID
<1>2. DevicesWellFormed' <=> DevicesWellFormed
  BY DEF DevicesWellFormed, AllDifferent, HADeviceID
<1>3. FlatFileAccepted' <=> FlatFileAccepted
  BY DEF FlatFileAccepted
<1>4. WellConfigured' <=> WellConfigured
  BY <1>2, <1>3 DEF WellConfigured
<1>5. LoadedWell' <=> LoadedWell
  BY <1>2, <1>3 DEF LoadedWell
<1>6. RestFits' <=> RestFits
  BY <1>1 DEF RestFits, Fits, OwnIDs
<1> QED
  BY <1>4, <1>5, <1>6 DEF VerdictSoFar

LEMMA NextVerdict == IInv /\ VerdictSoFar /\ [Next]_vars => VerdictSoFar'
BY LoadVerdict, ValidateVerdict, ValidateDeviceVerdict, LaterVerdict, StutterVerdict
   DEF Next, history

LEMMA VerdictRight == VerdictSoFar => OneVerdict
BY DEF VerdictSoFar, OneVerdict, Registry

(* A file gets one verdict, in whatever order its devices are looked at,    *)
(* and it is the one the documentation asks for: LoadConfig and             *)
(* registerStrategies let a file through that is well configured, and no    *)
(* other.                                                                   *)
THEOREM VerdictGiven == Spec => []OneVerdict
BY Invariance, InitVerdict, NextVerdict, VerdictRight, PTL DEF Spec

=============================================================================
