---------------------------- MODULE BridgeConfig ----------------------------
(* From the configuration file to a bridge that polls: LoadConfig and its   *)
(* defaults and validation (pkg/config), RegisterFromDevices of the         *)
(* strategy executor (pkg/modbus), and the discovery messages of main.go.   *)
(* The maps of the configuration are ranged over in any order; every step   *)
(* below takes one entry that is left.                                      *)
(*                                                                          *)
(* A key is the sequence of the words that "_" joins: deviceKey_groupKey is *)
(* the concatenation, so different pairs may give one and the same key, as  *)
(* they do in the program.  The empty key is <<>>.                          *)
EXTENDS Integers, Sequences, SequencesExt, FiniteSetsExt

CONSTANTS
    Files,          \* the contents a configuration file may have
    MaxAddress,     \* 0xFFFF in the code
    MaxSlave,       \* 247 in the code
    MaxPollInterval,\* 300000 ms in the code
    DefaultCalcInterval, \* 1000 ms in the code: of calculated values
    MaxPort         \* 65535 in the code

(* What a file says of its devices has these types; its other parts are     *)
(* only looked at by the validation.                                        *)
Names == Seq(STRING)

IsMap(map) == IsFiniteSet(DOMAIN map) /\ DOMAIN map \subseteq Names

RegisterGroup ==
    [slave : Nat, code : Nat, start : Nat, count : Nat, interval : Int,
     enabled : BOOLEAN, registers : Seq([key : Names, offset : Int])]

IsDevice(device) ==
    /\ DOMAIN device = {"named", "slave", "haDeviceID", "enabled", "groups", "calcs"}
    /\ device.named \in BOOLEAN /\ device.enabled \in BOOLEAN
    /\ device.slave \in Nat /\ device.haDeviceID \in Names
    /\ IsMap(device.groups)
    /\ \A n \in DOMAIN device.groups : device.groups[n] \in RegisterGroup
    /\ device.calcs \in Seq([key : Names, variables : SUBSET Names])

IsFile(file) ==
    /\ DOMAIN file = {"version", "devices", "groups", "calculated", "registers",
                      "mqtt", "modbus", "app", "diag"}
    /\ IsMap(file.devices)
    /\ \A d \in DOMAIN file.devices : IsDevice(file.devices[d])

ASSUME FilesAssumption ==
    /\ \A file \in Files : IsFile(file)
    /\ MaxAddress \in Nat /\ MaxSlave \in Nat /\ MaxPollInterval \in Nat
    /\ DefaultCalcInterval \in Nat /\ MaxPort \in Nat

VARIABLES
    config,       \* the configuration: the file's, then with its defaults
    phase,        \* how far start-up has come
    todo,         \* the device keys the loop at hand has not reached
    usedSlaveIDs, usedHADeviceIDs,  \* the two maps of ValidateDevices
    groupStrategies, calcStrategies, groupIntervals, \* StrategyExecutor's
    discovered,   \* the sensors announced to Home Assistant
    ownRegisters, \* history: the file has flat registers of its own
    sound         \* history: the file is as the documentation wants it

vars == <<config, phase, todo, usedSlaveIDs, usedHADeviceIDs,
          groupStrategies, calcStrategies, groupIntervals, discovered,
          ownRegisters, sound>>

executor == <<groupStrategies, calcStrategies, groupIntervals>>
used     == <<usedSlaveIDs, usedHADeviceIDs>>
history  == <<ownRegisters, sound>>

---------------------------------------------------------------------------
(* Defaults: a zero is a setting the file does not have.                    *)
AppDefaults ==
    [performanceSummaryInterval |-> 30, errorGracePeriod |-> 15,
     maxPublishInterval |-> 300, healthCheckPort |-> 8080]

DiagDefaults ==
    [operational |-> 60, warning |-> 30, error |-> 5, offline |-> 60,
     warningSuccessRate |-> 90, errorSuccessRate |-> 80,
     warningConsecutiveErrors |-> 3, errorConsecutiveErrors |-> 5, offlineTimeout |-> 30]

WithDefaults(settings, defaults) ==
    [f \in DOMAIN settings |-> IF f \in DOMAIN defaults /\ settings[f] = 0
                               THEN defaults[f] ELSE settings[f]]

ApplyApplicationDefaults(app) == WithDefaults(app, AppDefaults)

ApplyDeviceDiagnosticsDefaults(dd) ==
    LET enabled == dd.enabled \/ (~dd.publishOnStateChange /\ dd.levels.operational = 0)
    IN  [enabled |-> enabled,
         publishOnStateChange |-> dd.publishOnStateChange \/ enabled,
         levels |-> WithDefaults(dd.levels, DiagDefaults)]

(* validateApplicationConfig: the enabled ports are ports, all different,   *)
(* and no interval is negative                                              *)
ValidApplication(app, mqttPort) ==
    /\ {app.healthCheckPort, app.metricsPort} \subseteq 0..MaxPort
    /\ app.healthCheckPort > 0 => app.healthCheckPort \notin {app.metricsPort, mqttPort}
    /\ app.metricsPort > 0 => app.metricsPort # mqttPort
    /\ app.performanceSummaryInterval >= 0
    /\ app.errorGracePeriod >= 0
    /\ app.maxPublishInterval >= 0

(* the part of Validate that is common to all versions                      *)
ValidCommon(c) ==
    /\ c.mqtt.broker /\ c.mqtt.mac
    /\ c.mqtt.port \in 1..MaxPort
    /\ c.modbus.pollInterval > 0
    /\ c.modbus.registerDelay >= 0
    /\ c.modbus.energyDelay >= 0
    /\ ValidApplication(c.app, c.mqtt.port)

---------------------------------------------------------------------------
(* mutant: a register takes two bytes                                       *)
MutantValidGroup(g) ==
    /\ g.slave # 0 /\ g.code # 0 /\ g.count # 0
    /\ g.registers # <<>>
    /\ g.interval \in 1..MaxPollInterval
    /\ \A i \in DOMAIN g.registers :
          g.registers[i].offset >= 0 /\ g.registers[i].offset + 2 <= 2 * g.count

(* RegisterGroup.Validate                                                   *)
ValidGroup(g) ==
    /\ g.slave # 0 /\ g.code # 0 /\ g.count # 0
    /\ g.registers # <<>>
    /\ g.interval \in 1..MaxPollInterval
    /\ \A i \in DOMAIN g.registers :
          g.registers[i].offset >= 0 /\ g.registers[i].offset + 4 <= 2 * g.count

KeysOf(g) == {g.registers[i].key : i \in DOMAIN g.registers}

(* ValidateGroups, of the flat groups of version 2.0                        *)
ValidateGroups(groups, calculated) ==
    /\ DOMAIN groups # {}
    /\ \A n \in DOMAIN groups : ValidGroup(groups[n])
    /\ \A c \in DOMAIN calculated :
          calculated[c] \subseteq UNION {KeysOf(groups[n]) : n \in DOMAIN groups}

(* Device.Validate gives a group without slave_id its device's, in place    *)
Inherit(device) ==
    [device EXCEPT !.groups = [n \in DOMAIN @ |->
        IF @[n].slave = 0 THEN [@[n] EXCEPT !.slave = device.slave] ELSE @[n]]]

RegisterKeys(device) == UNION {KeysOf(device.groups[n]) : n \in DOMAIN device.groups}

(* Keys are unique among registers and calculated values, and a formula     *)
(* names registers, or calculated values listed before it.                  *)
UniqueKeys(device) ==
    /\ \A m, n \in DOMAIN device.groups :
          \A i \in DOMAIN device.groups[m].registers, j \in DOMAIN device.groups[n].registers :
             device.groups[m].registers[i].key = device.groups[n].registers[j].key
               => m = n /\ i = j
    /\ \A i \in DOMAIN device.calcs :
          /\ device.calcs[i].key \notin RegisterKeys(device)
          /\ \A j \in 1..i - 1 : device.calcs[j].key # device.calcs[i].key

KnownTo(device, i) == RegisterKeys(device) \cup {device.calcs[j].key : j \in 1..i - 1}

(* Device.Validate; formulas are those ValidateFormula lets through, given  *)
(* by the variables it finds in them ({} is the formula it refuses)         *)
ValidDevice(device) ==
    /\ device.named
    /\ device.slave \in 1..MaxSlave
    /\ DOMAIN device.groups # {}
    /\ \A n \in DOMAIN device.groups : ValidGroup(Inherit(device).groups[n])
    /\ <<>> \notin RegisterKeys(device)
    /\ UniqueKeys(device)
    /\ \A i \in DOMAIN device.calcs :
          /\ device.calcs[i].key # <<>>
          /\ device.calcs[i].variables # {}
          /\ device.calcs[i].variables \subseteq KnownTo(device, i)

HADeviceID(d) == IF config.devices[d].haDeviceID # <<>> THEN config.devices[d].haDeviceID ELSE d

Enabled == {d \in DOMAIN config.devices : config.devices[d].enabled}

(* Validate without devices.  Any version but 2.0 and 2.1 is taken for      *)
(* version 1.                                                               *)
FlatFileAccepted ==
    CASE config.version \in {"2.0", "2.1"} -> ValidateGroups(config.groups, config.calculated)
      [] OTHER -> /\ config.modbus.slave # 0
                  /\ DOMAIN config.registers # {}
                  /\ \A k \in DOMAIN config.registers :
                        config.registers[k].named /\ config.registers[k].topic # <<>>

---------------------------------------------------------------------------
(* A configuration as the documentation wants it: docs/VALIDATION.md        *)
SensorKeys(device) == RegisterKeys(device) \cup {device.calcs[i].key : i \in DOMAIN device.calcs}

Sensors(device) ==
    {<<"calculated", <<>>, i>> : i \in DOMAIN device.calcs}
      \cup UNION {{<<"register", n, i>> : i \in DOMAIN device.groups[n].registers}
                   : n \in DOMAIN device.groups}

WellFormed(device) ==
    /\ device.named /\ device.slave \in 1..MaxSlave /\ DOMAIN device.groups # {}
    /\ \A n \in DOMAIN device.groups : ValidGroup(Inherit(device).groups[n])
    /\ <<>> \notin SensorKeys(device)
    /\ Cardinality(SensorKeys(device)) = Cardinality(Sensors(device))
    /\ \A i \in DOMAIN device.calcs :
          /\ device.calcs[i].variables # {}
          /\ device.calcs[i].variables
               \subseteq SensorKeys([device EXCEPT !.calcs = SubSeq(@, 1, i - 1)])

AllDifferent(f) == \A d, e \in DOMAIN f : f[d] = f[e] => d = e

DevicesWellFormed ==
    /\ AllDifferent([d \in DOMAIN config.devices |-> config.devices[d].slave])
    /\ AllDifferent([d \in DOMAIN config.devices |-> HADeviceID(d)])
    /\ \A d \in DOMAIN config.devices : d # <<>> /\ WellFormed(config.devices[d])

WellConfigured ==
    /\ ValidCommon([config EXCEPT !.app = ApplyApplicationDefaults(@)])
    /\ DOMAIN config.devices # {}
    /\ IF config.version = "2.1" THEN DevicesWellFormed ELSE FlatFileAccepted

---------------------------------------------------------------------------
(* Entries set in a map replace those it has under their keys               *)
Over(new, old) ==
    [k \in DOMAIN new \cup DOMAIN old |-> IF k \in DOMAIN new THEN new[k] ELSE old[k]]

(* What loops over maps in any order make of several maps: an entry of a    *)
(* later one replaces that of an earlier one.                               *)
Merges(maps) ==
    {FoldLeft(LAMBDA acc, m : Over(m, acc), <<>>, order) : order \in SetToSeqs(maps)}

(* The registers of a group whose address does not overflow: the key and    *)
(* the topic they get depend on who asks                                    *)
Readable(g) == {i \in DOMAIN g.registers : g.start + (g.registers[i].offset \div 2) <= MaxAddress}
Address(g, i) == g.start + (g.registers[i].offset \div 2)

RegisterMap(g, prefix, topics) ==
    [k \in {prefix \o g.registers[i].key : i \in Readable(g)} |->
        LET i == Max({i \in Readable(g) : prefix \o g.registers[i].key = k})
        IN  [address |-> Address(g, i), topic |-> topics[g.registers[i].key]]]

TopicsOf(owner, g) == [k \in KeysOf(g) |-> <<owner, k>>]
NoTopics(g)        == [k \in KeysOf(g) |-> <<>>]

ConvertDevicesToGroups ==
    Merges({[k \in {d \o n : n \in DOMAIN config.devices[d].groups} |->
                config.devices[d].groups[SubSeq(k, Len(d) + 1, Len(k))]] : d \in Enabled})

ConvertGroupsToRegisters(groups) ==
    Merges({RegisterMap(groups[n], <<>>, NoTopics(groups[n])) : n \in DOMAIN groups})

(* the calculated value of a device that ends up under a key                *)
CalcKeys(d) == {d \o config.devices[d].calcs[i].key : i \in DOMAIN config.devices[d].calcs}
CalcAt(d, k) == LET calcs == config.devices[d].calcs
                IN  calcs[Max({i \in DOMAIN calcs : d \o calcs[i].key = k})]

(* The registers of a device's groups, and then its calculated values, with *)
(* no address of their own, over them                                       *)
GroupRegisters(d) ==
    [n \in DOMAIN config.devices[d].groups |->
        LET g == config.devices[d].groups[n]
        IN  RegisterMap(g, d, TopicsOf(HADeviceID(d), g))]

CalcRegisters(d) ==
    [k \in CalcKeys(d) |-> [address |-> 0, topic |-> <<HADeviceID(d), CalcAt(d, k).key>>]]

DeviceRegisters(d) ==
    Over(CalcRegisters(d),
         FoldSet(LAMBDA n, acc : Over(GroupRegisters(d)[n], acc), <<>>,
                 DOMAIN config.devices[d].groups))

GetAllRegistersFromDevices == Merges({DeviceRegisters(d) : d \in Enabled})

---------------------------------------------------------------------------
Init ==
    /\ config \in Files
    /\ phase = "file"
    /\ todo = {} /\ usedSlaveIDs = {} /\ usedHADeviceIDs = {}
    /\ groupStrategies = <<>> /\ calcStrategies = <<>> /\ groupIntervals = <<>>
    /\ discovered = {}
    /\ ownRegisters = (DOMAIN config.registers # {})
    /\ sound = WellConfigured

(* LoadConfig, up to Validate.  Only a file of version 2.0 is asked whether *)
(* its version is supported, and it is.                                     *)
LoadConfig ==
    /\ phase = "file"
    /\ config' = [config EXCEPT !.app  = ApplyApplicationDefaults(@),
                                !.diag = ApplyDeviceDiagnosticsDefaults(@)]
    /\ phase' = "loaded"
    /\ UNCHANGED <<todo, used, executor, discovered>>

(* Validate, up to the loop over the devices: what is common, then by       *)
(* version.                                                                 *)
Validate ==
    /\ phase = "loaded"
    /\ phase' = IF ~ValidCommon(config) THEN "refused"
                ELSE IF config.version = "2.1" /\ DOMAIN config.devices # {} THEN "devices"
                ELSE IF FlatFileAccepted THEN "valid" ELSE "refused"
    /\ todo' = IF phase' = "devices" THEN DOMAIN config.devices ELSE {}
    /\ UNCHANGED <<config, used, executor, discovered>>

(* mutant: only an explicit device_id is remembered                         *)
MutantValidateDevice(d) ==
    /\ phase = "devices" /\ d \in todo
    /\ IF /\ d # <<>> /\ ValidDevice(config.devices[d])
          /\ config.devices[d].slave \notin usedSlaveIDs
          /\ HADeviceID(d) \notin usedHADeviceIDs
       THEN /\ config' = [config EXCEPT !.devices[d] = Inherit(@)]
            /\ usedSlaveIDs' = usedSlaveIDs \cup {config.devices[d].slave}
            /\ usedHADeviceIDs' = usedHADeviceIDs \cup {config.devices[d].haDeviceID}
            /\ todo' = todo \ {d}
            /\ phase' = IF todo' = {} THEN "valid" ELSE "devices"
       ELSE /\ phase' = "refused"
            /\ todo' = {}
            /\ UNCHANGED <<config, used>>
    /\ UNCHANGED <<executor, discovered>>

(* One turn of ValidateDevices                                              *)
ValidateDevice(d) ==
    /\ phase = "devices" /\ d \in todo
    /\ IF /\ d # <<>> /\ ValidDevice(config.devices[d])
          /\ config.devices[d].slave \notin usedSlaveIDs
          /\ HADeviceID(d) \notin usedHADeviceIDs
       THEN /\ config' = [config EXCEPT !.devices[d] = Inherit(@)]
            /\ usedSlaveIDs' = usedSlaveIDs \cup {config.devices[d].slave}
            /\ usedHADeviceIDs' = usedHADeviceIDs \cup {HADeviceID(d)}
            /\ todo' = todo \ {d}
            /\ phase' = IF todo' = {} THEN "valid" ELSE "devices"
       ELSE /\ phase' = "refused"
            /\ todo' = {}
            /\ UNCHANGED <<config, used>>
    /\ UNCHANGED <<executor, discovered>>

(* the rest of Validate: the flat maps that are empty are filled            *)
Convert ==
    LET ofDevices == config.version = "2.1" /\ DOMAIN config.devices # {}
    IN  /\ phase = "valid"
        /\ \E groups \in IF ofDevices /\ DOMAIN config.groups = {}
                         THEN ConvertDevicesToGroups ELSE {config.groups} :
           \E registers \in IF DOMAIN config.registers # {} THEN {config.registers}
                            ELSE IF ofDevices THEN GetAllRegistersFromDevices
                            ELSE ConvertGroupsToRegisters(groups) :
              config' = [config EXCEPT !.groups = groups, !.registers = registers]
        /\ phase' = "accepted"
        /\ UNCHANGED <<todo, used, executor, discovered>>

(* registerStrategies of main.go: without devices there is no bridge        *)
RegisterStrategies ==
    /\ phase = "accepted"
    /\ phase' = IF DOMAIN config.devices = {} THEN "not supported" ELSE "registering"
    /\ todo' = Enabled
    /\ UNCHANGED <<config, used, executor, discovered>>

(* The strategy of a group reads the device's slave, whatever slave_id the  *)
(* group has; its topics are by device key, whatever device_id is set       *)
GroupStrategy(d, n) ==
    LET g == config.devices[d].groups[n]
    IN  [slave |-> config.devices[d].slave, code |-> g.code, start |-> g.start,
         count |-> g.count, registers |-> RegisterMap(g, d, TopicsOf(d, g))]

(* mutant: the device prefix is forgotten                                   *)
MutantCalcStrategy(d, k) ==
    [inputs |-> CalcAt(d, k).variables, topic |-> <<d, CalcAt(d, k).key>>]

(* The strategy of a calculated value looks its inputs up by device key     *)
CalcStrategy(d, k) ==
    [inputs |-> {d \o v : v \in CalcAt(d, k).variables}, topic |-> <<d, CalcAt(d, k).key>>]

(* Calculated values run as often as the fastest group, disabled ones       *)
(* included, and at least once a second                                     *)
FastestInterval(device) ==
    LET intervals == {DefaultCalcInterval} \cup {device.groups[n].interval : n \in DOMAIN device.groups}
    IN  Min(intervals)

EnabledGroups(device) == {n \in DOMAIN device.groups : device.groups[n].enabled}

(* One turn of RegisterFromDevices: its groups, then its calculated values; *)
(* a later entry replaces an earlier one of the same key                    *)
RegisterDevice(d) ==
    LET device == config.devices[d]
        keys   == {d \o n : n \in EnabledGroups(device)}
        Name(k) == SubSeq(k, Len(d) + 1, Len(k))
    IN  /\ phase = "registering" /\ d \in todo
        /\ groupStrategies' = Over([k \in keys |-> GroupStrategy(d, Name(k))], groupStrategies)
        /\ calcStrategies'  = Over([k \in CalcKeys(d) |-> CalcStrategy(d, k)], calcStrategies)
        /\ groupIntervals'  = Over([k \in CalcKeys(d) |-> FastestInterval(device)],
                                   Over([k \in keys |-> device.groups[Name(k)].interval],
                                        groupIntervals))
        /\ todo' = todo \ {d}
        /\ UNCHANGED <<config, phase, used, discovered>>

(* publishDiscoveryConfigsV21: every register and calculated value of every *)
(* enabled device, under the device's Home Assistant id                     *)
(* mutant: calculated values are not announced                              *)
MutantPublishDiscovery ==
    /\ phase = "registering" /\ todo = {}
    /\ discovered' = UNION {{<<HADeviceID(d), k>> : k \in RegisterKeys(config.devices[d])} : d \in Enabled}
    /\ phase' = "running"
    /\ UNCHANGED <<config, todo, used, executor>>

PublishDiscovery ==
    /\ phase = "registering" /\ todo = {}
    /\ discovered' = UNION {{<<HADeviceID(d), k>> : k \in SensorKeys(config.devices[d])} : d \in Enabled}
    /\ phase' = "running"
    /\ UNCHANGED <<config, todo, used, executor>>

Next == /\ \/ LoadConfig \/ Validate
           \/ \E d \in DOMAIN config.devices : ValidateDevice(d) \/ RegisterDevice(d)
           \/ Convert \/ RegisterStrategies \/ PublishDiscovery
        /\ UNCHANGED history

Spec == Init /\ [][Next]_vars

---------------------------------------------------------------------------
(* Keys that two entries of the devices' groups and calculated values, or   *)
(* two of their sensors, share once they are joined                         *)
Contested(k) ==
    \/ Cardinality({e \in Enabled \X {"group", "calc"} :
            k \in IF e[2] = "group" THEN {e[1] \o n : n \in EnabledGroups(config.devices[e[1]])}
                  ELSE CalcKeys(e[1])}) > 1
    \/ Cardinality({d \in Enabled : k \in {d \o key : key \in SensorKeys(config.devices[d])}}) > 1

(* Start-up gives one verdict, whatever the order in which the maps are     *)
(* ranged over: only a well configured bridge gets to polling, and only one *)
(* that is not is refused.  Only a file of version 2.1 has its devices      *)
(* looked at; those of any other file run as they are.                      *)
OneVerdict ==
    /\ phase = "running" => sound
    /\ phase \in {"refused", "not supported"} => ~sound

(* Once the bridge runs, every enabled group of every enabled device is     *)
(* polled: at its own interval, at its device's slave, for registers that   *)
(* lie within what is read and that have the address the flat view of the   *)
(* configuration gives them, if it is made from the devices; and every      *)
(* calculated value is computed at least as often as any group of its       *)
(* device is read.  None of it depends on the order of registration, unless *)
(* two entries have the same joined key.                                    *)
PolledAsConfigured ==
    phase = "running" /\ config.version = "2.1" =>
      \A d \in Enabled :
        /\ \A n \in EnabledGroups(config.devices[d]) : ~Contested(d \o n) =>
             LET g == config.devices[d].groups[n]  s == groupStrategies[d \o n] IN
             /\ groupIntervals[d \o n] = g.interval
             /\ s.slave \in usedSlaveIDs /\ (s.slave = g.slave \/ g.slave # config.devices[d].slave)
             /\ \A k \in DOMAIN s.registers :
                  /\ s.registers[k].address \in s.start .. s.start + s.count - 2
                  /\ ~ownRegisters =>
                       /\ k \in DOMAIN config.registers
                       /\ Contested(k) \/ config.registers[k].address = s.registers[k].address
        /\ \A k \in CalcKeys(d) : ~Contested(k) =>
             /\ k \in DOMAIN calcStrategies /\ k \notin DOMAIN groupStrategies
             /\ \A n \in EnabledGroups(config.devices[d]) :
                  Contested(d \o n) \/ groupIntervals[k] <= groupIntervals[d \o n]

(* What the running bridge reads and computes, and the topics it goes to    *)
Strategies == {groupStrategies[k] : k \in DOMAIN groupStrategies}
CalcsRun   == DOMAIN calcStrategies \ DOMAIN groupStrategies
Published  == (UNION {{s.registers[k].topic : k \in DOMAIN s.registers} : s \in Strategies})
                \cup {calcStrategies[k].topic : k \in CalcsRun}

(* Sensors of a device that its validation counts in but no strategy reads  *)
Unread(d) ==
    UNION {LET g == config.devices[d].groups[n]
           IN  IF ~g.enabled \/ Contested(d \o n) THEN KeysOf(g)
               ELSE {g.registers[i].key : i \in DOMAIN g.registers \ Readable(g)}
             : n \in DOMAIN config.devices[d].groups}

Writers(k) == {s \in Strategies : k \in DOMAIN s.registers}
                \cup {calcStrategies[c] : c \in CalcsRun \cap {k}}

(* A formula that passed validation finds each of its inputs among the      *)
(* values the running bridge caches, and written by one strategy only,      *)
(* unless the input is a register validation accepted and registration left *)
(* out, or another device's joined key is the same.                         *)
InputsAvailable ==
    phase = "running" /\ config.version = "2.1" =>
      \A d \in Enabled : \A k \in CalcKeys(d) \ {k \in CalcKeys(d) : Contested(k)} :
          \/ \A v \in calcStrategies[k].inputs : Cardinality(Writers(v)) = 1
          \/ \E v \in CalcAt(d, k).variables : v \in Unread(d) \/ Contested(d \o v)

(* The sensors Home Assistant is told of are those the bridge publishes:    *)
(* the state topic announced for a sensor is one some strategy publishes to *)
(* and the other way round, unless the device has a device_id of its own,   *)
(* or the sensor is never read.                                             *)
TopicsMatch ==
    phase = "running" /\ config.version = "2.1" =>
      \A d \in Enabled : HADeviceID(d) = d =>
        /\ \A k \in SensorKeys(config.devices[d]) :
             /\ <<d, k>> \in discovered
             /\ \/ <<d, k>> \in Published
                \/ k \in Unread(d)
                \/ d \o k \in CalcKeys(d) /\ Contested(d \o k)
        /\ \A t \in Published : t[1] = d => t \in discovered
============================================================================
