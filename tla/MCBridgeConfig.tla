---------------------------- MODULE MCBridgeConfig ----------------------------
(* One or two devices, each sound or with one of the mistakes validation is *)
(* about, in files of every version.                                        *)
EXTENDS BridgeConfig

Reg(key, offset) == [key |-> key, offset |-> offset]
Group(interval, regs) == [slave |-> 0, code |-> 3, start |-> 0, count |-> 4,
                          interval |-> interval, enabled |-> TRUE, registers |-> regs]

Instant == Group(500, <<Reg(<<"u">>, 0), Reg(<<"p">>, 4)>>)
Energy  == Group(2000, <<Reg(<<"e">>, 0)>>)

TwoGroups(a, b) == <<"instant">> :> a @@ <<"energy">> :> b

GroupSets ==
    {TwoGroups(Instant, Energy),
     TwoGroups([Instant EXCEPT !.enabled = FALSE], Energy),
     TwoGroups([Instant EXCEPT !.start = MaxAddress - 1], Energy),
     TwoGroups(Instant, [Energy EXCEPT !.slave = 9]),
     TwoGroups(Instant, [Energy EXCEPT !.interval = 0]),
     TwoGroups(Instant, [Energy EXCEPT !.count = 1]),
     TwoGroups(Instant, Group(2000, <<Reg(<<"u">>, 0)>>)),
     <<"1", "energy">> :> Energy @@ <<"instant">> :> Instant,
     <<"energy">> :> Group(2000, <<Reg(<<"1", "e">>, 4)>>)}

Calc(key, variables) == [key |-> key, variables |-> variables]

CalcSets ==
    {<<>>,
     <<Calc(<<"q">>, {<<"p">>})>>,
     <<Calc(<<"q">>, {<<"e">>, <<"p">>}), Calc(<<"r">>, {<<"q">>})>>,
     <<Calc(<<"r">>, {<<"q">>}), Calc(<<"q">>, {<<"p">>})>>,
     <<Calc(<<"instant">>, {<<"e">>})>>,
     <<Calc(<<"e">>, {<<"u">>})>>,
     <<Calc(<<"q">>, {<<"1", "e">>})>>,
     <<Calc(<<"1", "q">>, {<<"e">>})>>,
     <<Calc(<<"q">>, {})>>}

Device(slave, haDeviceID, groups, calcs) ==
    [named |-> TRUE, slave |-> slave, haDeviceID |-> haDeviceID, enabled |-> TRUE,
     groups |-> groups, calcs |-> calcs]

First == {Device(1, <<>>, g, c) : g \in GroupSets, c \in CalcSets}

Sound(slave, haDeviceID) == Device(slave, haDeviceID, <<"energy">> :> Energy, <<>>)

Second == {Sound(2, <<>>), Sound(2, <<"other">>), Sound(1, <<>>), Sound(2, <<"meter">>),
           Sound(0, <<>>), Sound(248, <<>>),
           Device(2, <<>>, <<"energy">> :> [Energy EXCEPT !.interval = 200]
                             @@ <<"idle">> :> [Group(500, <<Reg(<<"z">>, 0)>>) EXCEPT !.enabled = FALSE],
                  <<Calc(<<"q">>, {<<"z">>})>>),
           [Sound(2, <<>>) EXCEPT !.enabled = FALSE], [Sound(2, <<>>) EXCEPT !.named = FALSE]}

Devices == {<<"meter">> :> a : a \in First}
             \cup {<<"meter">> :> a @@ <<"meter", "1">> :> b : a \in First, b \in Second}

File(version, devices) ==
    [version |-> version, devices |-> devices, groups |-> <<>>, calculated |-> <<>>,
     registers |-> <<>>,
     mqtt   |-> [broker |-> TRUE, mac |-> TRUE, port |-> 1883],
     modbus |-> [slave |-> 1, pollInterval |-> 1000, registerDelay |-> 0, energyDelay |-> 0],
     app    |-> [performanceSummaryInterval |-> 0, errorGracePeriod |-> 0,
                 maxPublishInterval |-> 0, healthCheckPort |-> 0, metricsPort |-> 0],
     diag   |-> [enabled |-> FALSE, publishOnStateChange |-> FALSE,
                 levels |-> [f \in DOMAIN DiagDefaults |-> 0]]]

Plain == File("2.1", <<"meter">> :> Sound(1, <<>>))

WrongCommon ==
    {[Plain EXCEPT !.mqtt.broker = FALSE], [Plain EXCEPT !.mqtt.port = 0],
     [Plain EXCEPT !.mqtt.port = 8080], [Plain EXCEPT !.modbus.pollInterval = 0],
     [Plain EXCEPT !.app.metricsPort = 8080], [Plain EXCEPT !.app.errorGracePeriod = -1],
     [Plain EXCEPT !.devices = <<>> :> Sound(1, <<>>)],
     [Plain EXCEPT !.devices = <<"meter">> :> [Sound(1, <<>>) EXCEPT !.enabled = FALSE]]}

OwnView == [Plain EXCEPT !.registers = <<"e">> :> [address |-> 0, topic |-> <<"t">>, named |-> TRUE]]

Flat(version) ==
    {[File(version, devices) EXCEPT !.groups = groups, !.calculated = calculated,
                                    !.registers = registers]
       : devices \in {<<>>, <<"meter">> :> Sound(0, <<>>)},
         groups \in {<<>>, <<"a">> :> [Energy EXCEPT !.slave = 1],
                     <<"a">> :> [Energy EXCEPT !.slave = 1]
                       @@ <<"b">> :> [Energy EXCEPT !.slave = 1, !.start = 8]},
         calculated \in {<<>>, <<"c">> :> {<<"e">>}, <<"c">> :> {<<"x">>}},
         registers \in {<<>>, <<"e">> :> [address |-> 0, topic |-> <<"t">>, named |-> TRUE]}}

MCFiles == {File("2.1", d) : d \in Devices} \cup WrongCommon \cup {OwnView}
             \cup Flat("1.0") \cup Flat("2.0") \cup Flat("2.1")
============================================================================
