------------------------------ MODULE Settings ------------------------------
(***************************************************************************)
(* What a node is told before it starts: the builder, the checks of its    *)
(* settings in their order, the start of the node in its runtime           *)
(* (src/rateguard/src/config.rs, limit.rs), and what the core asserts of   *)
(* a configuration instead of refusing it (src/rateguard-core/src/         *)
(* limiter.rs, node.rs).  An option is an empty sequence or a sequence of  *)
(* one; a refusal is the name of the error, "" for none.                   *)
(***************************************************************************)
EXTENDS Quota, Sequences, FiniteSets

CONSTANT Ms     \* nanoseconds in a millisecond: 10^6, fewer in the runs

None == <<>>
Some(x) == <<x>>
Given(option, default) == IF option = None THEN default ELSE option[1]

Nanoseconds(d) == AtMost(d, MaxNanos)

\* The first refusal of a sequence of checks, "" when every check passes.
Refused(checks) ==
    LET failed == {i \in DOMAIN checks : checks[i] # ""}
    IN  IF failed = {} THEN "" ELSE checks[CHOOSE i \in failed : \A j \in failed : i <= j]

When(broken, error) == IF broken THEN error ELSE ""

----------------------------------------------------------------------------
\* Limits, as given: a count in a period, and a burst.
MaxBurst == 4194303
Seconds(period) == CASE period = "s" -> 1 [] period = "min" -> 60 [] period = "h" -> 3600

NewLimit(count, period) ==
    [count |-> count, period |-> period, burst |-> AtLeast(1, AtMost(count \div 20, MaxBurst))]

WithBurst(limit, burst) == [limit EXCEPT !.burst = AtLeast(burst, 1)]

\* Limit::to_core: its checks, and the rate as a fraction.
LimitRefusal(limit) ==
    Refused(<<When(limit.count = 0, "ZeroLimit"), When(limit.burst > MaxBurst, "TooLargeBurst")>>)

ToCore(limit) == [count |-> limit.count, seconds |-> Seconds(limit.period), burst |-> limit.burst]

\* limiter::Limit::validate, which asserts.
CoreLimitHolds(l) == l.count > 0 /\ l.seconds > 0 /\ l.burst \in 1..MaxBurst

----------------------------------------------------------------------------
\* A text that should name a socket: an IP address or the labels of a host,
\* each a word, digits, empty or with a character no label has, and a port.
Unspecified == "unspecified"
Text(ip, labels, port) == [ip |-> ip, labels |-> labels, port |-> port]

IsAddress(text) == text.ip # None /\ text.port # None
Socket(text) == [ip |-> text.ip[1], port |-> text.port[1]]

\* A trailing dot is allowed.
HostLabels(labels) ==
    IF labels # <<>> /\ labels[Len(labels)] = "empty" THEN SubSeq(labels, 1, Len(labels) - 1) ELSE labels

IsName(text) ==
    LET labels == HostLabels(text.labels)
    IN  /\ text.ip = None /\ text.port # None
        /\ labels # <<>>
        /\ \A i \in DOMAIN labels : labels[i] \in {"word", "digits"}
        /\ labels[Len(labels)] # "digits"

Name(text) == [host |-> text.labels, port |-> text.port[1]]

----------------------------------------------------------------------------
\* A builder with nothing set.
Builder ==
    [bind |-> None, advertise |-> None, seeds |-> <<>>, limit |-> None, burst |-> None,
     policy |-> None, quorumMemory |-> None, period |-> None, hotKeys |-> None,
     trackedKeys |-> None, dryRun |-> FALSE, classes |-> <<>>, maxClasses |-> None,
     maxKeyLimits |-> None, mostDenied |-> None, maxMembers |-> None,
     auth |-> "off", secrets |-> <<>>, salt |-> None]

\* The setters: the last call wins, classes pile up, and a burst is kept
\* apart from the limit it goes on top of.
Reaching(b, bind, advertise, seeds) ==
    [b EXCEPT !.bind = bind, !.advertise = advertise, !.seeds = seeds]
Limited(b, limit, burst) == [b EXCEPT !.limit = limit, !.burst = burst]
Paced(b, policy, memory, period, hot) ==
    [b EXCEPT !.policy = policy, !.quorumMemory = memory, !.period = period, !.hotKeys = hot]
DryRun(b, on) == [b EXCEPT !.dryRun = on]
InClass(b, name, limit) == [b EXCEPT !.classes = Append(@, <<name, limit>>)]
Capped(b, classes, keyLimits) == [b EXCEPT !.maxClasses = classes, !.maxKeyLimits = keyLimits]
Signed(b, mode, secrets) == [b EXCEPT !.auth = mode, !.secrets = secrets]
Salted(b, bytes) == [b EXCEPT !.salt = Some(bytes)]
Tracking(b, denied, members, tracked) ==
    [b EXCEPT !.mostDenied = denied, !.maxMembers = members, !.trackedKeys = tracked]

----------------------------------------------------------------------------
\* Builder::settings, by what is checked.
AddressRefusal(b) ==
    Refused(<<When(b.bind = None, "MissingBind"),
              When(b.bind # None /\ ~IsAddress(b.bind[1]), "BadAddress"),
              When(b.advertise # None /\ ~IsAddress(b.advertise[1]), "BadAddress"),
              When(b.advertise = None /\ b.bind # None /\ b.bind[1].ip = Some(Unspecified), "MissingAdvertise"),
              When(b.advertise # None /\ b.advertise[1].ip = Some(Unspecified), "UnspecifiedAdvertise"),
              When(b.bind # None /\ b.advertise # None
                     /\ Some(0) \in {b.advertise[1].port, b.bind[1].port}, "AdvertisePortZero")>>)

SeedList(b) == {b.seeds[i] : i \in DOMAIN b.seeds}

SeedRefusal(b) ==
    When(\E t \in SeedList(b) : ~IsAddress(t) /\ ~IsName(t), "BadSeed")

DefaultLimit(b) ==
    IF b.burst = None THEN b.limit[1] ELSE WithBurst(b.limit[1], b.burst[1])

DefaultRefusal(b) == IF b.limit = None THEN "MissingLimit" ELSE LimitRefusal(DefaultLimit(b))

MaxDemandKeys == 64
HotKeys(b) == Given(b.hotKeys, MaxDemandKeys)
TrackedKeys(b) == Given(b.trackedKeys, 4096)
MaxTrackedKeys == 1048576

KeyRefusal(b) ==
    Refused(<<When(HotKeys(b) \notin 1..MaxDemandKeys, "TooManyHotKeys"),
              When(TrackedKeys(b) < HotKeys(b), "TooFewTrackedKeys"),
              When(TrackedKeys(b) > MaxTrackedKeys, "TooManyTrackedKeys")>>)

\* classes::checked: a name given twice takes its last limit.
NamesUpTo(classes, i) == {classes[j][1] : j \in 1..i}

ClassesRefusal(classes, max) ==
    Refused([i \in DOMAIN classes |->
                Refused(<<When(classes[i][1] = "", "EmptyClassName"),
                          LimitRefusal(classes[i][2]),
                          When(Cardinality(NamesUpTo(classes, i)) > max, "TooManyClasses")>>)])

Checked(classes) ==
    [name \in NamesUpTo(classes, Len(classes)) |->
        classes[CHOOSE i \in DOMAIN classes :
                    /\ classes[i][1] = name
                    /\ \A j \in i + 1..Len(classes) : classes[j][1] # name][2]]

MaxClassesEver == 4096
MaxKeyLimitsEver == 1048576
MaxMostDenied == 1024
MaxMaxMembers == 65536

CapRefusal(b) ==
    LET classes == Given(b.maxClasses, 64)
    IN  Refused(<<When(classes > MaxClassesEver, "TooManyClasses"),
                  ClassesRefusal(b.classes, classes),
                  When(Given(b.maxKeyLimits, 4096) > MaxKeyLimitsEver, "TooLargeMaxKeyLimits"),
                  When(Given(b.mostDenied, 10) > MaxMostDenied, "TooManyMostDenied"),
                  When(Given(b.maxMembers, 8192) \notin 1..MaxMaxMembers, "TooLargeMaxMembers")>>)

ProtocolPeriod(b) == Nanoseconds(Given(b.period, 200 * Ms))
PeriodRefusal(b) == When(ProtocolPeriod(b) \div 4 = 0, "ZeroPeriod")

\* Auth::new: a mode that signs needs a secret, none keeps more than two.
SecretsRefusal(mode, secrets) ==
    Refused(<<When(Len(secrets) > 2, "TooManySecrets"),
              When(mode # "off" /\ secrets = <<>>, "NoSecrets")>>)

SaltRefusal(b) == When(b.salt # None /\ b.salt[1] < 16, "ShortSalt")

BuilderRefusal(b) ==
    Refused(<<AddressRefusal(b), SeedRefusal(b), DefaultRefusal(b), KeyRefusal(b), CapRefusal(b),
              PeriodRefusal(b), SecretsRefusal(b.auth, b.secrets), SaltRefusal(b)>>)

\* What a period longer than a default must outlast is stretched to it.
SwimOf(b) ==
    LET period == ProtocolPeriod(b)
    IN  [period |-> period, ackTimeout |-> period \div 2,
         suspicion |-> AtLeast(6000 * Ms, period), tombstone |-> AtLeast(600000 * Ms, period),
         reconnect |-> AtLeast(2000 * Ms, period)]

CorePolicy(b) ==
    LET policy == Given(b.policy, [of |-> "hold_down", hold |-> 10000 * Ms])
    IN  IF policy.of = "hold_down" THEN [policy EXCEPT !.hold = Nanoseconds(@)] ELSE policy

SettingsOf(b) ==
    [bind |-> Socket(b.bind[1]),
     advertise |-> Socket(Given(b.advertise, b.bind[1])),
     seeds |-> {Socket(t) : t \in {u \in SeedList(b) : IsAddress(u)}},
     names |-> {Name(t) : t \in {u \in SeedList(b) : IsName(u)}},
     limit |-> DefaultLimit(b), hotKeys |-> HotKeys(b), trackedKeys |-> TrackedKeys(b),
     swim |-> SwimOf(b), policy |-> CorePolicy(b),
     quorumMemory |-> Nanoseconds(Given(b.quorumMemory, 3600000 * Ms)),
     dryRun |-> b.dryRun, classes |-> Checked(b.classes),
     maxMembers |-> Given(b.maxMembers, 8192),
     auth |-> [mode |-> b.auth, secrets |-> IF b.auth = "off" THEN <<>> ELSE b.secrets]]

----------------------------------------------------------------------------
\* What the core asserts of all this.
ConfigHolds(s) ==
    /\ CoreLimitHolds(ToCore(s.limit))
    /\ s.hotKeys \in 1..MaxDemandKeys
    /\ s.trackedKeys >= s.hotKeys

SwimHolds(s) ==
    /\ s.swim.period > 0
    /\ s.swim.ackTimeout > 0 /\ s.swim.ackTimeout < s.swim.period
    /\ s.swim.suspicion >= s.swim.period
    /\ s.swim.reconnect >= s.swim.period
    /\ s.swim.tombstone >= s.swim.suspicion

----------------------------------------------------------------------------
\* Builder::spawn in a runtime that may lack any part of what it needs.
SpawnRefusal(b, host) ==
    Refused(<<BuilderRefusal(b), When(~host.runtime, "NoRuntime"), When(~host.timers, "NoTimer"),
              When(~host.bindable, "Bind"), When(~host.io, "NoIo")>>)

\* Advertising the bind address: the port the OS picked if it was 0.
Advertised(b, host) ==
    LET s == SettingsOf(b)
    IN  IF b.advertise = None /\ s.bind.port = 0 THEN [s.advertise EXCEPT !.port = host.port]
        ELSE s.advertise

Strictest(s) ==
    LET limits == {ToCore(s.limit)} \union {ToCore(s.classes[n]) : n \in DOMAIN s.classes}
        slower(l, m) == l.count * m.seconds <= m.count * l.seconds
        slowest == CHOOSE l \in limits : \A m \in limits : slower(l, m)
    IN  [slowest EXCEPT !.burst = CHOOSE n \in {l.burst : l \in limits} : \A l \in limits : n <= l.burst]

\* start(): the node as it begins.  One seed list for the whole fleet names
\* the seeds themselves too.
Started(b, host) ==
    LET s == SettingsOf(b)
        me == Advertised(b, host)
    IN  [me |-> me, seeds |-> s.seeds \ {me}, expects |-> s.names # {}, resolves |-> s.names # {},
         swim |-> s.swim, policy |-> s.policy, free |-> Strictest(s), ticks |-> s.swim.period \div 4,
         dryRun |-> s.dryRun, auth |-> s.auth]
=============================================================================
