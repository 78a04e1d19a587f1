----------------------------- MODULE MCSidecar -----------------------------
(***************************************************************************)
(* The settings of a node and the requests of a sidecar over small sets of *)
(* inputs: a good builder with any two of its settings changed, every      *)
(* shape of a limit, a file of secrets, a JSON body.                       *)
(***************************************************************************)
EXTENDS Sidecar, TLC

At(ip, port) == Text(Some(ip), <<>>, Some(port))
Of(labels, port) == Text(None, labels, port)

Good == Limited(Reaching(Builder, Some(At("a", 1)), None, <<>>), Some(NewLimit(100, "s")), None)

\* Each setting and the values that matter for it.
Texts == {At("a", 0), At(Unspecified, 1), At("b", 1), Of(<<"word">>, Some(1)), Of(<<>>, None)}
SeedTexts ==
    {At("a", 1), At("b", 1), Of(<<"word", "digits", "word">>, Some(1)), Of(<<"word", "empty">>, Some(1)),
     Of(<<"digits", "digits", "digits", "digits">>, Some(1)), Of(<<"empty", "word">>, Some(1)),
     Of(<<"word", "odd">>, Some(1)), Of(<<"word">>, None), Of(<<"empty">>, Some(1))}
Around(max) == {Some(0), Some(1), Some(max), Some(max + 1)}
ClassLists ==
    {<< <<"gold", NewLimit(7, "min")>> >>, << <<"", NewLimit(7, "s")>> >>, << <<"gold", NewLimit(0, "s")>> >>,
     << <<"gold", NewLimit(9, "h")>>, <<"pro", WithBurst(NewLimit(5, "h"), 3)>>, <<"gold", NewLimit(8, "s")>> >>}

Values ==
    [bind |-> {None} \union {Some(t) : t \in Texts},
     advertise |-> {Some(t) : t \in Texts},
     seeds |-> {<<t>> : t \in SeedTexts} \union {<<At("b", 1), t>> : t \in SeedTexts},
     limit |-> {None} \union {Some(NewLimit(n, p)) : n \in {0, 1, 500000}, p \in {"s", "h"}}
                 \union {Some(WithBurst(NewLimit(1, "h"), MaxBurst + 1))},
     burst |-> {Some(n) : n \in {0, 5, MaxBurst + 1}},
     policy |-> {Some([of |-> "quorum"]), Some([of |-> "hold_down", hold |-> MaxNanos + 5])},
     quorumMemory |-> {Some(0), Some(MaxNanos + 5)},
     period |-> {Some(n) : n \in {0, 3, 4, 5, 2500 * Ms, 700000 * Ms, MaxNanos + 5}},
     hotKeys |-> Around(64), trackedKeys |-> Around(1048576) \union Around(63),
     dryRun |-> {TRUE}, classes |-> ClassLists,
     maxClasses |-> Around(4096), maxKeyLimits |-> Around(1048576),
     mostDenied |-> Around(1024), maxMembers |-> Around(65536),
     auth |-> {"transitional", "required"}, secrets |-> {<<"A">>, <<"A", "B">>, <<"A", "B", "C">>},
     salt |-> {Some(15), Some(16)}]

Changed(b) == UNION {{[b EXCEPT ![f] = v] : v \in Values[f]} : f \in DOMAIN Values}
Builders == UNION {Changed(b) : b \in Changed(Good)}

Machines == [runtime : BOOLEAN, timers : BOOLEAN, bindable : BOOLEAN, io : BOOLEAN, port : {7}]
GoodHost == [runtime |-> TRUE, timers |-> TRUE, bindable |-> TRUE, io |-> TRUE, port |-> 7]

\* Node::new and Config::validate assert what Builder::settings is to have
\* refused: whatever the settings, and whatever is stretched to the period, a
\* builder that is not refused makes a configuration the core takes, for
\* every class, and a ticker that ticks.
ASSUME CoreTakesWhatPasses ==
    \A b \in Builders :
        BuilderRefusal(b) = "" =>
            LET s == SettingsOf(b)
            IN  /\ ConfigHolds(s) /\ SwimHolds(s) /\ s.maxMembers >= 1
                /\ \A name \in DOMAIN s.classes : name # "" /\ CoreLimitHolds(ToCore(s.classes[name]))
                /\ Started(b, GoodHost).ticks > 0

\* A node that starts tells its peers an address they can reach, whichever of
\* bind and advertise was left out or had no port (config.rs, settings: "port
\* 0 on either side means nobody could reach the node"), does not count
\* itself among its seeds, and waits to join when a name is all it was given.
ASSUME StartsReachable ==
    \A b \in Builders :
        SpawnRefusal(b, GoodHost) = "" =>
            LET node == Started(b, GoodHost)
            IN  /\ node.me.ip # Unspecified /\ node.me.port # 0
                /\ node.me \notin node.seeds
                /\ node.expects <=> \E i \in DOMAIN b.seeds : IsName(b.seeds[i])

\* A mistyped address, 10.0.0.256, is no name: the node would wait for it for
\* good (config.rs, seed).
ASSUME MistypedIsNoName ==
    \A n \in 1..5 : ~IsName(Of([i \in 1..n |-> IF i = n THEN "digits" ELSE "word"], Some(1)))

\* A free slot is never looser than a class (classes.rs, strictest): neither
\* in its rate nor in its burst.
ASSUME FreeIsStrictest ==
    \A b \in Builders :
        BuilderRefusal(b) = "" =>
            LET s == SettingsOf(b)
                free == Strictest(s)
                limits == {s.limit} \union {s.classes[n] : n \in DOMAIN s.classes}
            IN  \A l \in limits :
                    /\ free.count * Seconds(l.period) <= l.count * free.seconds
                    /\ free.burst <= l.burst

\* Every error a setting can be refused with is met above, and a host that
\* lacks anything starts nothing.
ASSUME EveryRefusal ==
    /\ {"", "MissingBind", "BadAddress", "MissingAdvertise", "UnspecifiedAdvertise", "AdvertisePortZero",
        "BadSeed", "MissingLimit", "ZeroLimit", "TooLargeBurst", "TooManyHotKeys", "TooFewTrackedKeys",
        "TooManyTrackedKeys", "TooManyClasses", "EmptyClassName", "TooLargeMaxKeyLimits",
        "TooManyMostDenied", "TooLargeMaxMembers", "ZeroPeriod", "TooManySecrets", "NoSecrets",
        "ShortSalt"} = {BuilderRefusal(b) : b \in Builders}
    /\ \A h \in Machines : SpawnRefusal(Good, h) = "" <=> h = GoodHost

----------------------------------------------------------------------------
Parts == {Number(0), Number(5), Number(400), Word("s"), Word("min"), Word("h"), Word("d")}
LimitTexts == {<<p>> : p \in Parts} \union {<<p, q>> : p \in Parts, q \in Parts}
                \union {<<p, q, r>> : p \in Parts, q \in Parts, r \in Parts}

\* A limit in a flag: what the text says is what comes out, a unit after the
\* burst or a word for a number is refused.
ASSUME LimitTextsRead ==
    /\ LimitSpec(<<Number(5)>>)[1].limit = NewLimit(5, "s")
    /\ LimitSpec(<<Number(5), Number(400)>>)[1].limit = WithBurst(NewLimit(5, "s"), 400)
    /\ \A t \in LimitTexts :
        LimitSpec(t) # None <=>
            /\ IsNumber(t[1])
            /\ Len(t) = 2 => t[2] # Word("d")
            /\ Len(t) = 3 => t[2].word \in {"s", "min", "h"} /\ IsNumber(t[3])

Lines ==
    {Blank, Line("A", TRUE, 32, FALSE), Line("B", TRUE, 48, TRUE), Line("C", TRUE, 33, FALSE),
     Line("rest", TRUE, 4, FALSE), Line("junk", FALSE, 0, FALSE)}
Files == {NoFile} \union {File(l) : l \in UNION {[1..n -> Lines] : n \in 0..3}}
Modes == {"off", "transitional", "required"}

\* A file that passes holds at most two secrets, each long enough, and never
\* the first half of one openssl wrapped with its rest for a second
\* (secrets.rs, read_secrets).
ASSUME FilesRead ==
    \A f \in Files :
        FileRefusal(f) = "" =>
            /\ f.readable /\ Len(SecretsIn(f)) <= 2
            /\ \A i \in DOMAIN f.lines : ~f.lines[i].blank => f.lines[i].base64 /\ f.lines[i].bytes >= 32

\* The secrets in force after any two rereadings are those of the last file
\* that passed, and a mode that signs always has one (lib.rs,
\* reload_secrets).
ASSUME ReloadKeeps ==
    \A mode \in Modes, f \in Files :
        LET before == SetGossipAuth([mode |-> "off", secrets |-> <<>>], mode, <<"old">>)
            auth == Reloaded(before, mode, f)
        IN  /\ mode # "off" => auth.secrets # <<>>
            /\ auth \in {before, [mode |-> mode, secrets |-> SecretsIn(f)]}
            /\ Reloaded(auth, mode, NoFile) = auth

GoodArgs == [Flags(LimitSpec(<<Number(100)>>)[1]) EXCEPT !.advertise = Some(At("a", 1))]

ArgsSet ==
    {[GoodArgs EXCEPT !.limit = LimitSpec(t)[1], !.burst = b, !.secretFile = f, !.mode = m, !.saltFile = s] :
        t \in {<<Number(100)>>, <<Number(100), Number(5)>>, <<Number(0)>>}, b \in {None, Some(0), Some(9)},
        f \in {None} \union {Some(File(l)) : l \in UNION {[1..n -> Lines] : n \in 0..2}},
        m \in {None} \union {Some(m) : m \in Modes}, s \in {None, Some(15), Some(16)}}

\* What the flags' own checks let through the library never refuses for its
\* secrets or its salt (args.rs, builder: "The library would refuse it too,
\* but without naming the file"), the limit's own burst wins over the flag's,
\* and gossip is signed whenever there is no warning.
ASSUME FlagsCovered ==
    \A args \in ArgsSet :
        ArgsRefusal(args) = "" =>
            LET b == BuilderOf(args)
            IN  /\ BuilderRefusal(b) \notin {"TooManySecrets", "NoSecrets", "ShortSalt"}
                /\ DefaultLimit(b).burst =
                    IF args.limit.hasBurst \/ args.burst = None THEN args.limit.limit.burst
                    ELSE WithBurst(args.limit.limit, args.burst[1]).burst
                /\ ~Warned(args) <=> SetGossipAuth([mode |-> "off", secrets |-> <<>>], b.auth, b.secrets).secrets # <<>>

----------------------------------------------------------------------------
Scalars == {Null, Whole(0), Whole(60), Odd, Str("gold")}
ObjectsOver(names, vs) == UNION {{Object(f) : f \in [d -> vs]} : d \in SUBSET names}
JsonLimits == Scalars \union ObjectsOver({"per_second", "per_minute", "per_hour", "burst"}, Scalars)
SomeLimits == {Null, Odd, Object("per_second" :> Whole(60)),
               Object("per_hour" :> Whole(0)), Object(("per_minute" :> Whole(60)) @@ ("burst" :> Null))}

\* A limit reads back as it was given, whatever its period (lib.rs,
\* limit_to_json: "the inverse"), and one that is read is one the Guard
\* takes unless its burst is too large.
ASSUME LimitsReadBack ==
    /\ \A n \in {1, 60, 90000000}, p \in {"s", "min", "h"}, b \in {None, Some(1), Some(7)} :
        LET limit == IF b = None THEN NewLimit(n, p) ELSE WithBurst(NewLimit(n, p), b[1])
        IN  LimitFromJson(LimitToJson(limit)) = Some(limit)
    /\ \A v \in JsonLimits :
        LimitFromJson(v) # None => LimitRefusal(LimitFromJson(v)[1]) \in {"", "TooLargeBurst"}

\* A body changes everything it names or nothing: a PUT with one entry that
\* cannot be read asks nothing of the Guard, and one that asks names exactly
\* the classes it sent, a null shadow aside.
ASSUME AllOrNothing ==
    /\ \A v \in ObjectsOver({"", "gold", "pro"}, SomeLimits) :
        LET names == {n \in DOMAIN v.fields : v.fields[n].is # "null"}
            readable == \A n \in names : LimitFromJson(v.fields[n]) # None
        IN  /\ SetShadows(v) = IF readable THEN Call("set_shadows", Limits([n \in names |-> v.fields[n]])) ELSE None
            /\ SetClasses(v) # None <=> readable /\ names = DOMAIN v.fields
    /\ \A e \in ObjectsOver({"key", "class", "limit", "as_class"}, {Null, Str("gold")} \union SomeLimits) :
        SetKeyLimits(<<e>>) # None =>
            LET said == SetKeyLimits(<<e>>)[1].with[1]
            IN  /\ said.key = "gold" /\ said.class \in {"", "gold"}
                /\ said.entry.of = "limit" <=> Sent(e, "limit")
    /\ \A v \in ObjectsOver({"on"}, Scalars \union {Bool(TRUE), Bool(FALSE)}) :
        SetDryRun(v) # None => Status(SetDryRun(v), FALSE) = 204 /\ v.fields["on"] = Bool(SetDryRun(v)[1].with)
    /\ Status(None, FALSE) = 400

\* A client told to wait never comes back early, nor a whole millisecond late
\* (lib.rs, check).  One told by the tower layer comes back less than a
\* millisecond early, and no more than a second late, the least it can be
\* told (tower.rs, too_many_requests).
ASSUME NoEarlyRetry ==
    /\ \A nanos \in 0..20 * Ms :
        LET told == Answer([allowed |-> FALSE, retryAfter |-> nanos]).retry_after_ms * Ms
        IN  told >= nanos /\ told < nanos + Ms
    /\ \A nanos \in 0..2001 * Ms :
        LET told == TooManyRequests(nanos).retryAfter * 1000 * Ms
        IN  told > nanos - Ms /\ told <= nanos + 1000 * Ms

\* A request without a key, and one the guard allows, reaches the service; one
\* it denies does not, whatever the service would have said, and a key alone
\* is asked for in the default class (tower.rs, call).
ASSUME LayerAsks ==
    \A key \in {NoKey, InDefault("k"), InClassOf("gold", "k"), InClassOf("", "k")}, a \in BOOLEAN, b \in BOOLEAN :
        LET decisions == [asked \in {[class |-> "", key |-> "k"], [class |-> "gold", key |-> "k"]} |->
                            [allowed |-> IF asked.class = "" THEN a ELSE b, retryAfter |-> Ms]]
            answer == Layered(key, [status |-> 200], decisions)
            denied == \/ key \in {InDefault("k"), InClassOf("", "k")} /\ ~a
                      \/ key = InClassOf("gold", "k") /\ ~b
        IN  answer.status = 429 <=> denied

CheckTexts == UNION {[1..n -> {"a", "high", "low", "replacement"}] : n \in 0..2}
CheckValues == {Null, Whole(1)} \union {Str(t) : t \in CheckTexts}

\* A lone surrogate in a key or a class is never a 400, which a client would
\* take for an outage, and keys that differ only in their surrogates share a
\* limit; no answer, a 413 among them, is other than JSON (lib.rs, check,
\* json_413).
ASSUME ChecksRead ==
    /\ \A key \in CheckTexts, class \in CheckTexts :
        CheckOf(Object(("key" :> Str(key)) @@ ("class" :> Str(class)))) # None
    /\ \A v \in ObjectsOver({"key", "class"}, CheckValues), tooLarge \in BOOLEAN :
        LET response == CheckResponse(v, tooLarge)
        IN  /\ response.json
            /\ response.status = 200 =>
                \A i \in DOMAIN CheckOf(v)[1].key : CheckOf(v)[1].key[i] \notin LoneSurrogates
    /\ \A t \in CheckTexts, u \in CheckTexts :
        Lossy(t) = Lossy(u) <=>
            /\ Len(t) = Len(u)
            /\ \A i \in DOMAIN t : t[i] = u[i] \/ {t[i], u[i]} \subseteq LoneSurrogates \union {"replacement"}

\* Exactly the keys a check denied, or its shadow alone would have, are
\* remembered, the shadow's where they push out no real denial's name, and an
\* entry of /v1/stats is named when either table has it (lib.rs, check,
\* stats).
ASSUME DenialsNamed ==
    /\ \A d \in [allowed : BOOLEAN], s \in {None} \union {Some(x) : x \in [allowed : BOOLEAN]} :
        LET table == RecordedIn(d, s)
        IN  /\ table = "real" <=> ~d.allowed
            /\ table = "none" => s \in {None, Some([allowed |-> TRUE])}
    /\ \A real \in SUBSET {1, 2}, shadow \in SUBSET {1, 2} :
        NamedEntry(1, [h \in real |-> "r"], [h \in shadow |-> "s"]).name =
            IF 1 \in real THEN Some("r") ELSE IF 1 \in shadow THEN Some("s") ELSE None

\* Nothing that may face the pod's network checks, changes or names a key,
\* and without `admin` no route changes anything (lib.rs, public_app, app).
ASSUME PublicIsHarmless ==
    \A app \in [admin : BOOLEAN, metrics : BOOLEAN] :
        /\ PublicRoutes(app) \subseteq {Get("/healthz"), Get("/metrics")} \intersect Routes(app)
        /\ AdminRoutes \intersect Routes(app) # {} <=> app.admin
=============================================================================
