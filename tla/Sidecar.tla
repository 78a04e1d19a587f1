------------------------------ MODULE Sidecar ------------------------------
(***************************************************************************)
(* The sidecar around a Guard (src/rateguard-sidecar/src): its flags and   *)
(* the builder they make (args.rs), the file of gossip secrets and its     *)
(* rereading (secrets.rs), and what the routes of the HTTP API make of a   *)
(* body before the Guard is asked (lib.rs).  A text is its parts, a JSON   *)
(* value a record with its kind in `is`.                                   *)
(***************************************************************************)
EXTENDS Settings

----------------------------------------------------------------------------
\* A limit in a flag: rate[/unit][/burst], split at the slashes; a part is a
\* number or a word.
Number(n) == [number |-> Some(n), word |-> ""]
Word(w) == [number |-> None, word |-> w]
IsNumber(part) == part.number # None

\* The burst of a second part that is a number, as before units.
BurstPart(parts) ==
    IF Len(parts) = 2 /\ IsNumber(parts[2]) THEN Some(parts[2])
    ELSE IF Len(parts) = 3 THEN Some(parts[3]) ELSE None

UnitWord(parts) ==
    IF Len(parts) = 1 \/ (Len(parts) = 2 /\ IsNumber(parts[2])) THEN "s" ELSE parts[2].word

\* LimitSpec: an option of the limit and whether the text gave its burst.
LimitSpec(parts) ==
    LET burst == BurstPart(parts)
    IN  IF /\ Len(parts) \in 1..3 /\ IsNumber(parts[1])
           /\ UnitWord(parts) \in {"s", "min", "h"}
           /\ burst # None => IsNumber(burst[1])
        THEN LET limit == NewLimit(parts[1].number[1], UnitWord(parts))
             IN  Some([limit |-> IF burst = None THEN limit ELSE WithBurst(limit, burst[1].number[1]),
                       hasBurst |-> burst # None])
        ELSE None

ClassSpec(name, parts) ==
    IF name = "" \/ LimitSpec(parts) = None THEN None ELSE Some(<<name, LimitSpec(parts)[1].limit>>)

\* A duration has a unit.
DurationOf(n, unit) ==
    CASE unit = "ms" -> Some(n * Ms)
      [] unit = "s" -> Some(n * 1000 * Ms)
      [] unit = "m" -> Some(n * 60000 * Ms)
      [] OTHER -> None

PolicySpec(name, n, unit) ==
    CASE name \in {"optimistic", "quorum"} -> Some([of |-> name])
      [] name = "hold-down" /\ DurationOf(n, unit) # None ->
            Some([of |-> "hold_down", hold |-> DurationOf(n, unit)[1]])
      [] OTHER -> None

----------------------------------------------------------------------------
\* The file of secrets, line by line: blank, or a text that is base64 of so
\* many bytes or is not, and as long as openssl wraps at or not.
Line(text, base64, bytes, full) ==
    [blank |-> FALSE, text |-> text, base64 |-> base64, bytes |-> bytes, full |-> full]
Blank == [blank |-> TRUE]
File(lines) == [readable |-> TRUE, lines |-> lines]
NoFile == [readable |-> FALSE, lines |-> <<>>]

Short(line) == line.bytes < 32
Before(lines, i) == {j \in 1..i - 1 : ~lines[j].blank}
AfterFullLine(lines, i) ==
    \E j \in Before(lines, i) : lines[j].full /\ \A k \in Before(lines, i) : k <= j

LineRefusal(lines, i) ==
    IF lines[i].blank THEN ""
    ELSE Refused(<<When(~lines[i].base64, "NotBase64"),
                   When(AfterFullLine(lines, i)
                          /\ (Short(lines[i]) \/ Cardinality(Before(lines, i)) = 2), "Wrapped"),
                   When(Short(lines[i]), "Short")>>)

FileRefusal(file) ==
    Refused(<<When(~file.readable, "Unreadable")>>
            \o [i \in DOMAIN file.lines |-> LineRefusal(file.lines, i)]
            \o <<When(Cardinality(Before(file.lines, Len(file.lines) + 1)) > 2, "TooMany")>>)

SecretsIn(file) ==
    LET Held(line) == ~line.blank
        kept == SelectSeq(file.lines, Held)
    IN  [i \in DOMAIN kept |-> kept[i].text]

\* Guard::set_gossip_auth: all or nothing.
SetGossipAuth(auth, mode, secrets) ==
    IF SecretsRefusal(mode, secrets) # "" THEN auth
    ELSE [mode |-> mode, secrets |-> IF mode = "off" THEN <<>> ELSE secrets]

\* One round of reload_secrets: a file that is refused leaves those in force.
Reloaded(auth, mode, file) ==
    IF FileRefusal(file) # "" THEN auth ELSE SetGossipAuth(auth, mode, SecretsIn(file))

----------------------------------------------------------------------------
\* The flags, with their defaults: all but the limit may be left out.
Flags(limit) ==
    [limit |-> limit, burst |-> None, classes |-> <<>>,
     bind |-> Text(Some(Unspecified), <<>>, Some(7946)), advertise |-> None, seeds |-> <<>>,
     policy |-> None, trackedKeys |-> None, hotKeys |-> None, maxClasses |-> None,
     mostDenied |-> None, maxMembers |-> None, dryRun |-> FALSE, admin |-> FALSE,
     drain |-> 10000 * Ms, secretFile |-> None, mode |-> None, saltFile |-> None]

Mode(args) ==
    IF args.mode # None THEN args.mode[1] ELSE IF args.secretFile # None THEN "required" ELSE "off"

Warned(args) == Mode(args) = "off"

ArgsRefusal(args) ==
    Refused(<<When(args.secretFile = None /\ Mode(args) # "off", "NoSecretFile"),
              IF args.secretFile = None THEN "" ELSE FileRefusal(args.secretFile[1]),
              When(args.secretFile # None /\ SecretsIn(args.secretFile[1]) = <<>> /\ Mode(args) # "off",
                   "NoSecrets"),
              When(args.saltFile # None /\ args.saltFile[1] < 16, "ShortSalt")>>)

\* The builder's burst goes on top of the limit's own, so it is left out when
\* the limit gave one.
BuilderOf(args) ==
    LET spec == args.limit
        reached == Reaching(Builder, Some(args.bind), args.advertise, args.seeds)
        limited == Limited(reached, Some(spec.limit), IF spec.hasBurst THEN None ELSE args.burst)
        paced == Paced(DryRun(limited, args.dryRun), args.policy, None, None, args.hotKeys)
        capped == [Capped(paced, args.maxClasses, None) EXCEPT !.classes = args.classes]
        tracking == Tracking(capped, args.mostDenied, args.maxMembers, args.trackedKeys)
        signed == IF args.secretFile = None THEN tracking
                  ELSE Signed(tracking, Mode(args), SecretsIn(args.secretFile[1]))
    IN  IF args.saltFile = None THEN signed ELSE Salted(signed, args.saltFile[1])

----------------------------------------------------------------------------
\* The routes, and those that may face the pod's network.
Get(path) == <<"GET", path>>
Put(path) == <<"PUT", path>>
AdminRoutes ==
    {Put("/v1/classes"), Put("/v1/limit"), Put("/v1/dry_run"), Put("/v1/key_limits"), Put("/v1/shadows")}

Routes(app) ==
    {<<"POST", "/v1/check">>, Get("/v1/stats"), Get("/v1/keys"), Get("/healthz")}
    \union (IF app.metrics THEN {Get("/metrics")} ELSE {})
    \union (IF app.admin THEN AdminRoutes ELSE {})

PublicRoutes(app) == {Get("/healthz")} \union (IF app.metrics THEN {Get("/metrics")} ELSE {})

Health(running) == IF running THEN 200 ELSE 503

----------------------------------------------------------------------------
\* JSON values.
Null == [is |-> "null"]
Whole(n) == [is |-> "whole", n |-> n]     \* a whole number of 32 bits
Odd == [is |-> "odd"]                     \* any other number, or a list
Str(text) == [is |-> "string", text |-> text]
Bool(on) == [is |-> "bool", on |-> on]
Object(fields) == [is |-> "object", fields |-> fields]

Has(v, field) == field \in DOMAIN v.fields
\* A field that is null is one left out.
Sent(v, field) == Has(v, field) /\ v.fields[field].is # "null"

PeriodOf == [per_second |-> "s", per_minute |-> "min", per_hour |-> "h"]
Periods(v) == DOMAIN PeriodOf \intersect DOMAIN v.fields

\* limit_from_json: an option.  A period's field that is null is not left out.
IsLimit(v) ==
    /\ v.is = "object"
    /\ Cardinality(Periods(v)) = 1
    /\ \A p \in Periods(v) : v.fields[p].is = "whole" /\ v.fields[p].n # 0
    /\ Sent(v, "burst") => v.fields["burst"].is = "whole"

LimitFromJson(v) ==
    IF ~IsLimit(v) THEN None
    ELSE LET p == CHOOSE p \in Periods(v) : TRUE
             limit == NewLimit(v.fields[p].n, PeriodOf[p])
         IN  Some(IF Sent(v, "burst") THEN WithBurst(limit, v.fields["burst"].n) ELSE limit)

LimitToJson(limit) ==
    LET p == CHOOSE p \in DOMAIN PeriodOf : PeriodOf[p] = limit.period
    IN  Object([f \in {p, "burst"} |-> Whole(IF f = p THEN limit.count ELSE limit.burst)])

\* key_limit_from_json: an option of the class, the key and its limit.
IsText(v, field) == Sent(v, field) => v.fields[field].is = "string"

IsEntry(v) ==
    /\ v.is = "object"
    /\ \A field \in {"key", "class", "as_class"} : IsText(v, field)
    /\ Sent(v, "key")
    /\ Sent(v, "limit") # Sent(v, "as_class")
    /\ Sent(v, "limit") => LimitFromJson(v.fields["limit"]) # None

KeyLimitFromJson(v) ==
    IF ~IsEntry(v) THEN None
    ELSE Some([class |-> IF Sent(v, "class") THEN v.fields["class"].text ELSE "",
               key |-> v.fields["key"].text,
               entry |-> IF Sent(v, "limit")
                         THEN [of |-> "limit", limit |-> LimitFromJson(v.fields["limit"])[1]]
                         ELSE [of |-> "class", name |-> v.fields["as_class"].text]])

----------------------------------------------------------------------------
\* What a PUT asks of the Guard, an option: none is a 400 and asks nothing.
Call(op, with) == Some([op |-> op, with |-> with])

Limits(fields) == [name \in DOMAIN fields |-> LimitFromJson(fields[name])[1]]

SetClasses(body) ==
    IF body.is = "object" /\ \A name \in DOMAIN body.fields : IsLimit(body.fields[name])
    THEN Call("set_classes", Limits(body.fields)) ELSE None

SetLimit(body) ==
    IF IsLimit(body) THEN Call("set_limit", LimitFromJson(body)[1]) ELSE None

\* A list is given as a sequence of its entries.
SetKeyLimits(entries) ==
    IF \A i \in DOMAIN entries : IsEntry(entries[i])
    THEN Call("set_key_limits", [i \in DOMAIN entries |-> KeyLimitFromJson(entries[i])[1]]) ELSE None

\* Replace-all: no shadow for a class is a class left out, or null.
SetShadows(body) ==
    LET sent == {name \in DOMAIN body.fields : Sent(body, name)}
    IN  IF body.is = "object" /\ \A name \in sent : IsLimit(body.fields[name])
        THEN Call("set_shadows", Limits([name \in sent |-> body.fields[name]])) ELSE None

SetDryRun(body) ==
    IF body.is = "object" /\ Has(body, "on") /\ body.fields["on"].is = "bool"
    THEN Call("set_dry_run", body.fields["on"].on) ELSE None

\* GET /v1/keys, of a query's fields: it needs a key, the class is "" if left
\* out, and only a tracked key has an answer.
KeyStatus(query, tracked) ==
    IF "key" \notin DOMAIN query THEN 400
    ELSE IF <<IF "class" \in DOMAIN query THEN query.class ELSE "", query.key>> \in tracked
    THEN 200 ELSE 404

\* The answer, once the Guard took the call or refused it.
Status(call, refused) == IF call = None \/ refused THEN 400 ELSE 204

\* A text as the check handler reads it: its characters, a surrogate without
\* its other half among them, are replaced one by one.
LoneSurrogates == {"high", "low"}
Lossy(text) == [i \in DOMAIN text |-> IF text[i] \in LoneSurrogates THEN "replacement" ELSE text[i]]

\* The body of a check: a key, and a class left out or null.  None is a 400.
CheckOf(body) ==
    IF body.is # "object" THEN None
    ELSE IF /\ Sent(body, "key") /\ body.fields["key"].is = "string"
            /\ Sent(body, "class") => body.fields["class"].is = "string"
    THEN Some([key |-> Lossy(body.fields["key"].text),
               class |-> IF Sent(body, "class") THEN Lossy(body.fields["class"].text) ELSE <<>>])
    ELSE None

\* Which of the two tables of names the key of a check goes to, if any.
RecordedIn(decision, shadow) ==
    IF ~decision.allowed THEN "real"
    ELSE IF shadow # None /\ ~shadow[1].allowed THEN "shadow" ELSE "none"

\* The response to a check whose body is or is not too large, as an error's
\* status or the answer: a 413 in plain text is rewritten as JSON.
Json(status) == [status |-> status, json |-> TRUE]
PlainText(status) == [status |-> status, json |-> FALSE]
Json413(response) == IF response.status = 413 THEN Json(413) ELSE response

CheckResponse(body, tooLarge) ==
    Json413(IF tooLarge THEN PlainText(413)
            ELSE IF CheckOf(body) = None THEN Json(400) ELSE Json(200))

\* A denial in whole milliseconds, rounded up.
RetryAfterMs(nanos) == (nanos + Ms - 1) \div Ms

Answer(decision) ==
    IF decision.allowed THEN [allowed |-> TRUE]
    ELSE [allowed |-> FALSE, retry_after_ms |-> RetryAfterMs(decision.retryAfter)]

\* GET /v1/stats: an entry of the most denied keys, with its name if one of
\* the tables still has it, the real one first.
NamedEntry(hash, real, shadow) ==
    LET names == IF hash \in DOMAIN real THEN real ELSE shadow
    IN  [hash |-> hash, name |-> IF hash \in DOMAIN names THEN Some(names[hash]) ELSE None]

----------------------------------------------------------------------------
\* The tower layer (src/rateguard/src/tower.rs): a request has a key, with or
\* without a class, or none; the guard is asked about the ones that have.
NoKey == <<>>
InDefault(key) == <<key>>
InClassOf(class, key) == <<class, key>>

AskedOf(key) == IF Len(key) = 2 THEN [class |-> key[1], key |-> key[2]] ELSE [class |-> "", key |-> key[1]]

\* Whole seconds of the milliseconds, which are rounded down first, and one
\* at least.
TooManyRequests(nanos) ==
    [status |-> 429,
     retryAfter |-> LET seconds == (nanos \div Ms + 999) \div 1000 IN IF seconds = 0 THEN 1 ELSE seconds]

\* What becomes of a request: the service's own answer, or a 429 at once.
Layered(key, served, decisionFor) ==
    IF key = NoKey \/ decisionFor[AskedOf(key)].allowed THEN served
    ELSE TooManyRequests(decisionFor[AskedOf(key)].retryAfter)
=============================================================================
