----------------------------- MODULE MCLimiter -----------------------------
(***************************************************************************)
(* One node's limiter over two keys, one of them enforced here.            *)
(***************************************************************************)
EXTENDS Limiter

\* A limit whose shares have intervals that units of 1, 3 and 9 hold or round up.
MCLimits == {[rate |-> 48, burst |-> 2]}
MCRates == <<{0, 5, 20}, {0, 20}>>
MCUnits == <<1, 3, 9>>

\* A quota is what its word unpacks to, and what decode() reads of it, so that
\* nothing is lost or gained each time the word is read (QuotaWord): for every
\* interval, too short and too long ones too.  The interval held is never the
\* shorter one: rounding never loosens a limit.
ASSUME PackingIsExact ==
    \A interval \in 0 .. MaxInterval + 2, burst \in 0 .. 3 :
        LET q == WithInterval(interval, burst) IN
        /\ Unpack(Pack(q)) = q
        /\ Decode(Pack(q)) = [interval |-> q.interval, tau |-> Tau(q)]
        /\ q.interval >= AtMost(interval, MaxInterval)
=============================================================================
