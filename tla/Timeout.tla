------------------------------ MODULE Timeout -------------------------------
(***************************************************************************)
(* The wall-clock limit of a queued command (packages/nopo/src/timeout.ts  *)
(* and its use in index.ts): from --timeout, NOPO_TIMEOUT and the script's *)
(* own default to the delay the timer is armed with.                       *)
(*                                                                         *)
(* A written amount is whole.frac with frac in ten-thousandths, so that    *)
(* amounts below a millisecond can be told from zero.                      *)
(***************************************************************************)
EXTENDS Integers

Undefined == -1     \* absent or unparseable: the next source decides
Disabled  == -2     \* null: no limit
Huge      == 2147483647   \* any number of ms from 2^31-1 on

DEFAULT_TIMEOUT_MS == 300000

unitToMs(u) == CASE u = "ms" -> 1 [] u = "m" -> 60000 [] u = "h" -> 3600000 [] OTHER -> 1000

\* Math.round(amount * unit), capped at Huge.
InMs(whole, frac, ms) ==
  LET part == IF ms >= 10000 THEN frac * (ms \div 10000) ELSE (frac * ms + 5000) \div 10000
  IN  IF whole > (Huge - part) \div ms THEN Huge ELSE whole * ms + part

ParseDuration(v) ==
  CASE v.kind = "number" ->
         IF v.neg THEN Undefined
         ELSE IF v.whole = 0 /\ v.frac = 0 THEN Disabled ELSE InMs(v.whole, v.frac, 1000)
    [] v.kind = "word" -> Disabled
    [] v.kind = "amount" ->
         LET ms == InMs(v.whole, v.frac, unitToMs(v.unit))
         IN  IF ms = 0 THEN Disabled ELSE ms
    [] OTHER -> Undefined

FirstDefined(a, b, c) == IF a # Undefined THEN a ELSE IF b # Undefined THEN b ELSE c

ScriptTimeout(scriptMs) == IF scriptMs = 0 THEN Disabled ELSE scriptMs

ResolveTimeoutMs(cli, env, scriptMs, fallbackMs) ==
  FirstDefined(ParseDuration(cli), ParseDuration(env),
               IF scriptMs # Undefined THEN ScriptTimeout(scriptMs) ELSE fallbackMs)

CommandTimeout(cli, env, scriptMs, inCI) ==
  ResolveTimeoutMs(cli, env, IF inCI THEN Undefined ELSE scriptMs,
                   IF inCI THEN Disabled ELSE DEFAULT_TIMEOUT_MS)

\* setTimeout(): a delay that does not fit in 31 bits, or is 0, becomes 1.
TimerDelay(ms) == IF ms >= Huge \/ ms = 0 THEN 1 ELSE ms

-----------------------------------------------------------------------------
(* One command line after another. *)

CONSTANTS Values, ScriptDefaults
\* An amount is not negative, and neither is what a script has for a default.
TimeoutAssumption ==
  /\ \A v \in Values :
       /\ v.kind = "number" => v.neg \in BOOLEAN
       /\ v.kind \in {"number", "amount"} => v.whole \in Nat /\ v.frac \in Nat
  /\ ScriptDefaults \subseteq {Undefined} \cup Nat

VARIABLE call
Resolve == \E cli, env \in Values, s \in ScriptDefaults, ci \in BOOLEAN :
             call' = [cli |-> cli, env |-> env, script |-> s, inCI |-> ci,
                      ms |-> CommandTimeout(cli, env, s, ci)]
NoCall == [ms |-> Undefined]
Init == call = NoCall
Next == call = NoCall /\ Resolve
Spec == Init /\ [][Next]_call

Answered == call # NoCall
Zero(v) == v.kind \in {"number", "amount"} /\ v.whole = 0 /\ v.frac = 0
Asks(v) == v.kind \in {"number", "amount"} /\ ~(v.kind = "number" /\ v.neg)
Silent(v) == ~Asks(v) /\ v.kind # "word"

\* The first source that says anything decides, and the others do not matter;
\* a value that is no duration says nothing.
FirstSourceDecides ==
  Answered => LET first == IF ~Silent(call.cli) THEN call.cli ELSE call.env IN
    ~Silent(first) => call.ms = ParseDuration(first) /\ call.ms # Undefined

\* Zero, and every way of saying never, is no limit rather than none of the
\* time.
ZeroDisables ==
  Answered /\ ~Silent(call.cli) /\ (Zero(call.cli) \/ call.cli.kind = "word")
    => call.ms = Disabled

\* Under CI nobody is timed out who has not asked for it; elsewhere everybody
\* has a limit who has not refused it (optimization.md:207-210).
ImplicitLimit ==
  Answered /\ Silent(call.cli) /\ Silent(call.env) =>
    IF call.inCI \/ call.script = 0 THEN call.ms = Disabled
    ELSE call.ms = IF call.script = Undefined THEN DEFAULT_TIMEOUT_MS ELSE call.script

\* The timer is armed with the limit that was asked for, when it is one that a
\* timer can keep; a longer one, or one that rounds to 0, fires at once.
LimitIsGranted ==
  Answered /\ call.ms # Disabled =>
    TimerDelay(call.ms) = IF call.ms \in 1 .. Huge - 1 THEN call.ms ELSE 1
=============================================================================
