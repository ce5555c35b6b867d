----------------------------- MODULE ToolGuards -----------------------------
(***************************************************************************)
(* What stands between a call of a tool of an MCP server and its upstream  *)
(* service (promptise/mcp/server): the per-tool concurrency limit, the     *)
(* circuit breaker, the timeout, and the cached handler that coalesces     *)
(* identical calls.                                                        *)
(*                                                                         *)
(* A call passes the limit and the breaker at once and may then wait (for  *)
(* a gate, a dependency) before its handler runs; the handler answers from *)
(* the cache, joins a computation under way, or starts one.  Refusals      *)
(* change nothing.  The breaker keeps its counts in an object that reset() *)
(* replaces; a call keeps the one it found.                                *)
(***************************************************************************)
EXTENDS Integers, FiniteSets

CONSTANTS
    Calls,          \* what calls the tool, again and again
    Keys,           \* cache keys: the arguments and the caller's scope
    MaxConcurrent,  \* of the tool
    Nobody,         \* no call
    Threshold,      \* failure_threshold
    MaxFaults,      \* bound: failures, rejections, timeouts, cancellations
    MaxResets       \* bound: reset()

ASSUME BoundsAssumption ==
    /\ Keys # {} /\ Nobody \notin Calls
    /\ MaxConcurrent \in Nat \ {0} /\ Threshold \in Nat \ {0}
    /\ MaxFaults \in Nat /\ MaxResets \in Nat

VARIABLES
    at,         \* where each call is
    key,        \* what it asks for
    told,       \* what a waiting call was told of the computation
    circuit,    \* the breaker's object for the tool
    on,         \* the object each call found
    probing,    \* is_probe of each call
    state, failures, probe,     \* of each object; failures up to Threshold
    elapsed,    \* recovery_timeout has passed since its last failure
    flight,     \* _inflight: the call that computes a key, or Nobody
    stored,     \* the keys in the cache
    faults, resets      \* bounds

callVars == <<at, key, told, on, probing>>
objectVars == <<state, failures, probe, elapsed>>
cacheVars == <<flight, stored>>
vars == <<at, key, told, circuit, on, probing, state, failures, probe, elapsed, flight, stored,
          faults, resets>>

Circuits == 0 .. MaxResets
Stays == {"out", "admitted", "waiting", "computing"}
Verdicts == {"ok", "failure", "rejection"}

AnyKey == CHOOSE k \in Keys : TRUE
Inside == {c \in Calls : at[c] # "out"}

Fault == faults < MaxFaults /\ faults' = faults + 1

-----------------------------------------------------------------------------
(* PerToolConcurrencyLimiter and CircuitBreakerMiddleware, on the way in *)

\* An open circuit whose time has passed is half open for the next call, also
\* when it refuses that call because of a probe.
Found(n) == IF state[n] = "open" /\ elapsed[n] THEN "half_open" ELSE state[n]
Room == Cardinality(Inside) < MaxConcurrent

Admit(c, k) ==
    /\ at[c] = "out" /\ Room
    /\ Found(circuit) # "open"
    /\ Found(circuit) = "half_open" => ~probe[circuit]
    /\ at' = [at EXCEPT ![c] = "admitted"]
    /\ key' = [key EXCEPT ![c] = k]
    /\ on' = [on EXCEPT ![c] = circuit]
    /\ probing' = [probing EXCEPT ![c] = Found(circuit) = "half_open"]
    /\ state' = [state EXCEPT ![circuit] = Found(circuit)]
    /\ probe' = [probe EXCEPT ![circuit] = @ \/ Found(circuit) = "half_open"]
    /\ UNCHANGED <<told, circuit, failures, elapsed, faults, resets>>
    /\ UNCHANGED cacheVars

Refuse ==
    /\ Room
    /\ Found(circuit) = "half_open" /\ state[circuit] = "open" /\ probe[circuit]
    /\ state' = [state EXCEPT ![circuit] = "half_open"]
    /\ UNCHANGED <<circuit, failures, probe, elapsed, faults, resets>>
    /\ UNCHANGED callVars /\ UNCHANGED cacheVars

-----------------------------------------------------------------------------
(* The breaker, on the way out *)

\* Mutant: one failure too many.
Trips_Late(c, count) == probing[c] \/ count > Threshold
Trips(c, count) == probing[c] \/ count >= Threshold

\* The finally clause of a call: a probe is over however it ended.
\* Mutant: only with a verdict.
Releases_Verdict(c, how) == probing[c] /\ how \in {"ok", "failure"}
Releases(c, how) == probing[c]

\* Whether a success closes the circuit, of the probe or of an older call.
\* Mutant: it stays half open, and only probes pass.
Recovers_Not(n) == FALSE
Recovers(n) == state[n] = "half_open"

\* A call comes back through the breaker; nothing of it is kept.
Leaves(c, how) ==
    LET n == on[c]
        count == failures[n] + 1
    IN  /\ at' = [at EXCEPT ![c] = "out"]
        /\ probing' = [probing EXCEPT ![c] = FALSE]
        /\ probe' = [probe EXCEPT ![n] = @ /\ ~Releases(c, how)]
        /\ \/ /\ how = "ok"
              /\ failures' = [failures EXCEPT ![n] = 0]
              /\ state' = [state EXCEPT ![n] = IF Recovers(n) THEN "closed" ELSE @]
              /\ UNCHANGED elapsed
           \/ /\ how = "failure"
              /\ failures' = [failures EXCEPT ![n] = IF count > Threshold THEN @ ELSE count]
              /\ elapsed' = [elapsed EXCEPT ![n] = FALSE]
              /\ state' = [state EXCEPT ![n] = IF Trips(c, count) THEN "open" ELSE @]
           \/ /\ how \in {"rejection", "cancelled"}
              /\ UNCHANGED <<failures, state, elapsed>>
        /\ on' = [on EXCEPT ![c] = 0]
        /\ key' = [key EXCEPT ![c] = AnyKey]
        /\ UNCHANGED <<circuit, resets>>

\* Time passes; nobody asks an object that was replaced.
Elapses ==
    /\ state[circuit] = "open" /\ ~elapsed[circuit]
    /\ elapsed' = [elapsed EXCEPT ![circuit] = TRUE]
    /\ UNCHANGED <<circuit, state, failures, probe, faults, resets>>
    /\ UNCHANGED callVars /\ UNCHANGED cacheVars

\* reset(): the next call finds a new object.
Reset ==
    /\ resets < MaxResets
    /\ resets' = resets + 1
    /\ circuit' = resets + 1
    /\ UNCHANGED faults
    /\ UNCHANGED callVars /\ UNCHANGED objectVars /\ UNCHANGED cacheVars

-----------------------------------------------------------------------------
(* The cached handler *)

\* _SingleFlight.run: join the computation of the key, or start one.
\* Mutant: a call that was waiting starts its own.
Joins_New(c) == flight[key[c]] # Nobody /\ at[c] = "admitted"
Joins(c) == flight[key[c]] # Nobody

Computes(c) ==
    /\ told' = [told EXCEPT ![c] = "nothing"]
    /\ \/ /\ Joins(c)
          /\ at' = [at EXCEPT ![c] = "waiting"]
          /\ UNCHANGED flight
       \/ /\ ~Joins(c)
          /\ at' = [at EXCEPT ![c] = "computing"]
          /\ flight' = [flight EXCEPT ![key[c]] = c]
    /\ UNCHANGED <<key, circuit, on, probing, stored, faults, resets>>
    /\ UNCHANGED objectVars

Handle(c) ==
    /\ at[c] = "admitted"
    /\ \/ key[c] \in stored /\ Leaves(c, "ok") /\ UNCHANGED <<told, faults>> /\ UNCHANGED cacheVars
       \/ key[c] \notin stored /\ Computes(c)

\* The waiting calls of the key are woken with a result, an error or, when the
\* call that computed was cancelled, the news that nobody does.
\* Mutant: those of a cancelled computation are not.
Wakes_Result(what) == what # "gone"
Wakes(what) == TRUE

Settles(c, what) ==
    /\ flight' = [flight EXCEPT ![key[c]] = Nobody]
    /\ told' = [w \in Calls |->
        IF at[w] = "waiting" /\ key[w] = key[c] /\ told[w] = "nothing" /\ Wakes(what)
        THEN what ELSE told[w]]

\* The upstream answers the call that computes; a result of None is not kept.
RunEnds(c) ==
    /\ at[c] = "computing"
    /\ Leaves(c, "ok")
    /\ Settles(c, "ok")
    /\ stored' \in {stored, stored \union {key[c]}}
    /\ UNCHANGED faults

RunFails(c, how) ==
    /\ at[c] = "computing" /\ Fault
    /\ Leaves(c, how)
    /\ Settles(c, how)
    /\ UNCHANGED stored

Hears(c) ==
    /\ at[c] = "waiting"
    /\ \/ told[c] = "gone" /\ Computes(c)
       \/ /\ told[c] \in Verdicts
          /\ Leaves(c, told[c])
          /\ told' = [told EXCEPT ![c] = "nothing"]
          /\ UNCHANGED faults /\ UNCHANGED cacheVars

\* wait_for gives a call up, or its request is cancelled: the shield keeps the
\* computation it waits for, and its own is gone.
GivesUp(c, how) ==
    /\ at[c] # "out" /\ Fault
    /\ Leaves(c, how)
    /\ IF at[c] = "computing" THEN Settles(c, "gone")
       ELSE told' = [told EXCEPT ![c] = "nothing"] /\ UNCHANGED flight
    /\ UNCHANGED stored

Expire ==
    /\ \E k \in stored : stored' = stored \ {k}
    /\ UNCHANGED <<circuit, flight, faults, resets>>
    /\ UNCHANGED callVars /\ UNCHANGED objectVars

-----------------------------------------------------------------------------
Init ==
    /\ at = [c \in Calls |-> "out"]
    /\ key = [c \in Calls |-> AnyKey]
    /\ told = [c \in Calls |-> "nothing"]
    /\ circuit = 0
    /\ on = [c \in Calls |-> 0]
    /\ probing = [c \in Calls |-> FALSE]
    /\ state = [n \in Circuits |-> "closed"]
    /\ failures = [n \in Circuits |-> 0]
    /\ probe = [n \in Circuits |-> FALSE]
    /\ elapsed = [n \in Circuits |-> FALSE]
    /\ flight = [k \in Keys |-> Nobody]
    /\ stored = {}
    /\ faults = 0 /\ resets = 0

Proceeds(c) == Handle(c) \/ RunEnds(c) \/ Hears(c)

Fails(c) ==
    \/ \E how \in {"failure", "rejection"} : RunFails(c, how)
    \/ \E how \in {"failure", "cancelled"} : GivesUp(c, how)

Admits == \E c \in Calls, k \in Keys : Admit(c, k)

Next ==
    \/ Admits \/ Refuse \/ Elapses \/ Reset \/ Expire
    \/ \E c \in Calls : Proceeds(c) \/ Fails(c)

\* The handlers and the upstream go on, time passes, and clients keep calling.
Spec ==
    /\ Init /\ [][Next]_vars
    /\ \A c \in Calls : WF_vars(Proceeds(c))
    /\ WF_vars(Elapses) /\ WF_vars(Admits)

-----------------------------------------------------------------------------
(* Properties *)

\* Every variable has its type, and a circuit that is closed is below its
\* threshold, whichever late answers came in while it was open or half open.
TypeOK ==
    /\ at \in [Calls -> Stays]
    /\ key \in [Calls -> Keys]
    /\ told \in [Calls -> Verdicts \union {"nothing", "gone"}]
    /\ circuit \in Circuits
    /\ on \in [Calls -> Circuits]
    /\ probing \in [Calls -> BOOLEAN]
    /\ state \in [Circuits -> {"closed", "open", "half_open"}]
    /\ failures \in [Circuits -> 0 .. Threshold]
    /\ probe \in [Circuits -> BOOLEAN]
    /\ elapsed \in [Circuits -> BOOLEAN]
    /\ flight \in [Keys -> Calls \union {Nobody}]
    /\ stored \subseteq Keys
    /\ faults \in 0 .. MaxFaults /\ resets \in 0 .. MaxResets
    /\ \A n \in Circuits : state[n] = "closed" => failures[n] < Threshold

\* probe_in_flight is set exactly while one call is the probe of that circuit:
\* never two probes, and never a mark left behind by a probe that was
\* cancelled, timed out, overtaken by a late answer, or whose circuit was reset.
OneProbe ==
    \A n \in Circuits :
        LET probes == {c \in Inside : on[c] = n /\ probing[c]}
        IN  /\ probe[n] <=> probes # {}
            /\ \A c, d \in probes : c = d

\* Identical calls cost one run of the tool: a call computes a key exactly while
\* it is the key's flight, so no two compute one key; and a call that waits
\* and was told nothing waits for a flight that exists, when the one it joined
\* was cancelled too.
OneFlight ==
    /\ \A c \in Calls : at[c] = "computing" <=> flight[key[c]] = c
    /\ \A k \in Keys : flight[k] # Nobody => key[flight[k]] = k
    /\ \A c \in Calls : at[c] = "waiting" /\ told[c] = "nothing" => flight[key[c]] # Nobody

\* A circuit does not stay open or half open: when failures and cancellations
\* end it closes, whatever calls of before it opened answer meanwhile.
CircuitCloses == state[circuit] # "closed" ~> state[circuit] = "closed"

=============================================================================
