-------------------------- MODULE ToolGuardsProofs --------------------------
(***************************************************************************)
(* The breaker has one probe at a time and single flight one computation,  *)
(* for any number of calls, keys, failures and resets.  The invariant is   *)
(* TypeOK /\ OneProbe /\ OneFlight, and it is inductive: what makes it so  *)
(* is that OneProbe speaks of every object, replaced ones too, and that    *)
(* OneFlight ties a flight to the call that computes it both ways.  A step *)
(* is a call that goes in, one that comes out through the breaker, one     *)
(* that joins or starts a computation, or one that touches no call.        *)
(***************************************************************************)
EXTENDS ToolGuards, TLAPS

Hows == {"ok", "failure", "rejection", "cancelled"}

\* TypeOK, of the breaker and of the cache.
BreakerType ==
    /\ at \in [Calls -> Stays]
    /\ key \in [Calls -> Keys]
    /\ circuit \in Circuits
    /\ on \in [Calls -> Circuits]
    /\ probing \in [Calls -> BOOLEAN]
    /\ state \in [Circuits -> {"closed", "open", "half_open"}]
    /\ failures \in [Circuits -> 0 .. Threshold]
    /\ probe \in [Circuits -> BOOLEAN]
    /\ elapsed \in [Circuits -> BOOLEAN]
    /\ resets \in 0 .. MaxResets
    /\ \A n \in Circuits : state[n] = "closed" => failures[n] < Threshold

CacheType ==
    /\ told \in [Calls -> Verdicts \union {"nothing", "gone"}]
    /\ flight \in [Keys -> Calls \union {Nobody}]
    /\ stored \subseteq Keys
    /\ faults \in 0 .. MaxFaults

IInv == TypeOK /\ OneProbe /\ OneFlight

LEMMA TypeParts ==
    /\ TypeOK <=> BreakerType /\ CacheType
    /\ TypeOK' <=> BreakerType' /\ CacheType'
  BY Zenon DEF TypeOK, BreakerType, CacheType

LEMMA Constants ==
    /\ AnyKey \in Keys
    /\ 0 \in Circuits
    /\ 0 \in 0 .. MaxResets /\ 0 \in 0 .. MaxFaults /\ 0 \in 0 .. Threshold /\ 0 < Threshold
    /\ MaxResets \in Nat /\ MaxFaults \in Nat /\ Threshold \in Nat /\ Nobody \notin Calls
  BY BoundsAssumption DEF AnyKey, Circuits

-----------------------------------------------------------------------------
(* A call that comes out through the breaker *)

\* Its verdict, whatever it is and however late, leaves the types in place and
\* no closed circuit at its threshold.
LEMMA LeavesType ==
    ASSUME BreakerType, NEW c \in Calls, NEW how \in Hows, Leaves(c, how)
    PROVE  BreakerType'
<1> DEFINE n == on[c]
           count == failures[n] + 1
<1>1. n \in Circuits /\ failures[n] \in 0 .. Threshold /\ count \in Nat /\ probing[c] \in BOOLEAN
  BY Constants DEF BreakerType
<1>2. /\ at' = [at EXCEPT ![c] = "out"]
      /\ probing' = [probing EXCEPT ![c] = FALSE]
      /\ probe' = [probe EXCEPT ![n] = @ /\ ~Releases(c, how)]
      /\ on' = [on EXCEPT ![c] = 0]
      /\ key' = [key EXCEPT ![c] = AnyKey]
      /\ UNCHANGED <<circuit, resets>>
  BY DEF Leaves
<1>3. /\ at' \in [Calls -> Stays] /\ key' \in [Calls -> Keys] /\ on' \in [Calls -> Circuits]
      /\ circuit' \in Circuits /\ resets' \in 0 .. MaxResets
  BY <1>2, Constants DEF BreakerType, Stays
<1>4. probing' \in [Calls -> BOOLEAN] /\ probe' \in [Circuits -> BOOLEAN]
  BY <1>1, <1>2, Zenon DEF BreakerType, Releases
<1>5. CASE how = "ok"
  <2>1. /\ failures' = [failures EXCEPT ![n] = 0]
        /\ state' = [state EXCEPT ![n] = IF Recovers(n) THEN "closed" ELSE @]
        /\ elapsed' = elapsed
    BY <1>5 DEF Leaves
  <2>2. /\ failures' \in [Circuits -> 0 .. Threshold]
        /\ state' \in [Circuits -> {"closed", "open", "half_open"}]
        /\ elapsed' \in [Circuits -> BOOLEAN]
    BY <2>1, <1>1, Constants DEF BreakerType
  <2>3. \A m \in Circuits : state'[m] = "closed" => failures'[m] < Threshold
    BY <2>1, <1>1, Constants DEF BreakerType
  <2> QED BY <1>3, <1>4, <2>2, <2>3 DEF BreakerType
<1>6. CASE how = "failure"
  <2>1. /\ failures' = [failures EXCEPT ![n] = IF count > Threshold THEN @ ELSE count]
        /\ elapsed' = [elapsed EXCEPT ![n] = FALSE]
        /\ state' = [state EXCEPT ![n] = IF Trips(c, count) THEN "open" ELSE @]
    BY <1>6 DEF Leaves
  <2>2. /\ failures' \in [Circuits -> 0 .. Threshold]
        /\ state' \in [Circuits -> {"closed", "open", "half_open"}]
        /\ elapsed' \in [Circuits -> BOOLEAN]
    BY <2>1, <1>1, Constants DEF BreakerType
  <2>3. \A m \in Circuits : state'[m] = "closed" => failures'[m] < Threshold
    BY <2>1, <1>1, Constants DEF BreakerType, Trips
  <2> QED BY <1>3, <1>4, <2>2, <2>3 DEF BreakerType
<1>7. CASE how \in {"rejection", "cancelled"}
  <2>1. UNCHANGED <<failures, state, elapsed>>
    BY <1>7 DEF Leaves
  <2> QED BY <1>3, <1>4, <2>1 DEF BreakerType
<1> QED BY <1>5, <1>6, <1>7 DEF Hows

\* A probe takes its mark along, and no other call loses its own.
LEMMA LeavesProbe ==
    ASSUME BreakerType, OneProbe, NEW c \in Calls, at[c] # "out", NEW how \in Hows, Leaves(c, how)
    PROVE  OneProbe'
<1> DEFINE Probes(m) == {d \in Inside : on[d] = m /\ probing[d]}
<1>1. /\ at' = [at EXCEPT ![c] = "out"]
      /\ probing' = [probing EXCEPT ![c] = FALSE]
      /\ probe' = [probe EXCEPT ![on[c]] = @ /\ ~probing[c]]
      /\ on' = [on EXCEPT ![c] = 0]
  BY DEF Leaves, Releases
<1>2. \A m \in Circuits : (probe[m] <=> Probes(m) # {}) /\ \A d, e \in Probes(m) : d = e
  BY Zenon DEF OneProbe
<1>3. \A m : Probes(m)' = Probes(m) \ {c}
  BY <1>1 DEF Inside, BreakerType
<1>4. ASSUME NEW m \in Circuits
      PROVE  (probe'[m] <=> Probes(m)' # {}) /\ \A d, e \in Probes(m)' : d = e
  <2>1. \A d, e \in Probes(m)' : d = e
    BY <1>2, <1>3
  <2>2. CASE on[c] = m /\ probing[c]
    <3>1. c \in Probes(m)
      BY <2>2 DEF Inside
    <3>2. Probes(m)' = {}
      BY <3>1, <1>2, <1>3
    <3>3. ~probe'[m]
      BY <1>1, <2>2 DEF BreakerType
    <3> QED BY <3>2, <3>3
  <2>3. CASE ~(on[c] = m /\ probing[c])
    <3>1. Probes(m)' = Probes(m)
      BY <2>3, <1>3
    <3>2. probe'[m] <=> probe[m]
      BY <1>1, <2>3 DEF BreakerType
    <3> QED BY <3>1, <3>2, <1>2
  <2> QED BY <2>1, <2>2, <2>3
<1> QED BY <1>4, Zenon DEF OneProbe

-----------------------------------------------------------------------------
(* Single flight *)

\* A call that does not compute is the flight of no key: it leaves alone.
LEMMA LeavesAlone ==
    ASSUME BreakerType, CacheType, OneFlight, NEW c \in Calls, at[c] \notin {"out", "computing"},
           NEW how \in Hows, Leaves(c, how), flight' = flight,
           told' = told \/ told' = [told EXCEPT ![c] = "nothing"]
    PROVE  OneFlight'
<1>1. /\ at' = [at EXCEPT ![c] = "out"]
      /\ key' = [key EXCEPT ![c] = AnyKey]
  BY DEF Leaves
<1>2. \A k \in Keys : flight[k] # c
  BY Constants DEF OneFlight, CacheType
<1>3. \A d \in Calls \ {c} : at'[d] = at[d] /\ key'[d] = key[d] /\ told'[d] = told[d]
  BY <1>1 DEF BreakerType, CacheType
<1>4. at'[c] = "out" /\ key'[c] \in Keys
  BY <1>1, Constants DEF BreakerType
<1>5. \A d \in Calls : at'[d] = "computing" <=> flight'[key'[d]] = d
  BY <1>2, <1>3, <1>4 DEF OneFlight
<1>6. \A k \in Keys : flight'[k] # Nobody => key'[flight'[k]] = k
  BY <1>2, <1>3 DEF OneFlight, CacheType
<1>7. \A d \in Calls : at'[d] = "waiting" /\ told'[d] = "nothing" => flight'[key'[d]] # Nobody
  BY <1>3, <1>4 DEF OneFlight
<1> QED BY <1>5, <1>6, <1>7, Zenon DEF OneFlight

\* The one that computes frees its key and tells everybody who waits for it.
LEMMA LeavesSettled ==
    ASSUME BreakerType, CacheType, OneFlight, NEW c \in Calls, at[c] = "computing",
           NEW how \in Hows, Leaves(c, how),
           NEW what \in Verdicts \union {"gone"}, Settles(c, what)
    PROVE  /\ OneFlight'
           /\ told' \in [Calls -> Verdicts \union {"nothing", "gone"}]
           /\ flight' \in [Keys -> Calls \union {Nobody}]
<1>1. /\ at' = [at EXCEPT ![c] = "out"]
      /\ key' = [key EXCEPT ![c] = AnyKey]
      /\ flight' = [flight EXCEPT ![key[c]] = Nobody]
      /\ told' = [w \in Calls |->
            IF at[w] = "waiting" /\ key[w] = key[c] /\ told[w] = "nothing" THEN what ELSE told[w]]
  BY DEF Leaves, Settles, Wakes
<1>2. key[c] \in Keys /\ flight[key[c]] = c /\ what # "nothing"
  BY DEF OneFlight, BreakerType, Verdicts
<1>3. told' \in [Calls -> Verdicts \union {"nothing", "gone"}]
  BY <1>1 DEF CacheType
<1>4. flight' \in [Keys -> Calls \union {Nobody}]
  BY <1>1 DEF CacheType
<1>5. \A d \in Calls \ {c} : at'[d] = at[d] /\ key'[d] = key[d] /\ key[d] \in Keys
  BY <1>1 DEF BreakerType
<1>6. at'[c] = "out" /\ key'[c] \in Keys
  BY <1>1, Constants DEF BreakerType
<1>7. \A k \in Keys : flight'[k] # c /\ (k # key[c] => flight'[k] = flight[k])
  BY <1>1, <1>2, Constants DEF OneFlight, CacheType
<1>8. flight'[key[c]] = Nobody
  BY <1>1, <1>2 DEF CacheType
<1>9. \A d \in Calls : at'[d] = "computing" <=> flight'[key'[d]] = d
  BY <1>2, <1>5, <1>6, <1>7, <1>8, Constants DEF OneFlight
<1>10. \A k \in Keys : flight'[k] # Nobody => key'[flight'[k]] = k
  BY <1>5, <1>7, <1>8 DEF OneFlight, CacheType
<1>11. \A d \in Calls : at'[d] = "waiting" /\ told'[d] = "nothing" => flight'[key'[d]] # Nobody
  <2>1. SUFFICES ASSUME NEW d \in Calls, at'[d] = "waiting", told'[d] = "nothing"
                 PROVE  flight'[key'[d]] # Nobody
    OBVIOUS
  <2>2. d # c /\ at[d] = "waiting" /\ key'[d] = key[d] /\ key[d] \in Keys
    BY <2>1, <1>5, <1>6
  <2>3. key[d] # key[c] /\ told[d] = "nothing"
    BY <2>1, <2>2, <1>1, <1>2
  <2> QED BY <2>2, <2>3, <1>7 DEF OneFlight
<1> QED BY <1>3, <1>4, <1>9, <1>10, <1>11, Zenon DEF OneFlight

\* A call that was admitted, or lost the flight it waited for, joins another
\* or becomes it.
LEMMA ComputesKeeps ==
    ASSUME IInv, NEW c \in Calls,
           at[c] = "admitted" \/ (at[c] = "waiting" /\ told[c] = "gone"), Computes(c)
    PROVE  IInv'
<1>0. BreakerType /\ CacheType
  BY TypeParts DEF IInv
<1>1. /\ told' = [told EXCEPT ![c] = "nothing"]
      /\ UNCHANGED <<key, circuit, on, probing, stored, faults, resets>>
      /\ UNCHANGED <<state, failures, probe, elapsed>>
  BY DEF Computes, objectVars
<1>2. key[c] \in Keys /\ at[c] \notin {"out", "computing"}
  BY <1>0 DEF BreakerType
<1>3. \/ at' = [at EXCEPT ![c] = "waiting"] /\ flight' = flight /\ flight[key[c]] # Nobody
      \/ /\ at' = [at EXCEPT ![c] = "computing"] /\ flight' = [flight EXCEPT ![key[c]] = c]
         /\ flight[key[c]] = Nobody
  BY DEF Computes, Joins
<1>4. BreakerType'
  BY <1>0, <1>1, <1>3 DEF BreakerType, Stays
<1>5. CacheType'
  BY <1>0, <1>1, <1>2, <1>3 DEF CacheType
<1>6. OneProbe'
  <2>1. Inside' = Inside
    BY <1>0, <1>2, <1>3 DEF Inside, BreakerType
  <2> QED BY <2>1, <1>1 DEF IInv, OneProbe
<1>7. OneFlight'
  <2>1. \A d \in Calls \ {c} : at'[d] = at[d] /\ told'[d] = told[d] /\ key[d] \in Keys
    BY <1>0, <1>1, <1>3 DEF BreakerType, CacheType
  <2>2. \A k \in Keys : flight[k] # c
    BY <1>0, <1>2, Constants DEF IInv, OneFlight
  <2>3. CASE at' = [at EXCEPT ![c] = "waiting"] /\ flight' = flight /\ flight[key[c]] # Nobody
    <3>1. at'[c] = "waiting"
      BY <2>3, <1>0 DEF BreakerType
    <3> QED BY <3>1, <2>1, <2>2, <2>3, <1>1, <1>2 DEF IInv, OneFlight
  <2>4. CASE /\ at' = [at EXCEPT ![c] = "computing"] /\ flight' = [flight EXCEPT ![key[c]] = c]
             /\ flight[key[c]] = Nobody
    <3>1. at'[c] = "computing" /\ flight'[key[c]] = c
      BY <2>4, <1>0, <1>2 DEF BreakerType, CacheType
    <3>2. \A k \in Keys : k # key[c] => flight'[k] = flight[k]
      BY <2>4, <1>0 DEF CacheType
    <3>3. \A d \in Calls : at'[d] = "computing" <=> flight'[key[d]] = d
      BY <3>1, <3>2, <2>1, <2>2, <2>4, <1>2, Constants DEF IInv, OneFlight
    <3>4. \A k \in Keys : flight'[k] # Nobody => key[flight'[k]] = k
      BY <3>1, <3>2 DEF IInv, OneFlight
    <3>5. \A d \in Calls : at'[d] = "waiting" /\ told'[d] = "nothing" => flight'[key[d]] # Nobody
      BY <3>1, <3>2, <2>1, Constants DEF IInv, OneFlight
    <3> QED BY <3>3, <3>4, <3>5, <1>1 DEF OneFlight
  <2> QED BY <1>3, <2>3, <2>4
<1> QED BY <1>4, <1>5, <1>6, <1>7, TypeParts DEF IInv

-----------------------------------------------------------------------------
(* Steps *)

\* A call goes in: it is the probe where the circuit lets one through.
LEMMA AdmitKeeps ==
    ASSUME IInv, NEW c \in Calls, NEW k \in Keys, Admit(c, k)
    PROVE  IInv'
<1> DEFINE n == circuit
           p == Found(n) = "half_open"
           Probes(m) == {d \in Inside : on[d] = m /\ probing[d]}
<1>0. BreakerType /\ CacheType
  BY TypeParts DEF IInv
<1>1. /\ at' = [at EXCEPT ![c] = "admitted"]
      /\ key' = [key EXCEPT ![c] = k]
      /\ on' = [on EXCEPT ![c] = n]
      /\ probing' = [probing EXCEPT ![c] = p]
      /\ state' = [state EXCEPT ![n] = Found(n)]
      /\ probe' = [probe EXCEPT ![n] = @ \/ p]
  BY DEF Admit
<1>2. /\ at[c] = "out" /\ (p => ~probe[n])
      /\ UNCHANGED <<told, circuit, failures, elapsed, faults, resets>>
      /\ UNCHANGED <<flight, stored>>
  BY DEF Admit, cacheVars
<1>3. n \in Circuits
  BY <1>0 DEF BreakerType
<1>4. BreakerType'
  <2>1. Found(n) \in {"closed", "open", "half_open"} /\ (Found(n) = "closed" => state[n] = "closed")
    BY <1>0, <1>3 DEF BreakerType, Found
  <2>2. /\ at' \in [Calls -> Stays] /\ key' \in [Calls -> Keys] /\ circuit' \in Circuits
        /\ on' \in [Calls -> Circuits] /\ probing' \in [Calls -> BOOLEAN]
        /\ failures' \in [Circuits -> 0 .. Threshold] /\ elapsed' \in [Circuits -> BOOLEAN]
        /\ resets' \in 0 .. MaxResets
    BY <1>0, <1>1, <1>2, <1>3 DEF BreakerType, Stays
  <2>3. probe' \in [Circuits -> BOOLEAN]
    BY <1>0, <1>1, <1>3, Zenon DEF BreakerType
  <2>4. state' \in [Circuits -> {"closed", "open", "half_open"}]
    BY <1>0, <1>1, <1>3, <2>1 DEF BreakerType
  <2>5. \A m \in Circuits : state'[m] = "closed" => failures'[m] < Threshold
    BY <1>0, <1>1, <1>2, <1>3, <2>1 DEF BreakerType
  <2> QED BY <2>2, <2>3, <2>4, <2>5, Zenon DEF BreakerType
<1>5. CacheType'
  BY <1>0, <1>2 DEF CacheType
<1>6. OneProbe'
  <2>1. \A m \in Circuits : (probe[m] <=> Probes(m) # {}) /\ \A d, e \in Probes(m) : d = e
    BY Zenon DEF OneProbe, IInv
  <2>2. Inside' = Inside \union {c} /\ c \notin Inside
    BY <1>0, <1>1, <1>2 DEF Inside, BreakerType
  <2>3. /\ on'[c] = n /\ (probing'[c] <=> p)
        /\ \A d \in Inside : on'[d] = on[d] /\ probing'[d] = probing[d]
    BY <1>0, <1>1, <2>2 DEF BreakerType, Inside
  <2>4. Probes(n)' = IF p THEN Probes(n) \union {c} ELSE Probes(n)
    BY <1>2, <2>2, <2>3
  <2>5. \A m \in Circuits \ {n} : Probes(m)' = Probes(m)
    BY <2>2, <2>3
  <2>6. /\ probe'[n] <=> probe[n] \/ p
        /\ \A m \in Circuits \ {n} : probe'[m] = probe[m]
    BY <1>0, <1>1, <1>3 DEF BreakerType
  <2>7. (probe'[n] <=> Probes(n)' # {}) /\ \A d, e \in Probes(n)' : d = e
    <3>1. CASE p
      <4>1. Probes(n)' = {c}
        BY <3>1, <1>2, <1>3, <2>1, <2>4
      <4> QED BY <3>1, <4>1, <2>6
    <3>2. CASE ~p
      BY <3>2, <1>3, <2>1, <2>4, <2>6
    <3> QED BY <3>1, <3>2
  <2>8. \A m \in Circuits : (probe'[m] <=> Probes(m)' # {}) /\ \A d, e \in Probes(m)' : d = e
    BY <1>2, <2>1, <2>5, <2>6, <2>7
  <2> QED BY <2>8, Zenon DEF OneProbe
<1>7. OneFlight'
  <2>1. at'[c] = "admitted" /\ key'[c] = k
    BY <1>0, <1>1 DEF BreakerType
  <2>2. \A d \in Calls \ {c} : at'[d] = at[d] /\ key'[d] = key[d] /\ key[d] \in Keys
    BY <1>0, <1>1 DEF BreakerType
  <2>3. \A j \in Keys : flight[j] # c
    BY <1>2, Constants DEF IInv, OneFlight
  <2>4. \A j \in Keys : flight[j] # Nobody => flight[j] \in Calls \ {c}
    BY <1>0, <2>3 DEF CacheType
  <2>5. \A d \in Calls : at'[d] = "computing" <=> flight'[key'[d]] = d
    BY <1>2, <2>1, <2>2, <2>3 DEF IInv, OneFlight
  <2>6. \A j \in Keys : flight'[j] # Nobody => key'[flight'[j]] = j
    BY <1>2, <2>2, <2>4 DEF IInv, OneFlight
  <2>7. \A d \in Calls : at'[d] = "waiting" /\ told'[d] = "nothing" => flight'[key'[d]] # Nobody
    BY <1>2, <2>1, <2>2 DEF IInv, OneFlight
  <2> QED BY <2>5, <2>6, <2>7, Zenon DEF OneFlight
<1> QED BY <1>4, <1>5, <1>6, <1>7, TypeParts DEF IInv

\* A call comes out and the cache stays as it was.
LEMMA AloneKeeps ==
    ASSUME IInv, NEW c \in Calls, at[c] \notin {"out", "computing"},
           NEW how \in Hows, Leaves(c, how), flight' = flight,
           told' = told \/ told' = [told EXCEPT ![c] = "nothing"],
           stored' = stored, faults' \in 0 .. MaxFaults
    PROVE  IInv'
<1>0. BreakerType /\ CacheType /\ OneProbe /\ OneFlight
  BY TypeParts DEF IInv
<1>1. BreakerType' /\ OneProbe' /\ OneFlight'
  BY <1>0, LeavesType, LeavesProbe, LeavesAlone
<1>2. CacheType'
  BY <1>0 DEF CacheType
<1> QED BY <1>1, <1>2, TypeParts DEF IInv

\* The call that computes comes out.
LEMMA SettledKeeps ==
    ASSUME IInv, NEW c \in Calls, at[c] = "computing",
           NEW how \in Hows, Leaves(c, how),
           NEW what \in Verdicts \union {"gone"}, Settles(c, what),
           stored' \subseteq Keys, faults' \in 0 .. MaxFaults
    PROVE  IInv'
<1>0. BreakerType /\ CacheType /\ OneProbe /\ OneFlight
  BY TypeParts DEF IInv
<1>1. BreakerType' /\ OneProbe'
  BY <1>0, LeavesType, LeavesProbe
<1>2. OneFlight' /\ CacheType'
  BY <1>0, LeavesSettled DEF CacheType
<1> QED BY <1>1, <1>2, TypeParts DEF IInv

LEMMA FaultType ==
    ASSUME CacheType, Fault
    PROVE  faults' \in 0 .. MaxFaults
  BY Constants DEF CacheType, Fault

LEMMA ProceedsKeeps ==
    ASSUME IInv, NEW c \in Calls, Proceeds(c)
    PROVE  IInv'
<1>0. BreakerType /\ CacheType
  BY TypeParts DEF IInv
<1>1. CASE Handle(c)
  <2>1. at[c] = "admitted" /\ at[c] \notin {"out", "computing"}
    BY <1>1 DEF Handle
  <2>2. CASE Leaves(c, "ok") /\ UNCHANGED <<told, faults>> /\ UNCHANGED cacheVars
    <3>1. flight' = flight /\ told' = told /\ stored' = stored /\ faults' \in 0 .. MaxFaults
      BY <2>2, <1>0 DEF cacheVars, CacheType
    <3> QED BY <2>1, <2>2, <3>1, AloneKeeps DEF Hows
  <2>3. CASE Computes(c)
    <3>1. at[c] = "admitted" \/ (at[c] = "waiting" /\ told[c] = "gone")
      BY <2>1
    <3> QED BY <2>3, <3>1, ComputesKeeps, Zenon
  <2> QED BY <1>1, <2>2, <2>3, Zenon DEF Handle
<1>2. CASE RunEnds(c)
  <2>1. at[c] = "computing" /\ Leaves(c, "ok") /\ Settles(c, "ok")
    BY <1>2 DEF RunEnds
  <2>2. stored' \subseteq Keys /\ faults' \in 0 .. MaxFaults
    BY <1>2, <1>0 DEF RunEnds, CacheType, BreakerType
  <2> QED BY <2>1, <2>2, SettledKeeps DEF Hows, Verdicts
<1>3. CASE Hears(c)
  <2>1. at[c] = "waiting" /\ at[c] \notin {"out", "computing"}
    BY <1>3 DEF Hears
  <2>2. CASE told[c] = "gone" /\ Computes(c)
    BY <2>1, <2>2, ComputesKeeps
  <2>3. CASE /\ told[c] \in Verdicts /\ Leaves(c, told[c])
             /\ told' = [told EXCEPT ![c] = "nothing"]
             /\ UNCHANGED faults /\ UNCHANGED cacheVars
    <3>1. flight' = flight /\ stored' = stored /\ faults' \in 0 .. MaxFaults /\ told[c] \in Hows
      BY <2>3, <1>0 DEF cacheVars, CacheType, Verdicts, Hows
    <3> QED BY <2>1, <2>3, <3>1, AloneKeeps
  <2> QED BY <1>3, <2>2, <2>3 DEF Hears
<1> QED BY <1>1, <1>2, <1>3 DEF Proceeds

LEMMA FailsKeeps ==
    ASSUME IInv, NEW c \in Calls, Fails(c)
    PROVE  IInv'
<1>0. BreakerType /\ CacheType
  BY TypeParts DEF IInv
<1>1. ASSUME NEW how \in {"failure", "rejection"}, RunFails(c, how)
      PROVE  IInv'
  <2>1. at[c] = "computing" /\ Leaves(c, how) /\ Settles(c, how) /\ Fault /\ stored' = stored
    BY <1>1 DEF RunFails
  <2>2. stored' \subseteq Keys /\ faults' \in 0 .. MaxFaults
    BY <2>1, <1>0, FaultType DEF CacheType
  <2>3. how \in Hows /\ how \in Verdicts \union {"gone"}
    BY DEF Hows, Verdicts
  <2> QED BY <2>1, <2>2, <2>3, SettledKeeps
<1>2. ASSUME NEW how \in {"failure", "cancelled"}, GivesUp(c, how)
      PROVE  IInv'
  <2>1. at[c] # "out" /\ Leaves(c, how) /\ Fault /\ stored' = stored /\ how \in Hows
    BY <1>2 DEF GivesUp, Hows
  <2>2. stored' \subseteq Keys /\ faults' \in 0 .. MaxFaults
    BY <2>1, <1>0, FaultType DEF CacheType
  <2>3. CASE at[c] = "computing"
    <3>1. Settles(c, "gone")
      BY <1>2, <2>3 DEF GivesUp
    <3> QED BY <2>1, <2>2, <2>3, <3>1, SettledKeeps
  <2>4. CASE at[c] # "computing"
    <3>1. told' = [told EXCEPT ![c] = "nothing"] /\ flight' = flight
      BY <1>2, <2>4 DEF GivesUp
    <3> QED BY <2>1, <2>2, <2>4, <3>1, AloneKeeps
  <2> QED BY <2>3, <2>4
<1> QED BY <1>1, <1>2 DEF Fails

\* The steps that touch no call: of the breaker, of time, and of the cache.
LEMMA OthersKeep ==
    ASSUME IInv, Refuse \/ Elapses \/ Reset \/ Expire \/ UNCHANGED vars
    PROVE  IInv'
<1>0. BreakerType /\ CacheType
  BY TypeParts DEF IInv
<1>1. UNCHANGED <<at, key, told, on, probing>> /\ UNCHANGED <<failures, probe, flight, faults>>
  BY DEF Refuse, Elapses, Reset, Expire, vars, callVars, objectVars, cacheVars
<1>2. OneProbe' /\ OneFlight'
  BY <1>1 DEF IInv, OneProbe, OneFlight, Inside
<1>3. stored' \subseteq Keys
  BY <1>0 DEF Refuse, Elapses, Reset, Expire, vars, cacheVars, CacheType
<1>4. CacheType'
  BY <1>0, <1>1, <1>3 DEF CacheType
<1>5. state' = state \/ \E n \in Circuits : state' = [state EXCEPT ![n] = "half_open"]
  BY <1>0 DEF Refuse, Elapses, Reset, Expire, vars, objectVars, BreakerType
<1>6. elapsed' = elapsed \/ elapsed' = [elapsed EXCEPT ![circuit] = TRUE]
  BY DEF Refuse, Elapses, Reset, Expire, vars, objectVars
<1>7. circuit' \in Circuits /\ resets' \in 0 .. MaxResets
  BY <1>0, Constants DEF Refuse, Elapses, Reset, Expire, vars, BreakerType, Circuits
<1>8. state' \in [Circuits -> {"closed", "open", "half_open"}]
  BY <1>0, <1>5 DEF BreakerType
<1>9. \A n \in Circuits : state'[n] = "closed" => state[n] = "closed"
  BY <1>0, <1>5 DEF BreakerType
<1>10. elapsed' \in [Circuits -> BOOLEAN]
  BY <1>0, <1>6 DEF BreakerType
<1>11. BreakerType'
  BY <1>0, <1>1, <1>7, <1>8, <1>9, <1>10 DEF BreakerType
<1> QED BY <1>2, <1>4, <1>11, TypeParts DEF IInv

LEMMA InitHolds == Init => IInv
<1>1. SUFFICES ASSUME Init PROVE IInv
  OBVIOUS
<1>2. BreakerType
  BY <1>1, Constants DEF Init, BreakerType, Stays
<1>3. CacheType
  BY <1>1, Constants DEF Init, CacheType
<1>4. OneProbe
  BY <1>1 DEF Init, OneProbe, Inside
<1>5. OneFlight
  BY <1>1, Constants DEF Init, OneFlight
<1> QED BY <1>2, <1>3, <1>4, <1>5, TypeParts DEF IInv

-----------------------------------------------------------------------------
\* The invariant holds in every state of the guards.
THEOREM Inductive == Spec => []IInv
<1>1. Init => IInv
  BY InitHolds
<1>2. IInv /\ [Next]_vars => IInv'
  <2>1. SUFFICES ASSUME IInv, [Next]_vars PROVE IInv'
    OBVIOUS
  <2>2. CASE Admits
    BY <2>1, <2>2, AdmitKeeps DEF Admits
  <2>3. CASE \E c \in Calls : Proceeds(c) \/ Fails(c)
    BY <2>1, <2>3, ProceedsKeeps, FailsKeeps
  <2>4. CASE Refuse \/ Elapses \/ Reset \/ Expire \/ UNCHANGED vars
    BY <2>1, <2>4, OthersKeep
  <2> QED BY <2>1, <2>2, <2>3, <2>4 DEF Next
<1> QED BY <1>1, <1>2, PTL DEF Spec

\* Every variable keeps its type and a closed circuit is below its threshold.
THEOREM TypeCorrect == Spec => []TypeOK
<1>1. IInv => TypeOK
  BY DEF IInv
<1> QED BY <1>1, Inductive, PTL

\* A circuit has one probe at a time and a mark only for a probe that runs.
THEOREM ProbeIsAlone == Spec => []OneProbe
<1>1. IInv => OneProbe
  BY DEF IInv
<1> QED BY <1>1, Inductive, PTL

\* A key is computed once at a time and nobody waits for a computation that is
\* gone.
THEOREM FlightIsAlone == Spec => []OneFlight
<1>1. IInv => OneFlight
  BY DEF IInv
<1> QED BY <1>1, Inductive, PTL
=============================================================================
