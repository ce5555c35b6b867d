------------------------ MODULE TriggerDeliveryProofs ------------------------
(***************************************************************************)
(* What holds of the events of an agent process, however many events and   *)
(* workers there are and whatever its capacities.                          *)
(*                                                                         *)
(* The argument: at every moment each event is in one place (Partition), a *)
(* step moves some events to one place (Shift), and what the places mean   *)
(* gives the fates and bounds the attempts.  The same moves keep the order *)
(* of arrival: an event goes from a place to the next on its way.          *)
(***************************************************************************)
EXTENDS TriggerDelivery, FiniteSetTheorems, SequenceTheorems, TLAPS

-----------------------------------------------------------------------------
(* Lists: sequences of events without repetition *)

List(s) == s \in Seq(Events) /\ IsInjective(s)

LEMMA InSet == \A s, e : e \in ToSet(s) <=> \E i \in DOMAIN s : s[i] = e
BY DEF ToSet

LEMMA EmptyList == List(<<>>) /\ ToSet(<<>>) = {}
BY DEF List, IsInjective, ToSet

LEMMA OneList ==
    ASSUME NEW e \in Events
    PROVE  List(<<e>>) /\ ToSet(<<e>>) = {e} /\ Len(<<e>>) = 1
BY DEF List, IsInjective, ToSet

LEMMA AppendList ==
    ASSUME NEW s, List(s), NEW e \in Events, e \notin ToSet(s)
    PROVE  /\ List(Append(s, e)) /\ ToSet(Append(s, e)) = ToSet(s) \cup {e}
           /\ Len(Append(s, e)) = Len(s) + 1
<1> DEFINE a == Append(s, e)
<1>1. /\ s \in Seq(Events) /\ Len(s) \in Nat /\ DOMAIN s = 1 .. Len(s)
      /\ \A i, j \in 1 .. Len(s) : s[i] = s[j] => i = j
  BY LenProperties DEF List, IsInjective
<1>2. /\ a \in Seq(Events) /\ Len(a) = Len(s) + 1 /\ DOMAIN a = 1 .. Len(s) + 1
      /\ \A i \in 1 .. Len(s) : a[i] = s[i]
      /\ a[Len(s) + 1] = e
  BY <1>1, AppendProperties, LenProperties
<1>3. \A i \in 1 .. Len(s) : s[i] # e
  BY <1>1 DEF ToSet
<1>4. \A i \in 1 .. Len(s) + 1 : i \in 1 .. Len(s) \/ i = Len(s) + 1
  BY <1>1
<1> HIDE DEF a
<1>5. IsInjective(a)
  BY <1>1, <1>2, <1>3, <1>4 DEF IsInjective
<1>6. ToSet(a) = ToSet(s) \cup {e}
  <2>1. ToSet(a) \subseteq ToSet(s) \cup {e}
    BY <1>1, <1>2, <1>4 DEF ToSet
  <2>2. ToSet(s) \cup {e} \subseteq ToSet(a)
    BY <1>1, <1>2 DEF ToSet
  <2> QED BY <2>1, <2>2
<1> QED BY <1>2, <1>5, <1>6 DEF List, a

LEMMA ConcatList ==
    ASSUME NEW s, List(s), NEW r, List(r), ToSet(s) \cap ToSet(r) = {}
    PROVE  /\ List(s \o r) /\ ToSet(s \o r) = ToSet(s) \cup ToSet(r)
           /\ Len(s \o r) = Len(s) + Len(r)
<1> DEFINE a == s \o r
<1>1. /\ s \in Seq(Events) /\ Len(s) \in Nat /\ DOMAIN s = 1 .. Len(s)
      /\ r \in Seq(Events) /\ Len(r) \in Nat /\ DOMAIN r = 1 .. Len(r)
      /\ \A i, j \in 1 .. Len(s) : s[i] = s[j] => i = j
      /\ \A i, j \in 1 .. Len(r) : r[i] = r[j] => i = j
      /\ \A i \in 1 .. Len(s), j \in 1 .. Len(r) : s[i] # r[j]
  BY LenProperties DEF List, IsInjective, ToSet
<1>2. /\ a \in Seq(Events) /\ Len(a) = Len(s) + Len(r) /\ DOMAIN a = 1 .. Len(s) + Len(r)
      /\ \A i \in 1 .. Len(s) + Len(r) : a[i] = IF i <= Len(s) THEN s[i] ELSE r[i - Len(s)]
  BY <1>1, ConcatProperties, LenProperties
<1> HIDE DEF a
<1>3. \A i \in 1 .. Len(s) + Len(r) :
         (i \in 1 .. Len(s) /\ a[i] = s[i]) \/ (i - Len(s) \in 1 .. Len(r) /\ a[i] = r[i - Len(s)])
  BY <1>1, <1>2
<1>4. IsInjective(a)
  <2> SUFFICES ASSUME NEW i \in 1 .. Len(s) + Len(r), NEW j \in 1 .. Len(s) + Len(r), a[i] = a[j]
               PROVE  i = j
    BY <1>2 DEF IsInjective
  <2>1. CASE i \in 1 .. Len(s) /\ a[i] = s[i]
    BY <2>1, <1>1, <1>3
  <2>2. CASE i - Len(s) \in 1 .. Len(r) /\ a[i] = r[i - Len(s)]
    <3>1. ~(j \in 1 .. Len(s) /\ a[j] = s[j])
      BY <2>2, <1>1
    <3>2. j - Len(s) \in 1 .. Len(r) /\ a[j] = r[j - Len(s)]
      BY <3>1, <1>3
    <3>3. i - Len(s) = j - Len(s)
      BY <2>2, <3>2, <1>1
    <3> QED BY <3>3, <1>1
  <2> QED BY <2>1, <2>2, <1>3
<1>5. ToSet(a) = ToSet(s) \cup ToSet(r)
  <2>1. \A i \in DOMAIN a : a[i] \in ToSet(s) \/ a[i] \in ToSet(r)
    <3> TAKE i \in DOMAIN a
    <3>1. CASE i \in 1 .. Len(s) /\ a[i] = s[i]
      BY <3>1, <1>1, InSet
    <3>2. CASE i - Len(s) \in 1 .. Len(r) /\ a[i] = r[i - Len(s)]
      BY <3>2, <1>1, InSet
    <3> QED BY <3>1, <3>2, <1>2, <1>3
  <2>2. \A i \in 1 .. Len(s) : i \in DOMAIN a /\ a[i] = s[i]
    BY <1>1, <1>2
  <2>3. \A j \in 1 .. Len(r) : j + Len(s) \in DOMAIN a /\ a[j + Len(s)] = r[j]
    <3> TAKE j \in 1 .. Len(r)
    <3>1. j + Len(s) \in 1 .. Len(s) + Len(r) /\ ~(j + Len(s) <= Len(s)) /\ j + Len(s) - Len(s) = j
      BY <1>1
    <3> QED BY <3>1, <1>2
  <2>4. \A e : e \in ToSet(a) <=> e \in ToSet(s) \/ e \in ToSet(r)
    BY <1>1, <2>1, <2>2, <2>3, InSet
  <2> QED BY <2>4
<1> QED BY <1>2, <1>4, <1>5 DEF List, a

LEMMA PartList ==
    ASSUME NEW s, List(s), NEW m \in Nat \ {0}, NEW n \in 0 .. Len(s)
    PROVE  /\ List(SubSeq(s, m, n))
           /\ Len(SubSeq(s, m, n)) = IF m <= n THEN n - m + 1 ELSE 0
           /\ \A e : e \in ToSet(SubSeq(s, m, n)) <=> \E i \in m .. n : s[i] = e
<1> DEFINE a == SubSeq(s, m, n)
<1>1. /\ s \in Seq(Events) /\ Len(s) \in Nat /\ DOMAIN s = 1 .. Len(s)
      /\ \A i, j \in 1 .. Len(s) : s[i] = s[j] => i = j
      /\ \A i \in m .. n : s[i] \in Events
  BY LenProperties, ElementOfSeq DEF List, IsInjective
<1>2. /\ a \in Seq(Events) /\ Len(a) = IF m <= n THEN n - m + 1 ELSE 0
      /\ \A i \in 1 .. n - m + 1 : a[i] = s[m + i - 1]
      /\ DOMAIN a = 1 .. n - m + 1
  BY <1>1, SubSeqProperties, LenProperties
<1> HIDE DEF a
<1>3. /\ \A i \in DOMAIN a : m + i - 1 \in m .. n /\ m + i - 1 \in 1 .. Len(s) /\ a[i] = s[m + i - 1]
      /\ \A i \in m .. n : i - m + 1 \in DOMAIN a /\ a[i - m + 1] = s[i]
  <2>1. m \in Nat /\ n \in Nat /\ n <= Len(s) /\ 1 <= m /\ Len(s) \in Nat
    BY <1>1
  <2>2. ASSUME NEW i \in DOMAIN a
        PROVE  m + i - 1 \in m .. n /\ m + i - 1 \in 1 .. Len(s) /\ a[i] = s[m + i - 1]
    <3>1. i \in 1 .. n - m + 1
      BY <1>2
    <3>2. m + i - 1 \in m .. n /\ m + i - 1 \in 1 .. Len(s)
      BY <2>1, <3>1
    <3> QED BY <1>2, <3>1, <3>2
  <2>3. ASSUME NEW i \in m .. n
        PROVE  i - m + 1 \in DOMAIN a /\ a[i - m + 1] = s[i]
    <3>1. i - m + 1 \in 1 .. n - m + 1 /\ m + (i - m + 1) - 1 = i
      BY <2>1
    <3> QED BY <1>2, <3>1
  <2> QED BY <2>2, <2>3
<1>4. IsInjective(a)
  <2> SUFFICES ASSUME NEW i \in DOMAIN a, NEW j \in DOMAIN a, a[i] = a[j] PROVE i = j
    BY DEF IsInjective
  <2>1. m + i - 1 = m + j - 1
    BY <1>1, <1>3
  <2> QED BY <2>1, <1>2
<1>5. \A e : e \in ToSet(a) <=> \E i \in m .. n : s[i] = e
  BY <1>3, InSet
<1> QED BY <1>2, <1>4, <1>5 DEF List, a

LEMMA TailList ==
    ASSUME NEW s, List(s), s # <<>>
    PROVE  /\ List(Tail(s)) /\ ToSet(Tail(s)) = ToSet(s) \ {Head(s)}
           /\ Head(s) \in ToSet(s) /\ Head(s) \in Events
           /\ Len(Tail(s)) = Len(s) - 1
<1>1. /\ s \in Seq(Events) /\ Len(s) \in Nat \ {0} /\ DOMAIN s = 1 .. Len(s)
      /\ \A i, j \in 1 .. Len(s) : s[i] = s[j] => i = j
  BY LenProperties, EmptySeq DEF List, IsInjective
<1>2. Tail(s) = SubSeq(s, 2, Len(s)) /\ Head(s) = s[1] /\ Len(Tail(s)) = Len(s) - 1
  BY <1>1, TailIsSubSeq, HeadTailProperties
<1>3. List(Tail(s)) /\ \A e : e \in ToSet(Tail(s)) <=> \E i \in 2 .. Len(s) : s[i] = e
  <2>1. 2 \in Nat \ {0} /\ Len(s) \in 0 .. Len(s)
    BY <1>1
  <2> DEFINE a == SubSeq(s, 2, Len(s))
  <2>2. List(a) /\ \A e : e \in ToSet(a) <=> \E i \in 2 .. Len(s) : s[i] = e
    BY <2>1, PartList
  <2>3. Tail(s) = a
    BY <1>2
  <2> HIDE DEF a
  <2> QED BY <2>2, <2>3
<1>4. \A e : (\E i \in 2 .. Len(s) : s[i] = e) <=> (\E i \in 1 .. Len(s) : s[i] = e) /\ e # s[1]
  BY <1>1
<1>5. ToSet(Tail(s)) = ToSet(s) \ {s[1]} /\ s[1] \in ToSet(s)
  BY <1>1, <1>3, <1>4, InSet
<1> QED BY <1>1, <1>2, <1>3, <1>5, ElementOfSeq

LEMMA RemoveList ==
    ASSUME NEW s, List(s), NEW k \in DOMAIN s
    PROVE  /\ List(RemoveAt(s, k)) /\ ToSet(RemoveAt(s, k)) = ToSet(s) \ {s[k]}
           /\ s[k] \in ToSet(s) /\ s[k] \in Events
           /\ Len(RemoveAt(s, k)) = Len(s) - 1
<1> DEFINE a == SubSeq(s, 1, k - 1)
           b == SubSeq(s, k + 1, Len(s))
<1>1. /\ s \in Seq(Events) /\ Len(s) \in Nat /\ DOMAIN s = 1 .. Len(s)
      /\ \A i, j \in 1 .. Len(s) : s[i] = s[j] => i = j
      /\ s[k] \in Events
  BY LenProperties, ElementOfSeq DEF List, IsInjective
<1>2. /\ List(a) /\ Len(a) = k - 1
      /\ \A e : e \in ToSet(a) <=> \E i \in 1 .. k - 1 : s[i] = e
  <2>1. 1 \in Nat \ {0} /\ k - 1 \in 0 .. Len(s) /\ (IF 1 <= k - 1 THEN k - 1 - 1 + 1 ELSE 0) = k - 1
    BY <1>1
  <2>2. /\ List(a) /\ Len(a) = IF 1 <= k - 1 THEN k - 1 - 1 + 1 ELSE 0
        /\ \A e : e \in ToSet(a) <=> \E i \in 1 .. k - 1 : s[i] = e
    BY <2>1, PartList
  <2> QED BY <2>1, <2>2
<1>3. /\ List(b) /\ Len(b) = Len(s) - k
      /\ \A e : e \in ToSet(b) <=> \E i \in k + 1 .. Len(s) : s[i] = e
  <2>1. /\ k + 1 \in Nat \ {0} /\ Len(s) \in 0 .. Len(s)
        /\ (IF k + 1 <= Len(s) THEN Len(s) - (k + 1) + 1 ELSE 0) = Len(s) - k
    BY <1>1
  <2>2. /\ List(b) /\ Len(b) = IF k + 1 <= Len(s) THEN Len(s) - (k + 1) + 1 ELSE 0
        /\ \A e : e \in ToSet(b) <=> \E i \in k + 1 .. Len(s) : s[i] = e
    BY <2>1, PartList
  <2> QED BY <2>1, <2>2
<1> HIDE DEF a, b
<1>4. ToSet(a) \cap ToSet(b) = {}
  BY <1>1, <1>2, <1>3
<1>5. ToSet(a) \cup ToSet(b) = ToSet(s) \ {s[k]} /\ s[k] \in ToSet(s)
  <2>1. \A i \in 1 .. Len(s) : i # k <=> i \in 1 .. k - 1 \/ i \in k + 1 .. Len(s)
    BY <1>1
  <2>2. \A i \in 1 .. Len(s) : s[i] = s[k] <=> i = k
    BY <1>1
  <2>3. \A i \in (1 .. k - 1) \cup (k + 1 .. Len(s)) : i \in 1 .. Len(s)
    BY <1>1
  <2>4. \A e : e \in ToSet(a) \/ e \in ToSet(b) <=> e \in ToSet(s) /\ e # s[k]
    <3> TAKE e
    <3>1. e \in ToSet(a) \/ e \in ToSet(b) <=> \E i \in 1 .. Len(s) : i # k /\ s[i] = e
      BY <2>1, <2>3, <1>2, <1>3
    <3>2. e \in ToSet(s) <=> \E i \in 1 .. Len(s) : s[i] = e
      BY <1>1, InSet
    <3> QED BY <2>2, <3>1, <3>2
  <2>5. s[k] \in ToSet(s)
    BY InSet
  <2> QED BY <2>4, <2>5
<1>6. List(a \o b) /\ ToSet(a \o b) = ToSet(a) \cup ToSet(b) /\ Len(a \o b) = Len(a) + Len(b)
  BY <1>2, <1>3, <1>4, ConcatList
<1>7. RemoveAt(s, k) = a \o b
  BY DEF RemoveAt, a, b
<1>8. Len(RemoveAt(s, k)) = Len(s) - 1
  <2>1. Len(RemoveAt(s, k)) = (k - 1) + (Len(s) - k)
    BY <1>2, <1>3, <1>6, <1>7
  <2>2. k \in Int /\ Len(s) \in Int
    BY <1>1
  <2> QED BY <2>1, <2>2
<1> QED BY <1>1, <1>5, <1>6, <1>7, <1>8

\* Every order of a finite set lists it.
LEMMA OrderList ==
    ASSUME NEW S \in SUBSET Events, IsFiniteSet(S), NEW s \in SetToSeqs(S)
    PROVE  List(s) /\ ToSet(s) = S
<1> DEFINE n == Cardinality(S)
<1>1. n \in Nat
  BY FS_CardinalityType
<1>2. s \in [1 .. n -> S] /\ \A i, j \in 1 .. n : i # j => s[i] # s[j]
  BY DEF SetToSeqs
<1>3. s \in Seq(Events) /\ DOMAIN s = 1 .. n
  BY <1>1, <1>2, SeqDef
<1>4. s \in Injection(1 .. n, S)
  BY <1>2 DEF Injection, IsInjective
<1>5. IsFiniteSet(1 .. n) /\ Cardinality(1 .. n) = n
  BY <1>1, FS_Interval
<1>6. s \in Surjection(1 .. n, S)
  BY <1>4, <1>5, FS_Injection
<1>7. \A e \in S : \E i \in 1 .. n : s[i] = e
  BY <1>6 DEF Surjection
<1> QED BY <1>2, <1>3, <1>7 DEF List, IsInjective, ToSet

-----------------------------------------------------------------------------
(* The places of an event *)

InDead == ToSet(dead) \cup forgotten

Names == {"new", "buffer", "listener", "leftovers", "queue", "retries", "injecting", "hold",
          "run", "done", "cut", "dropped", "dead"}

Content ==
    [new |-> Events \ born, buffer |-> ToSet(buffer), listener |-> {listener.event} \ {NoEvent},
     leftovers |-> ToSet(EventsIn(leftovers)), queue |-> ToSet(queue),
     retries |-> ToSet(retries), injecting |-> injecting,
     hold |-> {e \in Events : Holds(e)}, run |-> {e \in Events : Runs(e)},
     done |-> done, cut |-> cut, dropped |-> dropped, dead |-> InDead]

\* Where the events of a place may come from.
Sources(t) ==
    CASE t = "buffer"    -> {"new"}
      [] t = "injecting" -> {"new"}
      [] t = "listener"  -> {"buffer"}
      [] t = "leftovers" -> {"listener", "buffer"}
      [] t = "queue"     -> {"listener", "leftovers", "retries", "injecting", "dead"}
      [] t = "retries"   -> {"run"}
      [] t = "hold"      -> {"queue"}
      [] t = "run"       -> {"hold"}
      [] t \in {"done", "cut"} -> {"run"}
      [] t = "dropped"   -> {"buffer", "listener", "leftovers", "injecting"}
      [] t = "dead"      -> Names \ {"done", "cut", "dropped", "dead"}
      [] OTHER           -> {}

-----------------------------------------------------------------------------
(* The inductive invariant *)

\* Where a worker may be, and where it has an event without an outcome.
WorkerPlaces == RunPlaces \cup {"none", "idle", "hold", "hooks", "failing"}
InHand == RunPlaces \cup {"hold"}
USE DEF RunPlaces, InHand, WorkerPlaces

\* The control plane: who is gone in which stage.
ControlInv ==
    /\ state \in States /\ stage \in Stages /\ owner \in Workers \cup {NoWorker}
    /\ final \in BOOLEAN /\ recycled \in BOOLEAN /\ draining \in BOOLEAN /\ live \in BOOLEAN
    /\ at \in [Workers -> WorkerPlaces]
    /\ \A w \in Workers : at[w] # "none" => stage = "up" \/ w = owner
    /\ owner # NoWorker => stage \in {"workers", "listeners", "refill", "release", "owner"}
    /\ stage = "owner" => owner # NoWorker

\* What the trigger and its listener may hold in which stage.
Trigger ==
    /\ listener \in [at : {"waiting", "admitting", "putting", "none"}, event : Events \cup {NoEvent}]
    /\ listener.event # NoEvent <=> listener.at \in {"admitting", "putting"}
    /\ stage \notin {"up", "workers"} => listener = Gone
    /\ stage = "up" /\ ~live => listener = Gone
    /\ ~live => buffer = <<>>
    /\ stage \in {"down", "refill", "release", "owner"} => ~live
    /\ stage \notin {"listeners", "refill"} => leftovers = <<>>

\* The containers list their events.
Containers ==
    /\ List(buffer) /\ Len(buffer) <= BufferSize
    /\ leftovers \in Seq([event : Events, admitted : BOOLEAN]) /\ List(EventsIn(leftovers))
    /\ List(queue) /\ Len(queue) <= QueueSize
    /\ List(retries)
    /\ injecting \subseteq Events /\ born \subseteq Events /\ done \subseteq Events
    /\ cut \subseteq Events /\ dropped \subseteq Events /\ requeued \subseteq Events

\* So do the dead letters, and a forgotten one is gone.
DeadLetters ==
    /\ List(dead) /\ Len(dead) <= DeadLetterSize
    /\ forgotten \subseteq Events /\ ToSet(dead) \cap forgotten = {}
    /\ attempts \in [Events -> Nat]

\* Two workers never hold the same event.
Hands ==
    /\ event \in [Workers -> Events \cup {NoEvent}]
    /\ \A w \in Holding : event[w] \in Events
    /\ \A v, w \in Holding : event[v] = event[w] => v = w

\* Every event is in exactly one place.
Partition ==
    /\ \A e \in Events : \E n \in Names : e \in Content[n]
    /\ \A m, n \in Names : m # n => Content[m] \cap Content[n] = {}

\* Only an event that runs, or has run, may have used its last attempt.
RanOut == {"run", "done", "cut"}
Tries ==
    \A e \in Events :
        attempts[e] <= IF \E n \in RanOut : e \in Content[n] THEN MaxRetries + 1 ELSE MaxRetries

IInv == ControlInv /\ Trigger /\ Containers /\ DeadLetters /\ Hands /\ Partition /\ Tries

-----------------------------------------------------------------------------
(* Moving events *)

\* The events M, and no others, change their place: it is t now.
Shift(M, t) ==
    \A n \in Names : Content'[n] = IF n = t THEN Content[n] \cup M ELSE Content[n] \ M

\* The attempts of an event grow when it starts to run; one that waits for a
\* retry has some left, a dead letter has all of them.
Tried(M, t) ==
    /\ \A e \in Events : attempts'[e] <= attempts[e]
                          \/ (t = "run" /\ e \in M /\ attempts'[e] = attempts[e] + 1)
    /\ t \in {"retries", "dead"} => \A e \in M : attempts'[e] <= MaxRetries

Moved(M, t) ==
    /\ \A e \in M : \E n \in Sources(t) : e \in Content[n]
    /\ Shift(M, t)
    /\ Tried(M, t)

Moves == \E t \in Names : \E M \in SUBSET Events : Moved(M, t)

LEMMA ContentIs ==
    /\ Content["new"] = Events \ born /\ Content["buffer"] = ToSet(buffer)
    /\ Content["listener"] = {listener.event} \ {NoEvent}
    /\ Content["leftovers"] = ToSet(EventsIn(leftovers)) /\ Content["queue"] = ToSet(queue)
    /\ Content["retries"] = ToSet(retries) /\ Content["injecting"] = injecting
    /\ Content["hold"] = {e \in Events : Holds(e)} /\ Content["run"] = {e \in Events : Runs(e)}
    /\ Content["done"] = done /\ Content["cut"] = cut
    /\ Content["dropped"] = dropped /\ Content["dead"] = InDead
BY DEF Content

LEMMA ContentWillBe ==
    /\ Content'["new"] = Events \ born' /\ Content'["buffer"] = ToSet(buffer')
    /\ Content'["listener"] = {listener.event}' \ {NoEvent}
    /\ Content'["leftovers"] = ToSet(EventsIn(leftovers')) /\ Content'["queue"] = ToSet(queue')
    /\ Content'["retries"] = ToSet(retries') /\ Content'["injecting"] = injecting'
    /\ Content'["hold"] = {e \in Events : Holds(e)'} /\ Content'["run"] = {e \in Events : Runs(e)'}
    /\ Content'["done"] = done' /\ Content'["cut"] = cut'
    /\ Content'["dropped"] = dropped' /\ Content'["dead"] = InDead'
BY DEF Content

\* What a step leaves alone keeps its events.
LEMMA Frame ==
    /\ born' = born => Content'["new"] = Content["new"]
    /\ buffer' = buffer => Content'["buffer"] = Content["buffer"]
    /\ listener' = listener => Content'["listener"] = Content["listener"]
    /\ leftovers' = leftovers => Content'["leftovers"] = Content["leftovers"]
    /\ queue' = queue => Content'["queue"] = Content["queue"]
    /\ retries' = retries => Content'["retries"] = Content["retries"]
    /\ injecting' = injecting => Content'["injecting"] = Content["injecting"]
    /\ at' = at /\ event' = event => /\ Content'["hold"] = Content["hold"]
                                     /\ Content'["run"] = Content["run"]
    /\ done' = done => Content'["done"] = Content["done"]
    /\ cut' = cut => Content'["cut"] = Content["cut"]
    /\ dropped' = dropped => Content'["dropped"] = Content["dropped"]
    /\ dead' = dead /\ forgotten' = forgotten => Content'["dead"] = Content["dead"]
BY ContentIs, ContentWillBe DEF Holds, Runs, InDead

\* A step that takes M from the places S to t, and touches no other place.
LEMMA MovesTo ==
    ASSUME Partition, NEW t \in Names, NEW S \in SUBSET Sources(t), NEW M \in SUBSET Events,
           t \notin S, S \subseteq Names,
           \A e \in M : \E n \in S : e \in Content[n],
           Content'[t] = Content[t] \cup M,
           \A n \in S : Content'[n] = Content[n] \ M,
           \A n \in Names \ (S \cup {t}) : Content'[n] = Content[n],
           Tried(M, t)
    PROVE  Moves
<1>1. \A n \in Names \ (S \cup {t}) : Content[n] \ M = Content[n]
  BY DEF Partition
<1>2. Shift(M, t)
  BY <1>1 DEF Shift
<1> QED BY <1>2 DEF Moves, Moved

\* A step that moves no event.
LEMMA MovesNothing ==
    ASSUME \A n \in Names : Content'[n] = Content[n], attempts' = attempts, DeadLetters
    PROVE  Moves
<1>1. Shift({}, "queue")
  BY DEF Shift
<1>2. Tried({}, "queue")
  BY DEF Tried, DeadLetters
<1> QED BY <1>1, <1>2 DEF Moves, Moved, Names

\* However events move, each is in one place and its attempts are bounded.
LEMMA MovesKeep ==
    ASSUME IInv, Moves, DeadLetters'
    PROVE  Partition' /\ Tries'
<1>1. PICK t \in Names, M \in SUBSET Events : Moved(M, t)
  BY DEF Moves
<1>2. Partition'
  <2>1. \A e \in Events : \E n \in Names : e \in Content'[n]
    BY <1>1 DEF Moved, Shift, IInv, Partition
  <2>2. \A m, n \in Names : m # n => Content'[m] \cap Content'[n] = {}
    BY <1>1 DEF Moved, Shift, IInv, Partition
  <2> QED BY <2>1, <2>2 DEF Partition
<1>3. ASSUME NEW e \in Events
      PROVE  attempts'[e] <= IF \E n \in RanOut : e \in Content'[n]
                             THEN MaxRetries + 1 ELSE MaxRetries
  <2>1. /\ attempts[e] \in Nat /\ attempts'[e] \in Nat /\ MaxRetries \in Nat
        /\ attempts[e] <= IF \E n \in RanOut : e \in Content[n]
                           THEN MaxRetries + 1 ELSE MaxRetries
    BY SizesAssumption DEF IInv, DeadLetters, Tries
  <2>2. \A n \in Names : e \in Content'[n] <=> IF n = t THEN e \in Content[n] \/ e \in M
                                                       ELSE e \in Content[n] /\ e \notin M
    BY <1>1 DEF Moved, Shift
  <2>3. CASE e \notin M
    <3>1. attempts'[e] <= attempts[e]
      BY <1>1, <2>3 DEF Moved, Tried
    <3>2. \A n \in Names : e \in Content'[n] <=> e \in Content[n]
      BY <2>2, <2>3
    <3> QED BY <2>1, <3>1, <3>2 DEF Names, RanOut
  <2>4. CASE e \in M
    <3>1. e \in Content'[t]
      BY <2>2, <2>4
    <3>2. PICK n \in Sources(t) : e \in Content[n]
      BY <1>1, <2>4 DEF Moved
    <3>3. CASE t \in {"retries", "dead"}
      BY <1>1, <2>1, <2>4, <3>3 DEF Moved, Tried
    <3>4. CASE t \in RanOut
      <4>1. t = "run" => \A m \in RanOut : e \notin Content[m]
        BY <3>2 DEF Sources, IInv, Partition, Names, RanOut
      <4>2. attempts'[e] <= MaxRetries + 1
        BY <1>1, <2>1, <3>4, <4>1 DEF Moved, Tried, RanOut
      <4> QED BY <3>1, <3>4, <4>2
    <3>5. CASE t \notin {"retries", "dead"} \cup RanOut
      <4>1. n \in Names /\ n \notin RanOut
        BY <3>2, <3>5 DEF Sources, Names, RanOut
      <4>2. \A m \in RanOut : e \notin Content[m]
        BY <3>2, <4>1 DEF IInv, Partition, Names, RanOut
      <4> QED BY <1>1, <2>1, <3>5, <4>2 DEF Moved, Tried, RanOut
    <3> QED BY <3>3, <3>4, <3>5
  <2> QED BY <2>3, <2>4
<1> QED BY <1>2, <1>3 DEF Tries

-----------------------------------------------------------------------------
(* What the shared pieces of the operations do *)

\* Dead-lettering a list of events: those that no longer fit are forgotten.
LEMMA DeadLettered ==
    ASSUME DeadLetters, NEW es, List(es), ToSet(es) \cap InDead = {}, DeadLetter(es)
    PROVE  /\ DeadLetters' /\ InDead' = InDead \cup ToSet(es)
           /\ \A t, M : M = ToSet(es) => Tried(M, t)
<1> DEFINE all == dead \o es
           over == IF Len(all) > DeadLetterSize THEN Len(all) - DeadLetterSize ELSE 0
           first == SubSeq(all, 1, over)
           rest == SubSeq(all, over + 1, Len(all))
<1>1. List(all) /\ ToSet(all) = ToSet(dead) \cup ToSet(es)
  BY ConcatList DEF DeadLetters, InDead
<1>2. dead' = rest /\ forgotten' = forgotten \cup ToSet(first)
  BY DEF DeadLetter
<1> HIDE DEF all
<1>3. Len(all) \in Nat /\ DOMAIN all = 1 .. Len(all)
      /\ \A i, j \in 1 .. Len(all) : all[i] = all[j] => i = j
  BY <1>1, LenProperties DEF List, IsInjective
<1>4. /\ over \in 0 .. Len(all) /\ over + 1 \in Nat \ {0} /\ 1 \in Nat \ {0} /\ Len(all) \in 0 .. Len(all)
      /\ (IF over + 1 <= Len(all) THEN Len(all) - (over + 1) + 1 ELSE 0) <= DeadLetterSize
  BY <1>3, SizesAssumption
<1> HIDE DEF over
<1>5. /\ List(first) /\ \A e : e \in ToSet(first) <=> \E i \in 1 .. over : all[i] = e
  BY <1>1, <1>4, PartList
<1>6. /\ List(rest) /\ Len(rest) = IF over + 1 <= Len(all) THEN Len(all) - (over + 1) + 1 ELSE 0
      /\ \A e : e \in ToSet(rest) <=> \E i \in over + 1 .. Len(all) : all[i] = e
  BY <1>1, <1>4, PartList
<1> HIDE DEF first, rest
<1>7. \A i \in 1 .. Len(all) : i \in 1 .. over \/ i \in over + 1 .. Len(all)
  BY <1>3, <1>4
<1>8. /\ \A i \in 1 .. over : i \in 1 .. Len(all) /\ i \notin over + 1 .. Len(all)
      /\ \A i \in over + 1 .. Len(all) : i \in 1 .. Len(all)
  BY <1>3, <1>4
<1>9. ToSet(first) \cup ToSet(rest) = ToSet(all)
  <2>1. \A e : e \in ToSet(all) <=> \E i \in 1 .. Len(all) : all[i] = e
    BY <1>3, InSet
  <2> QED BY <2>1, <1>5, <1>6, <1>7, <1>8
<1>10. ToSet(first) \cap ToSet(rest) = {}
  BY <1>3, <1>5, <1>6, <1>8
<1>11. ToSet(all) \subseteq Events
  BY <1>1, <1>3, InSet, ElementOfSeq DEF List
<1>12. attempts' = [e \in Events |-> IF e \in ToSet(es) THEN 0 ELSE attempts[e]]
  BY DEF DeadLetter
<1>13. InDead' = InDead \cup ToSet(es)
  BY <1>1, <1>2, <1>9 DEF InDead
<1>14. DeadLetters'
  <2>1. List(dead') /\ Len(dead') <= DeadLetterSize
    BY <1>2, <1>4, <1>6
  <2>2. forgotten' \subseteq Events
    BY <1>2, <1>9, <1>11 DEF DeadLetters
  <2>3. ToSet(dead') \cap forgotten' = {}
    BY <1>1, <1>2, <1>9, <1>10 DEF DeadLetters, InDead
  <2>4. attempts' \in [Events -> Nat]
    BY <1>12 DEF DeadLetters
  <2> QED BY <2>1, <2>2, <2>3, <2>4 DEF DeadLetters
<1>15. ASSUME NEW t, NEW M, M = ToSet(es) PROVE Tried(M, t)
  <2>1. ToSet(es) \subseteq Events
    BY <1>1, <1>11
  <2>2. \A e \in Events : attempts'[e] = (IF e \in M THEN 0 ELSE attempts[e]) /\ attempts[e] \in Nat
    BY <1>12, <1>15 DEF DeadLetters
  <2> QED BY <1>15, <2>1, <2>2, SizesAssumption DEF Tried
<1> QED BY <1>13, <1>14, <1>15

LEMMA NotDeadLettered ==
    ASSUME DeadLetters, NoDeadLetter
    PROVE  /\ DeadLetters' /\ InDead' = InDead /\ attempts' = attempts
           /\ \A t, M : t \notin {"retries", "dead"} => Tried(M, t)
<1>1. \A e \in Events : attempts'[e] <= attempts[e]
  BY DEF NoDeadLetter, DeadLetters
<1> QED BY <1>1 DEF NoDeadLetter, DeadLetters, InDead, List, Tried

LEMMA SourcesAre ==
    /\ "new" \in Sources("buffer") /\ "new" \in Sources("injecting")
    /\ "buffer" \in Sources("listener") /\ {"listener", "buffer"} \subseteq Sources("leftovers")
    /\ {"listener", "leftovers", "retries", "injecting", "dead"} \subseteq Sources("queue")
    /\ "run" \in Sources("retries") /\ "queue" \in Sources("hold") /\ "hold" \in Sources("run")
    /\ "run" \in Sources("done") /\ "run" \in Sources("cut")
    /\ {"buffer", "listener", "leftovers", "injecting"} \subseteq Sources("dropped")
    /\ Names \ {"done", "cut", "dropped", "dead"} \subseteq Sources("dead")
BY DEF Sources, Names

\* A step that moves one event.
LEMMA MovesOne ==
    ASSUME Partition, NEW t \in Names, NEW s \in Names, s \in Sources(t), s # t,
           NEW e \in Events, e \in Content[s],
           Content'[t] = Content[t] \cup {e}, Content'[s] = Content[s] \ {e},
           \A n \in Names \ {s, t} : Content'[n] = Content[n],
           Tried({e}, t)
    PROVE  Moves
<1> DEFINE S == {s}
<1>1. /\ S \in SUBSET Sources(t) /\ t \notin S /\ S \subseteq Names /\ {e} \in SUBSET Events
      /\ \A n \in S : Content'[n] = Content[n] \ {e}
      /\ \A n \in Names \ (S \cup {t}) : Content'[n] = Content[n]
      /\ \A f \in {e} : \E n \in S : f \in Content[n]
  OBVIOUS
<1> HIDE DEF S
<1> QED BY <1>1, MovesTo

\* One event becomes a dead letter.
LEMMA OneDies ==
    ASSUME Partition, DeadLetters, NEW s \in Names \ {"done", "cut", "dropped", "dead"},
           NEW e \in Events, e \in Content[s], DeadLetter(<<e>>),
           Content'[s] = Content[s] \ {e},
           \A n \in Names \ {s, "dead"} : Content'[n] = Content[n]
    PROVE  DeadLetters' /\ Moves
<1>1. e \notin InDead /\ s \in Sources("dead") /\ "dead" \in Names /\ s # "dead"
  BY ContentIs, SourcesAre DEF Partition, Names
<1>2. List(<<e>>) /\ ToSet(<<e>>) = {e} /\ ToSet(<<e>>) \cap InDead = {}
  BY <1>1, OneList
<1> DEFINE es == <<e>>
<1> HIDE DEF es
<1>3. List(es) /\ ToSet(es) = {e} /\ ToSet(es) \cap InDead = {} /\ DeadLetter(es)
  BY <1>2 DEF es
<1>4. /\ DeadLetters' /\ InDead' = InDead \cup {e}
      /\ \A t, M : M = {e} => Tried(M, t)
  BY <1>3, DeadLettered
<1>5. Content'["dead"] = Content["dead"] \cup {e} /\ Tried({e}, "dead")
  BY <1>4, ContentIs, ContentWillBe
<1> QED BY <1>1, <1>4, <1>5, MovesOne

\* One event moves elsewhere.
LEMMA OneGoes ==
    ASSUME Partition, DeadLetters, NoDeadLetter,
           NEW t \in Names \ {"retries", "dead"}, NEW s \in Names \ {"dead"}, s \in Sources(t), s # t,
           NEW e \in Events, e \in Content[s],
           Content'[t] = Content[t] \cup {e}, Content'[s] = Content[s] \ {e},
           \A n \in Names \ {s, t, "dead"} : Content'[n] = Content[n]
    PROVE  DeadLetters' /\ Moves
<1>1. DeadLetters' /\ Tried({e}, t) /\ InDead' = InDead
  BY NotDeadLettered
<1>2. \A n \in Names \ {s, t} : Content'[n] = Content[n]
  BY <1>1, ContentIs, ContentWillBe
<1> QED BY <1>1, <1>2, MovesOne

-----------------------------------------------------------------------------
(* The trigger and its listener *)

\* What is shown of every step.
Kept == ControlInv' /\ Trigger' /\ Containers' /\ DeadLetters' /\ Hands' /\ Moves

LEMMA HandsSame ==
    ASSUME Hands, at' = at, event' = event
    PROVE  Hands'
BY DEF Hands, Holding

LEMMA ListenerRests ==
    /\ ListenerNext \in {Gone, Idle}
    /\ \A l \in {Gone, Idle} :
          /\ l \in [at : {"waiting", "admitting", "putting", "none"}, event : Events \cup {NoEvent}]
          /\ l.event = NoEvent /\ l.at \notin {"admitting", "putting"}
BY DEF ListenerNext, Gone, Idle

\* The listener lives only while the trigger does, or until it is cancelled.
LEMMA ListenerSteps ==
    ASSUME Trigger, listener.at # "none", live \/ buffer' = buffer,
           listener' \in [at : {"waiting", "admitting", "putting", "none"}, event : Events \cup {NoEvent}],
           listener'.event # NoEvent <=> listener'.at \in {"admitting", "putting"},
           stage' = stage, live' = live, leftovers' = leftovers
    PROVE  Trigger'
<1>1. listener # Gone
  BY DEF Gone
<1> QED BY <1>1 DEF Trigger

LEMMA TriggerFiresKeeps ==
    ASSUME IInv, NEW e \in Events, TriggerFires(e)
    PROVE  Kept
<1>1. /\ state' = state /\ stage' = stage /\ final' = final /\ owner' = owner
      /\ recycled' = recycled /\ draining' = draining /\ live' = live
      /\ listener' = listener /\ leftovers' = leftovers /\ queue' = queue /\ at' = at
      /\ event' = event /\ retries' = retries /\ injecting' = injecting /\ done' = done /\ cut' = cut
      /\ dropped' = dropped /\ requeued' = requeued
      /\ born' = born \cup {e} /\ e \notin born /\ live
      /\ \/ Len(buffer) < BufferSize /\ buffer' = Append(buffer, e) /\ NoDeadLetter
         \/ DeadLetter(<<e>>) /\ buffer' = buffer
  BY DEF TriggerFires, IsNext
<1>2. /\ e \in Content["new"] /\ \A n \in Names : n # "new" => e \notin Content[n]
      /\ Content'["new"] = Content["new"] \ {e}
      /\ e \notin ToSet(buffer) /\ e \notin InDead
  BY <1>1, ContentIs, ContentWillBe DEF IInv, Partition, Names
<1>3. ControlInv' /\ Trigger' /\ Hands'
  BY <1>1, HandsSame DEF IInv, ControlInv, Trigger
<1>4. CASE Len(buffer) < BufferSize /\ buffer' = Append(buffer, e) /\ NoDeadLetter
  <2>1. /\ List(buffer') /\ ToSet(buffer') = ToSet(buffer) \cup {e} /\ Len(buffer') = Len(buffer) + 1
    BY <1>2, <1>4, AppendList DEF IInv, Containers
  <2>2. Containers'
    <3>1. Len(buffer) \in Nat
      BY LenProperties DEF IInv, Containers, List
    <3> QED BY <1>1, <1>4, <2>1, <3>1, SizesAssumption DEF IInv, Containers
  <2>3. Content'["buffer"] = Content["buffer"] \cup {e}
    BY <2>1, ContentIs, ContentWillBe
  <2>4. \A n \in Names \ {"new", "buffer", "dead"} : Content'[n] = Content[n]
    BY <1>1, Frame DEF Names
  <2>5. DeadLetters' /\ Moves
    BY <1>2, <1>4, <2>3, <2>4, OneGoes, SourcesAre DEF IInv, Names
  <2> QED BY <1>3, <2>2, <2>5 DEF Kept
<1>5. CASE DeadLetter(<<e>>) /\ buffer' = buffer
  <2>1. Containers'
    BY <1>1, <1>5 DEF IInv, Containers
  <2>2. \A n \in Names \ {"new", "dead"} : Content'[n] = Content[n]
    BY <1>1, <1>5, Frame DEF Names
  <2>3. DeadLetters' /\ Moves
    BY <1>2, <1>5, <2>2, OneDies DEF IInv, Names
  <2> QED BY <1>3, <2>1, <2>3 DEF Kept
<1> QED BY <1>1, <1>4, <1>5

LEMMA ListenerTakesKeeps ==
    ASSUME IInv, ListenerTakes
    PROVE  Kept
<1> DEFINE e == Head(buffer)
<1>1. /\ state' = state /\ stage' = stage /\ final' = final /\ owner' = owner
      /\ recycled' = recycled /\ draining' = draining /\ live' = live
      /\ leftovers' = leftovers /\ queue' = queue /\ at' = at
      /\ event' = event /\ retries' = retries /\ injecting' = injecting /\ born' = born
      /\ done' = done /\ cut' = cut /\ requeued' = requeued
      /\ listener.at = "waiting" /\ buffer # <<>> /\ buffer' = Tail(buffer)
      /\ \/ dropped' = dropped \cup {e} /\ listener' = ListenerNext /\ NoDeadLetter
         \/ DeadLetter(<<e>>) /\ listener' = ListenerNext /\ dropped' = dropped
         \/ /\ listener' = [at |-> "admitting", event |-> e]
            /\ NoDeadLetter /\ dropped' = dropped
  BY DEF ListenerTakes
<1>2. /\ List(buffer') /\ ToSet(buffer') = ToSet(buffer) \ {e} /\ e \in ToSet(buffer) /\ e \in Events
      /\ Len(buffer') = Len(buffer) - 1
  BY <1>1, TailList DEF IInv, Containers
<1> HIDE DEF e
<1>3. /\ e \in Content["buffer"] /\ Content'["buffer"] = Content["buffer"] \ {e}
      /\ Content["listener"] = {} /\ e # NoEvent /\ live
  BY <1>1, <1>2, ContentIs, ContentWillBe, EventsAssumption DEF IInv, Trigger
<1>4. ControlInv' /\ Hands'
  BY <1>1, HandsSame DEF IInv, ControlInv
<1>5. Trigger'
  BY <1>1, <1>2, <1>3, ListenerSteps, ListenerRests DEF IInv
<1>6. Containers'
  <2>1. Len(buffer) \in Nat
    BY LenProperties DEF IInv, Containers, List
  <2>2. Len(buffer') <= BufferSize
    BY <1>2, <2>1, SizesAssumption DEF IInv, Containers
  <2> QED BY <1>1, <1>2, <2>2 DEF IInv, Containers
<1>7. listener' = ListenerNext => Content'["listener"] = Content["listener"]
  BY <1>3, ContentWillBe, ListenerRests
<1>8. \A n \in Names \ {"buffer", "listener", "dropped", "dead"} : Content'[n] = Content[n]
  BY <1>1, Frame DEF Names
<1>9. CASE dropped' = dropped \cup {e} /\ listener' = ListenerNext /\ NoDeadLetter
  <2>1. Content'["dropped"] = Content["dropped"] \cup {e}
    BY <1>9, ContentIs, ContentWillBe
  <2>2. DeadLetters' /\ Moves
    BY <1>2, <1>3, <1>7, <1>8, <1>9, <2>1, OneGoes, SourcesAre DEF IInv, Names
  <2> QED BY <1>4, <1>5, <1>6, <2>2 DEF Kept
<1>10. CASE DeadLetter(<<e>>) /\ listener' = ListenerNext /\ dropped' = dropped
  <2>1. DeadLetters' /\ Moves
    BY <1>2, <1>3, <1>7, <1>8, <1>10, OneDies, Frame DEF IInv, Names
  <2> QED BY <1>4, <1>5, <1>6, <2>1 DEF Kept
<1>11. CASE listener' = [at |-> "admitting", event |-> e] /\ NoDeadLetter /\ dropped' = dropped
  <2>1. Content'["listener"] = Content["listener"] \cup {e}
    BY <1>3, <1>11, ContentWillBe
  <2>2. DeadLetters' /\ Moves
    BY <1>2, <1>3, <1>8, <1>11, <2>1, OneGoes, SourcesAre, Frame DEF IInv, Names
  <2> QED BY <1>4, <1>5, <1>6, <2>2 DEF Kept
<1> QED BY <1>1, <1>9, <1>10, <1>11

\* The hooks refuse an event of the place s.
LEMMA OneRefused ==
    ASSUME Partition, DeadLetters, NEW s \in {"listener", "leftovers", "injecting"},
           NEW e \in Events, e \in Content[s], Refused(e),
           Content'[s] = Content[s] \ {e},
           \A n \in Names \ {s, "dropped", "dead"} : Content'[n] = Content[n]
    PROVE  DeadLetters' /\ Moves /\ dropped' \subseteq dropped \cup {e}
<1>1. CASE DeadLetter(<<e>>) /\ dropped' = dropped
  <2>1. \A n \in Names \ {s, "dead"} : Content'[n] = Content[n]
    BY <1>1, Frame
  <2> QED BY <1>1, <2>1, OneDies DEF Names
<1>2. CASE dropped' = dropped \cup {e} /\ NoDeadLetter
  <2>1. Content'["dropped"] = Content["dropped"] \cup {e}
    BY <1>2, ContentIs, ContentWillBe
  <2> QED BY <1>2, <2>1, OneGoes, SourcesAre DEF Names
<1> QED BY <1>1, <1>2 DEF Refused

\* Waking changes the state at most.
LEMMA WakingKeeps ==
    ASSUME Wakes, ControlInv, stage' = stage, final' = final, owner' = owner, recycled' = recycled,
           draining' = draining, live' = live, at' = at
    PROVE  ControlInv'
BY DEF Wakes, ControlInv, States

LEMMA ListenerAdmitsKeeps ==
    ASSUME IInv, ListenerAdmits
    PROVE  Kept
<1> DEFINE e == listener.event
<1>1. /\ stage' = stage /\ final' = final /\ owner' = owner
      /\ recycled' = recycled /\ draining' = draining /\ live' = live
      /\ buffer' = buffer /\ leftovers' = leftovers /\ queue' = queue /\ at' = at
      /\ event' = event /\ retries' = retries /\ injecting' = injecting /\ born' = born
      /\ done' = done /\ cut' = cut /\ requeued' = requeued
      /\ listener.at = "admitting"
      /\ \/ /\ listener' = [listener EXCEPT !.at = "putting"]
            /\ Wakes /\ NoDeadLetter /\ dropped' = dropped
         \/ listener' = ListenerNext /\ Refused(e) /\ state' = state
  BY DEF ListenerAdmits
<1>2. /\ e \in Events /\ e # NoEvent
      /\ listener \in [at : {"waiting", "admitting", "putting", "none"}, event : Events \cup {NoEvent}]
  BY <1>1 DEF IInv, Trigger
<1>3. Hands'
  BY <1>1, HandsSame DEF IInv
<1>4. CASE /\ listener' = [listener EXCEPT !.at = "putting"]
           /\ Wakes /\ NoDeadLetter /\ dropped' = dropped
  <2>1. /\ listener'.event = e /\ listener'.at = "putting"
        /\ listener' \in [at : {"waiting", "admitting", "putting", "none"}, event : Events \cup {NoEvent}]
    BY <1>2, <1>4
  <2>2. Trigger'
    BY <1>1, <1>2, <2>1, ListenerSteps DEF IInv
  <2>3. ControlInv' /\ Containers'
    BY <1>1, <1>4, WakingKeeps DEF IInv, Containers
  <2>4. Content'["listener"] = Content["listener"]
    BY <2>1, ContentIs, ContentWillBe
  <2>5. \A n \in Names : Content'[n] = Content[n]
    BY <1>1, <1>4, <2>4, Frame DEF Names, NoDeadLetter
  <2>6. DeadLetters' /\ Moves
    BY <1>4, <2>5, MovesNothing, NotDeadLettered DEF IInv
  <2> QED BY <1>3, <2>2, <2>3, <2>6 DEF Kept
<1>5. CASE listener' = ListenerNext /\ Refused(e) /\ state' = state
  <2>1. Trigger'
    BY <1>1, <1>5, ListenerSteps, ListenerRests DEF IInv
  <2>2. ControlInv'
    BY <1>1, <1>5 DEF IInv, ControlInv
  <2>3. e \in Content["listener"] /\ Content'["listener"] = Content["listener"] \ {e}
    BY <1>2, <1>5, ContentIs, ContentWillBe, ListenerRests
  <2>4. \A n \in Names \ {"listener", "dropped", "dead"} : Content'[n] = Content[n]
    BY <1>1, Frame DEF Names
  <2>5. DeadLetters' /\ Moves /\ dropped' \subseteq dropped \cup {e}
    BY <1>2, <1>5, <2>3, <2>4, OneRefused DEF IInv
  <2>6. Containers'
    BY <1>1, <1>2, <2>5 DEF IInv, Containers
  <2> QED BY <1>3, <2>1, <2>2, <2>5, <2>6 DEF Kept
<1> QED BY <1>1, <1>4, <1>5

\* An event of the place s joins the queue.
LEMMA OneQueued ==
    ASSUME Partition, DeadLetters, Containers, Fits, NoDeadLetter,
           NEW s \in {"listener", "leftovers", "retries", "injecting"},
           NEW e \in Events, e \in Content[s], queue' = Append(queue, e),
           Content'[s] = Content[s] \ {e},
           \A n \in Names \ {s, "queue", "dead"} : Content'[n] = Content[n]
    PROVE  DeadLetters' /\ Moves /\ List(queue') /\ Len(queue') <= QueueSize
<1>1. e \notin ToSet(queue)
  BY ContentIs DEF Partition, Names
<1>2. List(queue') /\ ToSet(queue') = ToSet(queue) \cup {e} /\ Len(queue') = Len(queue) + 1
  BY <1>1, AppendList DEF Containers
<1>3. Len(queue') <= QueueSize
  <2>1. Len(queue) \in Nat
    BY LenProperties DEF Containers, List
  <2> QED BY <1>2, <2>1, SizesAssumption DEF Fits
<1>4. Content'["queue"] = Content["queue"] \cup {e}
  BY <1>2, ContentIs, ContentWillBe
<1>5. DeadLetters' /\ Moves
  BY <1>4, OneGoes, SourcesAre DEF Names
<1> QED BY <1>2, <1>3, <1>5

LEMMA ListenerPutsKeeps ==
    ASSUME IInv, ListenerPuts
    PROVE  Kept
<1> DEFINE e == listener.event
<1>1. /\ state' = state /\ stage' = stage /\ final' = final /\ owner' = owner
      /\ recycled' = recycled /\ draining' = draining /\ live' = live
      /\ buffer' = buffer /\ leftovers' = leftovers /\ at' = at
      /\ event' = event /\ retries' = retries /\ injecting' = injecting /\ born' = born
      /\ done' = done /\ cut' = cut /\ dropped' = dropped /\ requeued' = requeued
      /\ listener.at = "putting" /\ listener' = ListenerNext
      /\ Fits /\ queue' = Append(queue, e) /\ NoDeadLetter
  BY DEF ListenerPuts, NoDeadLetter
<1>2. e \in Events /\ e # NoEvent
  BY <1>1 DEF IInv, Trigger
<1>3. ControlInv' /\ Hands'
  BY <1>1, HandsSame DEF IInv, ControlInv
<1>4. Trigger'
  BY <1>1, ListenerSteps, ListenerRests DEF IInv
<1>5. e \in Content["listener"] /\ Content'["listener"] = Content["listener"] \ {e}
  BY <1>1, <1>2, ContentIs, ContentWillBe, ListenerRests
<1>6. \A n \in Names \ {"listener", "queue", "dead"} : Content'[n] = Content[n]
  BY <1>1, Frame DEF Names
<1>7. DeadLetters' /\ Moves /\ List(queue') /\ Len(queue') <= QueueSize
  BY <1>1, <1>2, <1>5, <1>6, OneQueued DEF IInv
<1>8. Containers'
  BY <1>1, <1>7 DEF IInv, Containers
<1> QED BY <1>3, <1>4, <1>7, <1>8 DEF Kept

\* The events of a list, which are in the places S, become dead letters.
LEMMA ManyDie ==
    ASSUME Partition, DeadLetters, NEW es, List(es), DeadLetter(es),
           NEW S \in SUBSET (Names \ {"done", "cut", "dropped", "dead"}),
           \A e \in ToSet(es) : \E n \in S : e \in Content[n],
           \A n \in S : Content'[n] = Content[n] \ ToSet(es),
           \A n \in Names \ (S \cup {"dead"}) : Content'[n] = Content[n]
    PROVE  DeadLetters' /\ Moves
<1>1. ToSet(es) \cap InDead = {} /\ "dead" \in Names /\ "dead" \notin S
  BY ContentIs DEF Partition, Names
<1>2. ToSet(es) \subseteq Events
  BY InSet, LenProperties, ElementOfSeq DEF List
<1>3. /\ DeadLetters' /\ InDead' = InDead \cup ToSet(es)
      /\ Tried(ToSet(es), "dead")
  BY <1>1, DeadLettered
<1>4. Content'["dead"] = Content["dead"] \cup ToSet(es)
  BY <1>3, ContentIs, ContentWillBe
<1>5. S \in SUBSET Sources("dead") /\ S \subseteq Names
  BY SourcesAre
<1> QED BY <1>1, <1>2, <1>3, <1>4, <1>5, MovesTo

LEMMA ListenerHolds ==
    ASSUME Trigger
    PROVE  /\ List(HeldByListener) /\ ToSet(HeldByListener) = {listener.event} \ {NoEvent}
BY OneList, EmptyList DEF Trigger, HeldByListener

LEMMA RemoveTriggerKeeps ==
    ASSUME IInv, RemoveTrigger
    PROVE  Kept
<1> DEFINE es == HeldByListener \o buffer
           S == {"listener", "buffer"}
<1>1. /\ state' = state /\ stage' = stage /\ final' = final /\ owner' = owner
      /\ recycled' = recycled /\ draining' = draining
      /\ leftovers' = leftovers /\ queue' = queue /\ at' = at
      /\ event' = event /\ retries' = retries /\ injecting' = injecting /\ born' = born
      /\ done' = done /\ cut' = cut /\ dropped' = dropped /\ requeued' = requeued
      /\ stage = "up" /\ live' = FALSE /\ buffer' = <<>> /\ listener' = Gone
      /\ DeadLetter(es)
  BY DEF RemoveTrigger
<1>2. ControlInv' /\ Trigger' /\ Hands'
  BY <1>1, HandsSame, ListenerRests DEF IInv, ControlInv, Trigger
<1>3. Containers'
  BY <1>1, EmptyList, EmptySeq, SizesAssumption DEF IInv, Containers
<1>4. ToSet(HeldByListener) \cap ToSet(buffer) = {}
  BY ContentIs, ListenerHolds DEF IInv, Partition, Names
<1>5. List(es) /\ ToSet(es) = Content["listener"] \cup Content["buffer"]
  BY <1>4, ConcatList, ListenerHolds, ContentIs DEF IInv, Containers
<1>6. Content'["listener"] = {} /\ Content'["buffer"] = {}
  BY <1>1, EmptyList, ContentWillBe, ListenerRests
<1>7. \A n \in Names \ (S \cup {"dead"}) : Content'[n] = Content[n]
  BY <1>1, Frame DEF Names
<1> HIDE DEF es
<1>8. DeadLetters' /\ Moves
  <2>1. S \in SUBSET (Names \ {"done", "cut", "dropped", "dead"})
    BY DEF Names
  <2>2. /\ \A e \in ToSet(es) : \E n \in S : e \in Content[n]
        /\ \A n \in S : Content'[n] = Content[n] \ ToSet(es)
    BY <1>5, <1>6
  <2> HIDE DEF S
  <2> QED BY <1>1, <1>5, <1>7, <2>1, <2>2, ManyDie DEF IInv
<1> QED BY <1>2, <1>3, <1>8 DEF Kept

\* A step that neither moves an event nor tries one.
LEMMA NothingMoves ==
    ASSUME DeadLetters, dead' = dead, forgotten' = forgotten, attempts' = attempts,
           \A n \in Names \ {"dead"} : Content'[n] = Content[n]
    PROVE  DeadLetters' /\ Moves
<1>1. \A n \in Names : Content'[n] = Content[n]
  BY Frame DEF Names
<1>2. DeadLetters'
  BY DEF DeadLetters, List
<1> QED BY <1>1, <1>2, MovesNothing

LEMMA AddTriggerKeeps ==
    ASSUME IInv, AddTrigger
    PROVE  Kept
<1>1. /\ state' = state /\ stage' = stage /\ final' = final /\ owner' = owner
      /\ recycled' = recycled /\ draining' = draining /\ buffer' = buffer
      /\ leftovers' = leftovers /\ queue' = queue /\ at' = at
      /\ event' = event /\ retries' = retries /\ injecting' = injecting /\ born' = born
      /\ done' = done /\ cut' = cut /\ dropped' = dropped /\ requeued' = requeued
      /\ dead' = dead /\ forgotten' = forgotten /\ attempts' = attempts
      /\ stage = "up" /\ ~live /\ live' = TRUE /\ listener' = Idle
  BY DEF AddTrigger
<1>2. listener = Gone
  BY <1>1 DEF IInv, Trigger
<1>3. ControlInv' /\ Trigger' /\ Containers' /\ Hands'
  BY <1>1, HandsSame, ListenerRests DEF IInv, ControlInv, Trigger, Containers
<1>4. Content'["listener"] = Content["listener"]
  BY <1>1, <1>2, ContentIs, ContentWillBe, ListenerRests
<1>5. \A n \in Names \ {"dead"} : Content'[n] = Content[n]
  BY <1>1, <1>4, Frame DEF Names
<1>6. DeadLetters' /\ Moves
  BY <1>1, <1>5, NothingMoves DEF IInv
<1> QED BY <1>3, <1>6 DEF Kept

-----------------------------------------------------------------------------
(* The workers *)

\* A worker that is not gone goes elsewhere.
LEMMA WorkerMoves ==
    ASSUME ControlInv, Hands, NEW w \in Workers, at[w] # "none", NEW to \in WorkerPlaces,
           NEW e \in Events \cup {NoEvent}, Worker(w, to, e),
           state' = state, stage' = stage, final' = final, owner' = owner, recycled' = recycled,
           draining' = draining, live' = live
    PROVE  /\ ControlInv'
           /\ at'[w] = to /\ event'[w] = e /\ event' \in [Workers -> Events \cup {NoEvent}]
           /\ \A v \in Workers \ {w} : at'[v] = at[v] /\ event'[v] = event[v]
<1>1. at' \in [Workers -> WorkerPlaces] /\ event' \in [Workers -> Events \cup {NoEvent}]
  BY DEF Worker, ControlInv, Hands, WorkerPlaces
<1>2. /\ at'[w] = to /\ event'[w] = e
      /\ \A v \in Workers \ {w} : at'[v] = at[v] /\ event'[v] = event[v]
  BY DEF Worker, ControlInv, Hands
<1> QED BY <1>1, <1>2 DEF ControlInv, WorkerPlaces

\* The place of the event of a worker.
PlaceOf(w) == IF at[w] = "hold" THEN "hold" ELSE "run"

\* The hands of a worker: what it gives up is held by nobody else.
LEMMA HandLeaves ==
    ASSUME Hands, NEW w \in Workers, at[w] \in InHand, at'[w] \notin InHand,
           event' \in [Workers -> Events \cup {NoEvent}],
           \A v \in Workers \ {w} : at'[v] = at[v] /\ event'[v] = event[v]
    PROVE  /\ Hands' /\ event[w] \in Events /\ event[w] \in Content[PlaceOf(w)]
           /\ Content'[PlaceOf(w)] = Content[PlaceOf(w)] \ {event[w]}
           /\ \A n \in {"hold", "run"} \ {PlaceOf(w)} : Content'[n] = Content[n]
<1>1. /\ event[w] \in Events
      /\ \A v \in Workers \ {w} : at[v] \in InHand => event[v] # event[w]
  BY DEF Hands, Holding
<1>2. \A x \in Events :
         /\ Holds(x)' <=> Holds(x) /\ ~(at[w] = "hold" /\ x = event[w])
         /\ Runs(x)' <=> Runs(x) /\ ~(at[w] \in RunPlaces /\ x = event[w])
  BY <1>1 DEF Holds, Runs
<1>3. Hands'
  BY DEF Hands, Holding
<1>4. CASE at[w] = "hold"
  <2>1. Holds(event[w]) /\ PlaceOf(w) = "hold" /\ at[w] \notin RunPlaces
    BY <1>4 DEF Holds, PlaceOf
  <2>2. /\ {x \in Events : Holds(x)'} = {x \in Events : Holds(x)} \ {event[w]}
        /\ {x \in Events : Runs(x)'} = {x \in Events : Runs(x)}
    BY <1>2, <1>4, <2>1
  <2>3. /\ Content'["hold"] = Content["hold"] \ {event[w]}
        /\ \A n \in {"hold", "run"} \ {"hold"} : Content'[n] = Content[n]
    BY <2>2, ContentIs, ContentWillBe
  <2>4. event[w] \in Content["hold"]
    BY <1>1, <2>1, ContentIs
  <2> QED BY <1>1, <1>3, <2>1, <2>3, <2>4
<1>5. CASE at[w] \in RunPlaces
  <2>1. Runs(event[w]) /\ PlaceOf(w) = "run" /\ at[w] # "hold"
    BY <1>5 DEF Runs, PlaceOf
  <2>2. /\ {x \in Events : Runs(x)'} = {x \in Events : Runs(x)} \ {event[w]}
        /\ {x \in Events : Holds(x)'} = {x \in Events : Holds(x)}
    BY <1>2, <1>5, <2>1
  <2>3. /\ Content'["run"] = Content["run"] \ {event[w]}
        /\ \A n \in {"hold", "run"} \ {"run"} : Content'[n] = Content[n]
    BY <2>2, ContentIs, ContentWillBe
  <2>4. event[w] \in Content["run"]
    BY <1>1, <2>1, ContentIs
  <2> QED BY <1>1, <1>3, <2>1, <2>3, <2>4
<1> QED BY <1>4, <1>5

\* A run that goes on elsewhere keeps its event.
LEMMA HandStays ==
    ASSUME Hands, NEW w \in Workers, at[w] \in RunPlaces, at'[w] \in RunPlaces, event'[w] = event[w],
           event' \in [Workers -> Events \cup {NoEvent}],
           \A v \in Workers \ {w} : at'[v] = at[v] /\ event'[v] = event[v]
    PROVE  Hands' /\ \A n \in {"hold", "run"} : Content'[n] = Content[n]
<1>1. \A x \in Events : (Holds(x)' <=> Holds(x)) /\ (Runs(x)' <=> Runs(x))
  BY DEF Holds, Runs
<1>2. Hands'
  BY DEF Hands, Holding
<1> QED BY <1>1, <1>2, ContentIs, ContentWillBe

LEMMA EmptyHandMoves ==
    ASSUME Hands, NEW w \in Workers, at[w] \notin InHand, at'[w] \notin InHand,
           event' \in [Workers -> Events \cup {NoEvent}],
           \A v \in Workers \ {w} : at'[v] = at[v] /\ event'[v] = event[v]
    PROVE  Hands' /\ \A n \in {"hold", "run"} : Content'[n] = Content[n]
<1>1. \A x \in Events : (Holds(x)' <=> Holds(x)) /\ (Runs(x)' <=> Runs(x))
  BY DEF Holds, Runs
<1>2. Hands'
  BY DEF Hands, Holding
<1> QED BY <1>1, <1>2, ContentIs, ContentWillBe

LEMMA TakeKeeps ==
    ASSUME IInv, NEW w \in Workers, Take(w)
    PROVE  Kept
<1> DEFINE e == Head(queue)
<1>1. /\ state' = state /\ stage' = stage /\ final' = final /\ owner' = owner
      /\ recycled' = recycled /\ draining' = draining /\ live' = live
      /\ buffer' = buffer /\ listener' = listener /\ leftovers' = leftovers
      /\ retries' = retries /\ injecting' = injecting /\ born' = born
      /\ done' = done /\ cut' = cut /\ dropped' = dropped /\ requeued' = requeued
      /\ NoDeadLetter
      /\ at[w] = "idle" /\ queue # <<>> /\ queue' = Tail(queue) /\ Worker(w, "hold", e)
  BY DEF Take, NoDeadLetter
<1>2. /\ List(queue') /\ ToSet(queue') = ToSet(queue) \ {e} /\ e \in ToSet(queue) /\ e \in Events
      /\ Len(queue') = Len(queue) - 1
  BY <1>1, TailList DEF IInv, Containers
<1> HIDE DEF e
<1>3. /\ e \in Content["queue"] /\ Content'["queue"] = Content["queue"] \ {e}
      /\ \A x \in Events : x = e => ~Holds(x) /\ ~Runs(x)
  BY <1>2, ContentIs, ContentWillBe DEF IInv, Partition, Names
<1>4. /\ ControlInv' /\ at'[w] = "hold" /\ event'[w] = e
      /\ event' \in [Workers -> Events \cup {NoEvent}]
      /\ \A v \in Workers \ {w} : at'[v] = at[v] /\ event'[v] = event[v]
  BY <1>1, <1>2, WorkerMoves DEF IInv, WorkerPlaces
<1>5. Trigger'
  BY <1>1 DEF IInv, Trigger
<1>6. Containers'
  <2>1. Len(queue) \in Nat
    BY LenProperties DEF IInv, Containers, List
  <2>2. Len(queue') <= QueueSize
    BY <1>2, <2>1, SizesAssumption DEF IInv, Containers
  <2> QED BY <1>1, <1>2, <2>2 DEF IInv, Containers
<1>7. \A v \in Workers \ {w} : at[v] \in InHand => event[v] # e
  BY <1>2, <1>3 DEF Holds, Runs
<1>8. Hands'
  BY <1>2, <1>4, <1>7 DEF IInv, Hands, Holding
<1>9. /\ Content'["hold"] = Content["hold"] \cup {e}
      /\ Content'["run"] = Content["run"]
  <2>1. \A x \in Events : (Holds(x)' <=> Holds(x) \/ x = e) /\ (Runs(x)' <=> Runs(x))
    BY <1>1, <1>4 DEF Holds, Runs
  <2> QED BY <1>2, <2>1, ContentIs, ContentWillBe
<1>10. \A n \in Names \ {"queue", "hold", "dead"} : Content'[n] = Content[n]
  BY <1>1, <1>9, Frame DEF Names
<1>11. DeadLetters' /\ Moves
  BY <1>1, <1>2, <1>3, <1>9, <1>10, OneGoes, SourcesAre DEF IInv, Names
<1> QED BY <1>4, <1>5, <1>6, <1>8, <1>11 DEF Kept

\* A worker gives its event up, and the event dies.
LEMMA HandDies ==
    ASSUME IInv, NEW w \in Workers, at[w] \in InHand,
           NEW to \in WorkerPlaces \ InHand, NEW e \in Events \cup {NoEvent}, Worker(w, to, e),
           DeadLetter(<<event[w]>>),
           state' = state, stage' = stage, final' = final, owner' = owner, recycled' = recycled,
           draining' = draining, live' = live, buffer' = buffer, listener' = listener,
           leftovers' = leftovers, queue' = queue, retries' = retries, injecting' = injecting,
           born' = born, done' = done /\ cut' = cut, dropped' = dropped, requeued' = requeued
    PROVE  Kept
<1>1. /\ ControlInv' /\ at'[w] = to /\ event'[w] = e
      /\ event' \in [Workers -> Events \cup {NoEvent}]
      /\ \A v \in Workers \ {w} : at'[v] = at[v] /\ event'[v] = event[v]
  BY WorkerMoves DEF IInv, WorkerPlaces
<1>2. /\ Hands' /\ event[w] \in Events /\ event[w] \in Content[PlaceOf(w)]
      /\ Content'[PlaceOf(w)] = Content[PlaceOf(w)] \ {event[w]}
      /\ \A n \in {"hold", "run"} \ {PlaceOf(w)} : Content'[n] = Content[n]
  BY <1>1, HandLeaves DEF IInv
<1>3. Trigger' /\ Containers'
  BY DEF IInv, Trigger, Containers
<1>4. \A n \in Names \ {PlaceOf(w), "dead"} : Content'[n] = Content[n]
  BY <1>2, Frame DEF Names
<1>5. PlaceOf(w) \in Names \ {"done", "cut", "dropped", "dead"}
  BY DEF Names, PlaceOf
<1>6. DeadLetters' /\ Moves
  BY <1>2, <1>4, <1>5, OneDies DEF IInv
<1> QED BY <1>1, <1>2, <1>3, <1>6 DEF Kept

LEMMA DropHeldKeeps ==
    ASSUME IInv, NEW w \in Workers, DropHeld(w)
    PROVE  Kept
<1>1. /\ state' = state /\ stage' = stage /\ final' = final /\ owner' = owner
      /\ recycled' = recycled /\ draining' = draining /\ live' = live
      /\ buffer' = buffer /\ listener' = listener /\ leftovers' = leftovers /\ queue' = queue
      /\ retries' = retries /\ injecting' = injecting /\ born' = born
      /\ done' = done /\ cut' = cut /\ dropped' = dropped /\ requeued' = requeued
      /\ at[w] = "hold" /\ DeadLetter(<<event[w]>>) /\ Worker(w, "idle", NoEvent)
  BY DEF DropHeld
<1> QED BY <1>1, HandDies DEF WorkerPlaces

LEMMA SetAsideKeeps ==
    ASSUME IInv, NEW w \in Workers, SetAside(w) \/ DeniedEnds(w) \/ GivesUp(w)
    PROVE  Kept
<1>1. /\ state' = state /\ stage' = stage /\ final' = final /\ owner' = owner
      /\ recycled' = recycled /\ draining' = draining /\ live' = live
      /\ buffer' = buffer /\ listener' = listener /\ leftovers' = leftovers /\ queue' = queue
      /\ retries' = retries /\ injecting' = injecting /\ born' = born
      /\ done' = done /\ cut' = cut /\ dropped' = dropped /\ requeued' = requeued
      /\ at[w] \in RunPlaces /\ DeadLetter(<<event[w]>>)
      /\ \E to \in {"hooks", "failing"} : Worker(w, to, event[w])
  BY DEF SetAside, DeniedEnds, GivesUp, Ends
<1>2. event[w] \in Events \cup {NoEvent}
  BY DEF IInv, Hands
<1> QED BY <1>1, <1>2, HandDies DEF WorkerPlaces

LEMMA RunGoesOnKeeps ==
    ASSUME IInv, NEW w \in Workers, Denied(w) \/ Exhausted(w)
    PROVE  Kept
<1>1. /\ state' = state /\ stage' = stage /\ final' = final /\ owner' = owner
      /\ recycled' = recycled /\ draining' = draining /\ live' = live
      /\ buffer' = buffer /\ listener' = listener /\ leftovers' = leftovers /\ queue' = queue
      /\ retries' = retries /\ injecting' = injecting /\ born' = born /\ done' = done /\ cut' = cut
      /\ dropped' = dropped /\ requeued' = requeued /\ dead' = dead /\ forgotten' = forgotten
      /\ attempts' = attempts
      /\ at[w] = "run" /\ \E to \in {"denied", "spent"} : Worker(w, to, event[w])
  BY DEF Denied, Exhausted, Ends
<1>2. PICK to \in {"denied", "spent"} : Worker(w, to, event[w])
  BY <1>1
<1>3. /\ ControlInv' /\ at'[w] = to /\ event'[w] = event[w]
      /\ event' \in [Workers -> Events \cup {NoEvent}]
      /\ \A v \in Workers \ {w} : at'[v] = at[v] /\ event'[v] = event[v]
  <2>1. event[w] \in Events \cup {NoEvent} /\ to \in WorkerPlaces /\ at[w] # "none"
    BY <1>1 DEF IInv, Hands, WorkerPlaces
  <2> QED BY <1>1, <1>2, <2>1, WorkerMoves DEF IInv
<1>4. Hands' /\ \A n \in {"hold", "run"} : Content'[n] = Content[n]
  BY <1>1, <1>3, HandStays DEF IInv
<1>5. Trigger' /\ Containers'
  BY <1>1 DEF IInv, Trigger, Containers
<1>6. \A n \in Names \ {"dead"} : Content'[n] = Content[n]
  BY <1>1, <1>4, Frame DEF Names
<1>7. DeadLetters' /\ Moves
  BY <1>1, <1>6, NothingMoves DEF IInv
<1> QED BY <1>3, <1>4, <1>5, <1>7 DEF Kept

LEMMA BeginRunKeeps ==
    ASSUME IInv, NEW w \in Workers, BeginRun(w)
    PROVE  Kept
<1> DEFINE e == event[w]
<1>1. /\ state' = state /\ stage' = stage /\ final' = final /\ owner' = owner
      /\ recycled' = recycled /\ draining' = draining /\ live' = live
      /\ buffer' = buffer /\ listener' = listener /\ leftovers' = leftovers /\ queue' = queue
      /\ event' = event /\ retries' = retries /\ injecting' = injecting /\ born' = born
      /\ done' = done /\ cut' = cut /\ dropped' = dropped /\ requeued' = requeued
      /\ dead' = dead /\ forgotten' = forgotten
      /\ at[w] = "hold" /\ at' = [at EXCEPT ![w] = "run"]
      /\ attempts' = [attempts EXCEPT ![e] = @ + 1]
  BY DEF BeginRun
<1>2. /\ e \in Events /\ \A v \in Workers \ {w} : at[v] \in InHand => event[v] # e
      /\ attempts \in [Events -> Nat]
  BY <1>1 DEF IInv, Hands, Holding, DeadLetters
<1>3. /\ at'[w] = "run" /\ \A v \in Workers \ {w} : at'[v] = at[v]
      /\ at' \in [Workers -> WorkerPlaces]
  BY <1>1 DEF IInv, ControlInv, WorkerPlaces
<1>4. ControlInv' /\ Hands'
  BY <1>1, <1>3 DEF IInv, ControlInv, Hands, Holding, WorkerPlaces
<1>5. Trigger' /\ Containers'
  BY <1>1 DEF IInv, Trigger, Containers
<1>6. /\ e \in Content["hold"]
      /\ Content'["hold"] = Content["hold"] \ {e} /\ Content'["run"] = Content["run"] \cup {e}
  <2>1. \A x \in Events : (Holds(x)' <=> Holds(x) /\ x # e) /\ (Runs(x)' <=> Runs(x) \/ x = e)
    BY <1>1, <1>2, <1>3 DEF Holds, Runs
  <2>2. Holds(e)
    BY <1>1 DEF Holds
  <2> QED BY <1>2, <2>1, <2>2, ContentIs, ContentWillBe
<1>7. \A n \in Names \ {"hold", "run"} : Content'[n] = Content[n]
  BY <1>1, Frame DEF Names
<1>8. DeadLetters' /\ Tried({e}, "run")
  <2>1. /\ attempts' \in [Events -> Nat] /\ attempts'[e] = attempts[e] + 1
        /\ \A x \in Events \ {e} : attempts'[x] = attempts[x] /\ attempts[x] \in Nat
    BY <1>1, <1>2
  <2>2. Tried({e}, "run")
    BY <2>1 DEF Tried
  <2> QED BY <1>1, <2>1, <2>2 DEF IInv, DeadLetters
<1> HIDE DEF e
<1>9. Moves
  BY <1>2, <1>6, <1>7, <1>8, MovesOne, SourcesAre DEF IInv, Names
<1> QED BY <1>4, <1>5, <1>8, <1>9 DEF Kept

LEMMA SucceedsKeeps ==
    ASSUME IInv, NEW w \in Workers, Succeeds(w)
    PROVE  Kept
<1> DEFINE e == event[w]
<1>1. /\ state' = state /\ stage' = stage /\ final' = final /\ owner' = owner
      /\ recycled' = recycled /\ draining' = draining /\ live' = live
      /\ buffer' = buffer /\ listener' = listener /\ leftovers' = leftovers /\ queue' = queue
      /\ retries' = retries /\ injecting' = injecting /\ born' = born
      /\ dropped' = dropped /\ requeued' = requeued /\ dead' = dead /\ forgotten' = forgotten
      /\ at[w] = "run" /\ Worker(w, "hooks", e)
      /\ done' = done \cup {e} /\ cut' = cut
      /\ attempts' = [attempts EXCEPT ![e] = 0] \/ attempts' = attempts
  BY DEF Succeeds, Ends
<1>2. /\ ControlInv' /\ at'[w] = "hooks" /\ event' \in [Workers -> Events \cup {NoEvent}]
      /\ \A v \in Workers \ {w} : at'[v] = at[v] /\ event'[v] = event[v]
  BY <1>1, WorkerMoves DEF IInv, WorkerPlaces, Hands
<1>3. /\ Hands' /\ e \in Events /\ e \in Content["run"]
      /\ Content'["run"] = Content["run"] \ {e} /\ Content'["hold"] = Content["hold"]
  <2>1. PlaceOf(w) = "run"
    BY <1>1 DEF PlaceOf
  <2> QED BY <1>1, <1>2, <2>1, HandLeaves DEF IInv
<1>4. Trigger' /\ Containers'
  BY <1>1, <1>3 DEF IInv, Trigger, Containers
<1>5. Content'["done"] = Content["done"] \cup {e}
  BY <1>1, ContentIs, ContentWillBe
<1>6. \A n \in Names \ {"run", "done"} : Content'[n] = Content[n]
  BY <1>1, <1>3, Frame DEF Names
<1>7. DeadLetters' /\ Tried({e}, "done")
  <2>1. attempts' \in [Events -> Nat] /\ \A x \in Events : attempts'[x] <= attempts[x]
    BY <1>1 DEF IInv, DeadLetters
  <2> QED BY <1>1, <2>1 DEF IInv, DeadLetters, Tried
<1> HIDE DEF e
<1>8. Moves
  BY <1>3, <1>5, <1>6, <1>7, MovesOne, SourcesAre DEF IInv, Names
<1> QED BY <1>2, <1>3, <1>4, <1>7, <1>8 DEF Kept

LEMMA RetriesKeeps ==
    ASSUME IInv, NEW w \in Workers, Retries(w)
    PROVE  Kept
<1> DEFINE e == event[w]
<1>1. /\ state' = state /\ stage' = stage /\ final' = final /\ owner' = owner
      /\ recycled' = recycled /\ draining' = draining /\ live' = live
      /\ buffer' = buffer /\ listener' = listener /\ leftovers' = leftovers /\ queue' = queue
      /\ injecting' = injecting /\ born' = born /\ done' = done /\ cut' = cut
      /\ dropped' = dropped /\ requeued' = requeued /\ dead' = dead /\ forgotten' = forgotten
      /\ attempts' = attempts /\ at[w] = "run" /\ Worker(w, "hooks", e)
      /\ attempts[e] <= MaxRetries /\ retries' = Append(retries, e)
  BY DEF Retries, Ends, RetriesLeft
<1>2. /\ ControlInv' /\ at'[w] = "hooks" /\ event' \in [Workers -> Events \cup {NoEvent}]
      /\ \A v \in Workers \ {w} : at'[v] = at[v] /\ event'[v] = event[v]
  BY <1>1, WorkerMoves DEF IInv, WorkerPlaces, Hands
<1>3. /\ Hands' /\ e \in Events /\ e \in Content["run"]
      /\ Content'["run"] = Content["run"] \ {e} /\ Content'["hold"] = Content["hold"]
  <2>1. PlaceOf(w) = "run"
    BY <1>1 DEF PlaceOf
  <2> QED BY <1>1, <1>2, <2>1, HandLeaves DEF IInv
<1>4. e \notin ToSet(retries)
  BY <1>3, ContentIs DEF IInv, Partition, Names
<1>5. List(retries') /\ ToSet(retries') = ToSet(retries) \cup {e}
  BY <1>1, <1>3, <1>4, AppendList DEF IInv, Containers
<1>6. Trigger' /\ Containers'
  BY <1>1, <1>5 DEF IInv, Trigger, Containers
<1>7. Content'["retries"] = Content["retries"] \cup {e}
  BY <1>5, ContentIs, ContentWillBe
<1>8. \A n \in Names \ {"run", "retries"} : Content'[n] = Content[n]
  BY <1>1, <1>3, Frame DEF Names
<1>9. DeadLetters' /\ Tried({e}, "retries")
  <2>1. \A x \in Events : attempts'[x] <= attempts[x]
    BY <1>1 DEF IInv, DeadLetters
  <2> QED BY <1>1, <2>1 DEF IInv, DeadLetters, List, Tried
<1> HIDE DEF e
<1>10. Moves
  BY <1>3, <1>7, <1>8, <1>9, MovesOne, SourcesAre DEF IInv, Names
<1> QED BY <1>2, <1>3, <1>6, <1>9, <1>10 DEF Kept

LEMMA HooksEndKeeps ==
    ASSUME IInv, NEW w \in Workers, HooksEnd(w)
    PROVE  Kept
<1>1. /\ state' = state /\ stage' = stage /\ final' = final /\ owner' = owner
      /\ recycled' = recycled /\ draining' = draining /\ live' = live
      /\ buffer' = buffer /\ listener' = listener /\ leftovers' = leftovers /\ queue' = queue
      /\ retries' = retries /\ injecting' = injecting /\ born' = born /\ done' = done /\ cut' = cut
      /\ dropped' = dropped /\ requeued' = requeued /\ dead' = dead /\ forgotten' = forgotten
      /\ attempts' = attempts /\ at[w] = "hooks" /\ Worker(w, "idle", NoEvent)
  BY DEF HooksEnd
<1>2. /\ ControlInv' /\ at'[w] = "idle" /\ event' \in [Workers -> Events \cup {NoEvent}]
      /\ \A v \in Workers \ {w} : at'[v] = at[v] /\ event'[v] = event[v]
  BY <1>1, WorkerMoves DEF IInv, WorkerPlaces
<1>3. Hands' /\ \A n \in {"hold", "run"} : Content'[n] = Content[n]
  BY <1>1, <1>2, EmptyHandMoves DEF IInv
<1>4. Trigger' /\ Containers'
  BY <1>1 DEF IInv, Trigger, Containers
<1>5. \A n \in Names \ {"dead"} : Content'[n] = Content[n]
  BY <1>1, <1>3, Frame DEF Names
<1>6. DeadLetters' /\ Moves
  BY <1>1, <1>5, NothingMoves DEF IInv
<1> QED BY <1>2, <1>3, <1>4, <1>6 DEF Kept

LEMMA FailsProcessKeeps ==
    ASSUME IInv, NEW w \in Workers, FailsProcess(w)
    PROVE  Kept
<1> DEFINE es == retries \o queue
           S == {"retries", "queue"}
<1>1. /\ stage' = stage /\ final' = final /\ owner' = owner
      /\ recycled' = recycled /\ draining' = draining /\ live' = live
      /\ buffer' = buffer /\ listener' = listener /\ leftovers' = leftovers
      /\ injecting' = injecting /\ born' = born /\ done' = done /\ cut' = cut
      /\ dropped' = dropped /\ requeued' = requeued
      /\ retries' = <<>> /\ queue' = <<>> /\ DeadLetter(es)
      /\ at[w] = "failing" /\ Worker(w, "none", NoEvent)
      /\ state' = IF state \in {"running", "suspended"} THEN "failed" ELSE state
  BY DEF FailsProcess
<1>2. /\ at'[w] = "none" /\ event'[w] = NoEvent
      /\ at' \in [Workers -> WorkerPlaces] /\ event' \in [Workers -> Events \cup {NoEvent}]
      /\ \A v \in Workers \ {w} : at'[v] = at[v] /\ event'[v] = event[v]
  BY <1>1 DEF Worker, IInv, ControlInv, Hands, WorkerPlaces
<1>3. ControlInv'
  <2>1. state' \in States
    BY <1>1 DEF IInv, ControlInv, States
  <2> QED BY <1>1, <1>2, <2>1 DEF IInv, ControlInv, WorkerPlaces
<1>4. Hands' /\ \A n \in {"hold", "run"} : Content'[n] = Content[n]
  BY <1>1, <1>2, EmptyHandMoves DEF IInv
<1>5. Trigger' /\ Containers'
  BY <1>1, EmptyList, EmptySeq, SizesAssumption DEF IInv, Trigger, Containers
<1>6. ToSet(retries) \cap ToSet(queue) = {}
  BY ContentIs DEF IInv, Partition, Names
<1>7. List(es) /\ ToSet(es) = Content["retries"] \cup Content["queue"]
  BY <1>6, ConcatList, ContentIs DEF IInv, Containers
<1>8. Content'["retries"] = {} /\ Content'["queue"] = {}
  BY <1>1, EmptyList, ContentWillBe
<1>9. \A n \in Names \ (S \cup {"dead"}) : Content'[n] = Content[n]
  BY <1>1, <1>4, Frame DEF Names
<1> HIDE DEF es
<1>10. DeadLetters' /\ Moves
  <2>1. S \in SUBSET (Names \ {"done", "cut", "dropped", "dead"})
    BY DEF Names
  <2>2. /\ \A e \in ToSet(es) : \E n \in S : e \in Content[n]
        /\ \A n \in S : Content'[n] = Content[n] \ ToSet(es)
    BY <1>7, <1>8
  <2> HIDE DEF S
  <2> QED BY <1>1, <1>7, <1>9, <2>1, <2>2, ManyDie DEF IInv
<1> QED BY <1>3, <1>4, <1>5, <1>10 DEF Kept

-----------------------------------------------------------------------------
(* Retries and the operator *)

\* An event of the place s is offered to the queue.
LEMMA OneOffered ==
    ASSUME Partition, DeadLetters, Containers,
           NEW s \in {"leftovers", "retries", "injecting"},
           NEW e \in Events, e \in Content[s],
           PutOrDeadLetter(e) \/ (DeadLetter(<<e>>) /\ queue' = queue),
           Content'[s] = Content[s] \ {e},
           \A n \in Names \ {s, "queue", "dead"} : Content'[n] = Content[n]
    PROVE  DeadLetters' /\ Moves /\ List(queue') /\ Len(queue') <= QueueSize
<1>1. CASE DeadLetter(<<e>>) /\ queue' = queue
  <2>1. s \in Names \ {"done", "cut", "dropped", "dead"}
    BY DEF Names
  <2>2. \A n \in Names \ {s, "dead"} : Content'[n] = Content[n]
    BY <1>1, Frame
  <2>3. DeadLetters' /\ Moves
    BY <1>1, <2>1, <2>2, OneDies
  <2> QED BY <1>1, <2>3 DEF Containers
<1>2. CASE Fits /\ queue' = Append(queue, e) /\ NoDeadLetter
  BY <1>2, OneQueued
<1> QED BY <1>1, <1>2 DEF PutOrDeadLetter

LEMMA RetryFiresKeeps ==
    ASSUME IInv, NEW e \in Events, RetryFires(e)
    PROVE  Kept
<1>1. /\ state' = state /\ stage' = stage /\ final' = final /\ owner' = owner
      /\ recycled' = recycled /\ draining' = draining /\ live' = live
      /\ buffer' = buffer /\ listener' = listener /\ leftovers' = leftovers
      /\ at' = at /\ event' = event /\ injecting' = injecting /\ born' = born /\ done' = done /\ cut' = cut
      /\ dropped' = dropped /\ requeued' = requeued \cup {e}
      /\ PutOrDeadLetter(e) \/ (DeadLetter(<<e>>) /\ queue' = queue)
  BY DEF RetryFires
<1>2. PICK i \in DOMAIN retries : retries[i] = e /\ retries' = RemoveAt(retries, i)
  BY DEF RetryFires
<1>3. List(retries') /\ ToSet(retries') = ToSet(retries) \ {e} /\ e \in ToSet(retries)
  BY <1>2, RemoveList DEF IInv, Containers
<1>4. e \in Content["retries"] /\ Content'["retries"] = Content["retries"] \ {e}
  BY <1>3, ContentIs, ContentWillBe
<1>5. \A n \in Names \ {"retries", "queue", "dead"} : Content'[n] = Content[n]
  BY <1>1, Frame DEF Names
<1>6. DeadLetters' /\ Moves /\ List(queue') /\ Len(queue') <= QueueSize
  BY <1>1, <1>4, <1>5, OneOffered DEF IInv
<1>7. ControlInv' /\ Trigger' /\ Hands'
  BY <1>1, HandsSame DEF IInv, ControlInv, Trigger
<1>8. Containers'
  BY <1>1, <1>3, <1>6 DEF IInv, Containers
<1> QED BY <1>6, <1>7, <1>8 DEF Kept

LEMMA InjectBeginsKeeps ==
    ASSUME IInv, NEW e \in Events, InjectBegins(e)
    PROVE  Kept
<1>1. /\ state' = state /\ stage' = stage /\ final' = final /\ owner' = owner
      /\ recycled' = recycled /\ draining' = draining /\ live' = live
      /\ buffer' = buffer /\ listener' = listener /\ leftovers' = leftovers /\ queue' = queue
      /\ at' = at /\ event' = event /\ retries' = retries /\ done' = done /\ cut' = cut
      /\ dropped' = dropped /\ requeued' = requeued \cup {e}
      /\ e \notin born /\ born' = born \cup {e}
      /\ \/ DeadLetter(<<e>>) /\ injecting' = injecting
         \/ injecting' = injecting \cup {e} /\ NoDeadLetter
  BY DEF InjectBegins, IsNext
<1>2. e \in Content["new"] /\ Content'["new"] = Content["new"] \ {e}
  BY <1>1, ContentIs, ContentWillBe
<1>3. ControlInv' /\ Trigger' /\ Hands' /\ Containers'
  BY <1>1, HandsSame DEF IInv, ControlInv, Trigger, Containers
<1>4. \A n \in Names \ {"new", "injecting", "dead"} : Content'[n] = Content[n]
  BY <1>1, Frame DEF Names
<1>5. CASE DeadLetter(<<e>>) /\ injecting' = injecting
  <2>1. \A n \in Names \ {"new", "dead"} : Content'[n] = Content[n]
    BY <1>4, <1>5, Frame
  <2>2. DeadLetters' /\ Moves
    BY <1>2, <1>5, <2>1, OneDies DEF IInv, Names
  <2> QED BY <1>3, <2>2 DEF Kept
<1>6. CASE injecting' = injecting \cup {e} /\ NoDeadLetter
  <2>1. Content'["injecting"] = Content["injecting"] \cup {e}
    BY <1>6, ContentIs, ContentWillBe
  <2>2. DeadLetters' /\ Moves
    BY <1>2, <1>4, <1>6, <2>1, OneGoes, SourcesAre DEF IInv, Names
  <2> QED BY <1>3, <2>2 DEF Kept
<1> QED BY <1>1, <1>5, <1>6

LEMMA InjectEndsKeeps ==
    ASSUME IInv, NEW e \in Events, InjectEnds(e)
    PROVE  Kept
<1>1. /\ stage' = stage /\ final' = final /\ owner' = owner
      /\ recycled' = recycled /\ draining' = draining /\ live' = live
      /\ buffer' = buffer /\ listener' = listener /\ leftovers' = leftovers
      /\ at' = at /\ event' = event /\ retries' = retries /\ born' = born /\ done' = done /\ cut' = cut
      /\ requeued' = requeued
      /\ e \in injecting /\ injecting' = injecting \ {e}
      /\ \/ Refused(e) /\ state' = state /\ queue' = queue
         \/ PutOrDeadLetter(e) /\ Wakes /\ dropped' = dropped
  BY DEF InjectEnds
<1>2. e \in Content["injecting"] /\ Content'["injecting"] = Content["injecting"] \ {e}
  BY <1>1, ContentIs, ContentWillBe
<1>3. Trigger' /\ Hands'
  BY <1>1, HandsSame DEF IInv, Trigger
<1>4. \A n \in Names \ {"injecting", "queue", "dropped", "dead"} : Content'[n] = Content[n]
  BY <1>1, Frame DEF Names
<1>5. CASE Refused(e) /\ state' = state /\ queue' = queue
  <2>1. \A n \in Names \ {"injecting", "dropped", "dead"} : Content'[n] = Content[n]
    BY <1>4, <1>5, Frame
  <2>2. DeadLetters' /\ Moves /\ dropped' \subseteq dropped \cup {e}
    BY <1>2, <1>5, <2>1, OneRefused DEF IInv
  <2>3. ControlInv' /\ Containers'
    BY <1>1, <1>5, <2>2 DEF IInv, ControlInv, Containers
  <2> QED BY <1>3, <2>2, <2>3 DEF Kept
<1>6. CASE PutOrDeadLetter(e) /\ Wakes /\ dropped' = dropped
  <2>1. \A n \in Names \ {"injecting", "queue", "dead"} : Content'[n] = Content[n]
    BY <1>4, <1>6, Frame
  <2>2. DeadLetters' /\ Moves /\ List(queue') /\ Len(queue') <= QueueSize
    BY <1>2, <1>6, <2>1, OneOffered DEF IInv
  <2>3. ControlInv' /\ Containers'
    BY <1>1, <1>6, <2>2, WakingKeeps DEF IInv, Containers
  <2> QED BY <1>3, <2>2, <2>3 DEF Kept
<1> QED BY <1>1, <1>5, <1>6

LEMMA RedeliverKeeps ==
    ASSUME IInv, NEW e \in Events, Redeliver(e)
    PROVE  Kept
<1>1. /\ stage' = stage /\ final' = final /\ owner' = owner
      /\ recycled' = recycled /\ draining' = draining /\ live' = live
      /\ buffer' = buffer /\ listener' = listener /\ leftovers' = leftovers
      /\ at' = at /\ event' = event /\ retries' = retries /\ injecting' = injecting
      /\ born' = born /\ done' = done /\ cut' = cut /\ dropped' = dropped /\ requeued' = requeued \cup {e}
      /\ forgotten' = forgotten /\ attempts' = attempts
      /\ Fits /\ queue' = Append(queue, e) /\ Wakes
  BY DEF Redeliver
<1>2. PICK i \in DOMAIN dead : dead[i] = e /\ dead' = RemoveAt(dead, i)
  BY DEF Redeliver
<1>3. /\ List(dead') /\ ToSet(dead') = ToSet(dead) \ {e} /\ e \in ToSet(dead)
      /\ Len(dead') = Len(dead) - 1
  BY <1>2, RemoveList DEF IInv, DeadLetters
<1>4. Len(dead) \in Nat /\ Len(queue) \in Nat
  BY LenProperties DEF IInv, DeadLetters, Containers, List
<1>5. DeadLetters' /\ InDead' = InDead \ {e} /\ e \in InDead
  <2>1. Len(dead') <= DeadLetterSize
    BY <1>3, <1>4, SizesAssumption DEF IInv, DeadLetters
  <2> QED BY <1>1, <1>3, <2>1 DEF IInv, DeadLetters, InDead
<1>6. e \in Content["dead"] /\ Content'["dead"] = Content["dead"] \ {e}
  BY <1>5, ContentIs, ContentWillBe
<1>7. e \notin ToSet(queue)
  BY <1>6, ContentIs DEF IInv, Partition, Names
<1>8. List(queue') /\ ToSet(queue') = ToSet(queue) \cup {e} /\ Len(queue') = Len(queue) + 1
  BY <1>1, <1>7, AppendList DEF IInv, Containers
<1>9. Len(queue') <= QueueSize
  BY <1>1, <1>4, <1>8, SizesAssumption DEF Fits
<1>10. Content'["queue"] = Content["queue"] \cup {e}
  BY <1>8, ContentIs, ContentWillBe
<1>11. \A n \in Names \ {"dead", "queue"} : Content'[n] = Content[n]
  BY <1>1, Frame DEF Names
<1>12. Tried({e}, "queue")
  BY <1>1 DEF IInv, DeadLetters, Tried
<1>13. Moves
  BY <1>6, <1>10, <1>11, <1>12, MovesOne, SourcesAre DEF IInv, Names
<1>14. ControlInv' /\ Trigger' /\ Hands' /\ Containers'
  BY <1>1, <1>8, <1>9, WakingKeeps, HandsSame DEF IInv, Trigger, Containers
<1> QED BY <1>5, <1>13, <1>14 DEF Kept

LEMMA ClearDeadLettersKeeps ==
    ASSUME IInv, ClearDeadLetters
    PROVE  Kept
<1>1. /\ state' = state /\ stage' = stage /\ final' = final /\ owner' = owner
      /\ recycled' = recycled /\ draining' = draining /\ live' = live
      /\ buffer' = buffer /\ listener' = listener /\ leftovers' = leftovers /\ queue' = queue
      /\ at' = at /\ event' = event /\ retries' = retries /\ injecting' = injecting
      /\ born' = born /\ done' = done /\ cut' = cut /\ dropped' = dropped /\ requeued' = requeued
      /\ attempts' = attempts /\ dead' = <<>> /\ forgotten' = forgotten \cup ToSet(dead)
  BY DEF ClearDeadLetters
<1>2. ControlInv' /\ Trigger' /\ Hands' /\ Containers'
  BY <1>1, HandsSame DEF IInv, ControlInv, Trigger, Containers
<1>3. ToSet(dead) \subseteq Events
  BY InSet, LenProperties, ElementOfSeq DEF IInv, DeadLetters, List
<1>4. DeadLetters' /\ InDead' = InDead
  BY <1>1, <1>3, EmptyList, EmptySeq, SizesAssumption DEF IInv, DeadLetters, InDead
<1>5. \A n \in Names : Content'[n] = Content[n]
  BY <1>1, <1>4, Frame, ContentIs, ContentWillBe DEF Names
<1>6. Moves
  BY <1>1, <1>5, MovesNothing DEF IInv
<1> QED BY <1>2, <1>4, <1>6 DEF Kept

-----------------------------------------------------------------------------
(* The control plane *)

\* A move of the control plane that touches no event.
LEMMA ControlOnly ==
    ASSUME IInv, NoEventMoves, ControlInv', Trigger'
    PROVE  Kept
<1>1. Hands' /\ Containers'
  BY HandsSame DEF NoEventMoves, IInv, Containers
<1>2. \A n \in Names \ {"dead"} : Content'[n] = Content[n]
  BY Frame DEF NoEventMoves, Names
<1>3. DeadLetters' /\ Moves
  BY <1>2, NothingMoves DEF NoEventMoves, IInv
<1> QED BY <1>1, <1>3 DEF Kept

LEMMA ControlOnlyKeeps ==
    ASSUME IInv, \/ StartBegins \/ TriggerStarts \/ StartFails \/ Suspends \/ Resumes
                 \/ DrainBegins \/ RefillEnds \/ EndTeardown
    PROVE  Kept
<1>1. NoEventMoves
  BY DEF StartBegins, TriggerStarts, StartFails, Suspends, Resumes, DrainBegins, RefillEnds,
         EndTeardown
<1>2. ControlInv' /\ Trigger'
  <2> USE <1>1 DEF IInv, ControlInv, Trigger, NoEventMoves, States, Stages
  <2>1. CASE StartBegins BY <2>1 DEF StartBegins
  <2>2. CASE TriggerStarts BY <2>2 DEF TriggerStarts
  <2>3. CASE StartFails BY <2>3 DEF StartFails
  <2>4. CASE Suspends BY <2>4 DEF Suspends
  <2>5. CASE Resumes BY <2>5 DEF Resumes
  <2>6. CASE DrainBegins BY <2>6 DEF DrainBegins
  <2>7. CASE RefillEnds BY <2>7 DEF RefillEnds
  <2>8. CASE EndTeardown BY <2>8, EventsAssumption DEF EndTeardown
  <2> QED BY <2>1, <2>2, <2>3, <2>4, <2>5, <2>6, <2>7, <2>8
<1> QED BY <1>1, <1>2, ControlOnly

LEMMA StartSucceedsKeeps ==
    ASSUME IInv, StartSucceeds
    PROVE  Kept
<1>1. /\ final' = final /\ owner' = owner /\ recycled' = recycled /\ draining' = draining
      /\ live' = live /\ buffer' = buffer /\ leftovers' = leftovers /\ queue' = queue
      /\ event' = event /\ retries' = retries /\ injecting' = injecting /\ born' = born
      /\ done' = done /\ cut' = cut /\ dropped' = dropped /\ requeued' = requeued
      /\ dead' = dead /\ forgotten' = forgotten /\ attempts' = attempts
      /\ stage = "build" /\ live /\ state' = "running" /\ stage' = "up" /\ listener' = Idle
      /\ at' = [w \in Workers |-> "idle"]
  BY DEF StartSucceeds
<1>2. listener = Gone /\ owner = NoWorker /\ \A w \in Workers : at[w] = "none"
  BY <1>1, EventsAssumption DEF IInv, Trigger, ControlInv
<1>3. ControlInv' /\ Trigger' /\ Containers'
  BY <1>1, <1>2, ListenerRests DEF IInv, ControlInv, Trigger, Containers, States, Stages
<1>4. \A x \in Events : ~Holds(x) /\ ~Holds(x)' /\ ~Runs(x) /\ ~Runs(x)'
  BY <1>1, <1>2 DEF Holds, Runs
<1>5. Hands'
  BY <1>1 DEF IInv, Hands, Holding
<1>6. /\ Content'["listener"] = Content["listener"]
      /\ Content'["hold"] = Content["hold"] /\ Content'["run"] = Content["run"]
  BY <1>1, <1>2, <1>4, ContentIs, ContentWillBe, ListenerRests
<1>7. \A n \in Names \ {"dead"} : Content'[n] = Content[n]
  BY <1>1, <1>6, Frame DEF Names
<1>8. DeadLetters' /\ Moves
  BY <1>1, <1>7, NothingMoves DEF IInv
<1> QED BY <1>3, <1>5, <1>8 DEF Kept

\* The events of some workers can be listed.
LEMMA HeldFinite ==
    ASSUME Hands, NEW W \in SUBSET Workers
    PROVE  EventsOf(W) \in SUBSET Events /\ IsFiniteSet(EventsOf(W))
<1> DEFINE T == {event[w] : w \in W}
           f == [w \in W |-> event[w]]
<1>1. IsFiniteSet(W)
  BY WorkersAssumption, FS_Subset
<1>2. f \in Surjection(W, T)
  BY DEF Surjection
<1>3. IsFiniteSet(T)
  BY <1>1, <1>2, FS_Surjection
<1>4. EventsOf(W) \in SUBSET T
  BY DEF EventsOf
<1>5. IsFiniteSet(EventsOf(W))
  BY <1>3, <1>4, FS_Subset
<1>6. EventsOf(W) \subseteq Events
  BY DEF EventsOf, Hands
<1> QED BY <1>5, <1>6

LEMMA BeginTeardownKeeps ==
    ASSUME IInv, NEW f \in BOOLEAN, NEW o \in Workers \cup {NoWorker}, BeginTeardown(f, o)
    PROVE  Kept
<1> DEFINE H == EventsOf(Holding \ {o})
           S == {"retries", "hold", "run"}
<1>1. /\ recycled' = recycled /\ draining' = draining /\ live' = live
      /\ buffer' = buffer /\ listener' = listener /\ leftovers' = leftovers /\ queue' = queue
      /\ injecting' = injecting /\ born' = born /\ done' = done /\ cut' = cut
      /\ dropped' = dropped /\ requeued' = requeued
      /\ stage \in {"up", "down"} /\ stage' = "workers" /\ final' = f /\ owner' = o
      /\ state' = IF state = "failed" /\ ~f THEN "failed" ELSE "stopping"
      /\ o # NoWorker => at[o] \in {"run", "spent"}
      /\ retries' = <<>>
      /\ at' = [w \in Workers |-> IF w # o THEN "none"
                                 ELSE IF at[w] = "spent" THEN "spent_stop" ELSE "run"]
      /\ event' = [w \in Workers |-> IF w = o THEN event[w] ELSE NoEvent]
  BY DEF BeginTeardown
<1>2. PICK held \in SetToSeqs(H) : DeadLetter(retries \o held)
  BY DEF BeginTeardown
<1>3. ControlInv'
  BY <1>1 DEF IInv, ControlInv, States, Stages
<1>4. Trigger'
  BY <1>1 DEF IInv, Trigger
<1>5. Containers'
  BY <1>1, EmptyList DEF IInv, Containers
<1>6. Hands'
  BY <1>1, EventsAssumption DEF IInv, Hands, Holding
<1>7. List(held) /\ ToSet(held) = H /\ H \subseteq Events
  <2>1. H \in SUBSET Events /\ IsFiniteSet(H)
    BY HeldFinite DEF IInv, Holding
  <2> HIDE DEF H
  <2> QED BY <2>1, OrderList
<1>8. \A x \in Events : x \in H <=> \E w \in Workers : w # o /\ at[w] \in InHand /\ event[w] = x
  BY EventsAssumption DEF EventsOf, Holding
<1> HIDE DEF H
<1>9. /\ \A x \in H : Holds(x) \/ Runs(x)
      /\ \A x \in Events : Holds(x) => x \in H
      /\ \A x \in Events : Runs(x) => x \in H \/ (o # NoWorker /\ event[o] = x)
  BY <1>1, <1>7, <1>8, EventsAssumption DEF Holds, Runs
<1>10. \A x \in Events : o # NoWorker /\ event[o] = x => x \notin H /\ Runs(x)
  BY <1>1, <1>8 DEF Runs, IInv, Hands, Holding
<1>11. \A x \in Events : ~Holds(x)' /\ (Runs(x)' <=> o # NoWorker /\ event[o] = x)
  BY <1>1, EventsAssumption DEF Holds, Runs
<1>12. ToSet(retries) \cap H = {} /\ \A x \in ToSet(retries) : x \in Events => ~Runs(x) /\ ~Holds(x)
  <2>1. \A x \in Events : x \in ToSet(retries) => ~Runs(x) /\ ~Holds(x)
    BY ContentIs DEF IInv, Partition, Names
  <2> QED BY <1>7, <1>9, <2>1
<1> DEFINE es == retries \o held
<1>13. List(es) /\ ToSet(es) = ToSet(retries) \cup H
  BY <1>7, <1>12, ConcatList DEF IInv, Containers
<1> HIDE DEF es
<1>14. /\ Content'["retries"] = Content["retries"] \ ToSet(es)
       /\ Content'["hold"] = Content["hold"] \ ToSet(es)
       /\ Content'["run"] = Content["run"] \ ToSet(es)
  <2>1. Content'["retries"] = Content["retries"] \ ToSet(es)
    BY <1>1, <1>13, EmptyList, ContentIs, ContentWillBe
  <2>2. Content'["hold"] = Content["hold"] \ ToSet(es)
    <3>1. {x \in Events : Holds(x)'} = {x \in Events : Holds(x)} \ ToSet(es)
      BY <1>9, <1>11, <1>13
    <3> QED BY <3>1, ContentIs, ContentWillBe
  <2>3. Content'["run"] = Content["run"] \ ToSet(es)
    <3>1. {x \in Events : Runs(x)'} = {x \in Events : Runs(x)} \ ToSet(es)
      BY <1>9, <1>10, <1>11, <1>12, <1>13
    <3> QED BY <3>1, ContentIs, ContentWillBe
  <2> QED BY <2>1, <2>2, <2>3
<1>15. \A e \in ToSet(es) : \E n \in S : e \in Content[n]
  <2>1. \A e \in H : e \in Content["hold"] \/ e \in Content["run"]
    BY <1>7, <1>9, ContentIs
  <2> QED BY <2>1, <1>13, ContentIs
<1>16. \A n \in Names \ (S \cup {"dead"}) : Content'[n] = Content[n]
  BY <1>1, Frame DEF Names
<1>17. DeadLetters' /\ Moves
  <2>1. S \in SUBSET (Names \ {"done", "cut", "dropped", "dead"})
    BY DEF Names
  <2>2. \A n \in S : Content'[n] = Content[n] \ ToSet(es)
    BY <1>14
  <2>3. DeadLetter(es)
    BY <1>2 DEF es
  <2> HIDE DEF S
  <2> QED BY <1>13, <1>15, <1>16, <2>1, <2>2, <2>3, ManyDie DEF IInv
<1> QED BY <1>3, <1>4, <1>5, <1>6, <1>17 DEF Kept

\* The events of what a teardown has taken over.
LeftOver == [event : Events, admitted : BOOLEAN]

LEMMA EventsInIs ==
    ASSUME NEW s \in Seq(LeftOver)
    PROVE  /\ EventsIn(s) \in Seq(Events) /\ Len(EventsIn(s)) = Len(s)
           /\ Len(s) \in Nat /\ DOMAIN s = 1 .. Len(s)
           /\ \A i \in 1 .. Len(s) : EventsIn(s)[i] = s[i].event
<1>1. Len(s) \in Nat /\ DOMAIN s = 1 .. Len(s) /\ \A i \in 1 .. Len(s) : s[i].event \in Events
  <2>1. Len(s) \in Nat /\ DOMAIN s = 1 .. Len(s) /\ \A i \in 1 .. Len(s) : s[i] \in LeftOver
    BY LenProperties, ElementOfSeq
  <2> QED BY <2>1 DEF LeftOver
<1>2. EventsIn(s) \in [1 .. Len(s) -> Events]
  BY <1>1 DEF EventsIn
<1>3. EventsIn(s) \in Seq(Events)
  BY <1>1, <1>2, SeqDef
<1> QED BY <1>1, <1>2, <1>3, LenProperties DEF EventsIn

LEMMA EventsInNothing == EventsIn(<<>>) = <<>>
BY EventsInIs, EmptySeq

LEMMA CancelListenerKeeps ==
    ASSUME IInv, CancelListener
    PROVE  Kept
<1> DEFINE e == listener.event
<1>1. /\ state' = state /\ final' = final /\ owner' = owner
      /\ recycled' = recycled /\ draining' = draining /\ live' = live
      /\ buffer' = buffer /\ queue' = queue /\ at' = at
      /\ event' = event /\ retries' = retries /\ injecting' = injecting /\ born' = born
      /\ done' = done /\ cut' = cut /\ dropped' = dropped /\ requeued' = requeued
      /\ dead' = dead /\ forgotten' = forgotten /\ attempts' = attempts /\ NoDeadLetter
      /\ stage = "workers" /\ stage' = "listeners" /\ listener' = Gone
      /\ leftovers' = leftovers \o LeftByListener
  BY DEF CancelListener, NoDeadLetter
<1>2. leftovers = <<>>
  BY <1>1 DEF IInv, Trigger
<1>3. e = NoEvent => LeftByListener = <<>>
  BY DEF LeftByListener
<1>4. e # NoEvent => /\ LeftByListener = <<[event |-> e, admitted |-> listener.at = "putting"]>>
                     /\ LeftByListener \in Seq(LeftOver)
  BY DEF LeftByListener, LeftOver, IInv, Trigger
<1>5. leftovers' = LeftByListener
  BY <1>1, <1>2, <1>3, <1>4, ConcatEmptySeq, EmptySeq
<1>6. ControlInv' /\ Hands'
  BY <1>1, HandsSame DEF IInv, ControlInv, Stages
<1>7. Trigger'
  BY <1>1, ListenerRests DEF IInv, Trigger
<1>8. \A n \in Names \ {"listener", "leftovers", "dead"} : Content'[n] = Content[n]
  BY <1>1, Frame DEF Names
<1>9. Content'["listener"] = {} /\ Content["leftovers"] = {}
  BY <1>1, <1>2, EmptyList, EventsInNothing, ContentIs, ContentWillBe, ListenerRests
<1>10. CASE e = NoEvent
  <2>1. leftovers' = leftovers /\ Content["listener"] = {}
    BY <1>2, <1>3, <1>5, <1>10, ContentIs
  <2>2. Containers'
    BY <1>1, <2>1 DEF IInv, Containers
  <2>3. \A n \in Names \ {"dead"} : Content'[n] = Content[n]
    BY <1>8, <1>9, <2>1, Frame
  <2>4. DeadLetters' /\ Moves
    BY <1>1, <2>3, NothingMoves DEF IInv
  <2> QED BY <1>6, <1>7, <2>2, <2>4 DEF Kept
<1>11. CASE e # NoEvent
  <2>1. e \in Events
    BY <1>11 DEF IInv, Trigger
  <2> DEFINE r == [event |-> e, admitted |-> listener.at = "putting"]
  <2>2. /\ leftovers' = <<r>> /\ leftovers' \in Seq(LeftOver) /\ r.event = e
    BY <1>4, <1>5, <1>11
  <2>3. EventsIn(leftovers') = <<e>>
    <3>1. Len(leftovers') = 1 /\ leftovers'[1] = r
      BY <2>2
    <3>2. EventsIn(leftovers') \in Seq(Events) /\ Len(EventsIn(leftovers')) = 1 /\ EventsIn(leftovers')[1] = e
      <4>1. /\ EventsIn(leftovers') \in Seq(Events) /\ Len(EventsIn(leftovers')) = Len(leftovers')
            /\ \A i \in 1 .. Len(leftovers') : EventsIn(leftovers')[i] = leftovers'[i].event
        BY <2>2, EventsInIs
      <4> HIDE DEF r
      <4> QED BY <2>2, <3>1, <4>1
    <3> QED BY <2>1, <3>2, SeqEqual
  <2>4. List(EventsIn(leftovers')) /\ ToSet(EventsIn(leftovers')) = {e}
    BY <2>1, <2>3, OneList
  <2>5. Containers'
    BY <1>1, <2>2, <2>4 DEF IInv, Containers, LeftOver
  <2>6. /\ e \in Content["listener"] /\ Content'["listener"] = Content["listener"] \ {e}
        /\ Content'["leftovers"] = Content["leftovers"] \cup {e}
    BY <1>9, <1>11, <2>4, ContentIs, ContentWillBe
  <2>7. DeadLetters' /\ Moves
    BY <1>1, <1>8, <2>1, <2>6, OneGoes, SourcesAre DEF IInv, Names
  <2> QED BY <1>6, <1>7, <2>5, <2>7 DEF Kept
<1> QED BY <1>10, <1>11

LEMMA StopTriggerForGoodKeeps ==
    ASSUME IInv, StopTriggerForGood
    PROVE  Kept
<1> DEFINE front == queue \o EventsIn(leftovers)
           es == front \o buffer
           S == {"queue", "leftovers", "buffer"}
<1>1. /\ state' = state /\ final' = final /\ owner' = owner
      /\ recycled' = recycled /\ draining' = draining /\ listener' = listener
      /\ at' = at /\ event' = event /\ retries' = retries /\ injecting' = injecting
      /\ born' = born /\ done' = done /\ cut' = cut /\ dropped' = dropped /\ requeued' = requeued
      /\ stage = "listeners" /\ stage' = "release" /\ live' = FALSE
      /\ queue' = <<>> /\ leftovers' = <<>> /\ buffer' = <<>>
      /\ DeadLetter(es)
  BY DEF StopTriggerForGood
<1>2. ControlInv' /\ Trigger' /\ Hands'
  BY <1>1, HandsSame DEF IInv, ControlInv, Trigger, Stages
<1>3. Containers'
  BY <1>1, EmptyList, EventsInNothing, EmptySeq, SizesAssumption DEF IInv, Containers
<1>4. /\ ToSet(queue) \cap ToSet(EventsIn(leftovers)) = {}
      /\ (ToSet(queue) \cup ToSet(EventsIn(leftovers))) \cap ToSet(buffer) = {}
  BY ContentIs DEF IInv, Partition, Names
<1>5. List(front) /\ ToSet(front) = ToSet(queue) \cup ToSet(EventsIn(leftovers))
  BY <1>4, ConcatList DEF IInv, Containers
<1> HIDE DEF front
<1>6. List(es) /\ ToSet(es) = ToSet(front) \cup ToSet(buffer)
  BY <1>4, <1>5, ConcatList DEF IInv, Containers
<1>7. Content'["queue"] = {} /\ Content'["leftovers"] = {} /\ Content'["buffer"] = {}
  BY <1>1, EmptyList, EventsInNothing, ContentWillBe
<1>8. \A n \in Names \ (S \cup {"dead"}) : Content'[n] = Content[n]
  BY <1>1, Frame DEF Names
<1> HIDE DEF es
<1>9. DeadLetters' /\ Moves
  <2>1. S \in SUBSET (Names \ {"done", "cut", "dropped", "dead"})
    BY DEF Names
  <2>2. ToSet(es) = Content["queue"] \cup Content["leftovers"] \cup Content["buffer"]
    BY <1>5, <1>6, ContentIs
  <2>3. /\ \A e \in ToSet(es) : \E n \in S : e \in Content[n]
        /\ \A n \in S : Content'[n] = Content[n] \ ToSet(es)
    BY <1>7, <2>2
  <2> HIDE DEF S
  <2> QED BY <1>1, <1>6, <1>8, <2>1, <2>3, ManyDie DEF IInv
<1> QED BY <1>2, <1>3, <1>9 DEF Kept

LEMMA StopTriggerForRestartKeeps ==
    ASSUME IInv, StopTriggerForRestart
    PROVE  Kept
<1> DEFINE tail == [i \in 1 .. Len(buffer) |-> [event |-> buffer[i], admitted |-> FALSE]]
<1>1. /\ state' = state /\ final' = final /\ owner' = owner
      /\ recycled' = recycled /\ draining' = draining /\ listener' = listener
      /\ queue' = queue /\ at' = at /\ event' = event /\ retries' = retries
      /\ injecting' = injecting /\ born' = born /\ done' = done /\ cut' = cut /\ dropped' = dropped
      /\ requeued' = requeued /\ NoDeadLetter
      /\ stage = "listeners" /\ stage' = "refill" /\ live' = FALSE /\ buffer' = <<>>
      /\ leftovers' = leftovers \o tail
  BY DEF StopTriggerForRestart, WithBuffered, NoDeadLetter
<1>2. ControlInv' /\ Trigger' /\ Hands'
  BY <1>1, HandsSame DEF IInv, ControlInv, Trigger, Stages
<1>3. /\ buffer \in Seq(Events) /\ Len(buffer) \in Nat /\ \A i \in 1 .. Len(buffer) : buffer[i] \in Events
      /\ leftovers \in Seq(LeftOver) /\ EventsIn(leftovers) \in Seq(Events)
  BY LenProperties, ElementOfSeq, EventsInIs DEF IInv, Containers, List, LeftOver
<1>4. /\ tail \in Seq(LeftOver) /\ Len(tail) = Len(buffer)
      /\ \A i \in 1 .. Len(buffer) : tail[i].event = buffer[i]
  <2>1. tail \in [1 .. Len(buffer) -> LeftOver]
    BY <1>3 DEF LeftOver
  <2>2. tail \in Seq(LeftOver)
    BY <1>3, <2>1, SeqDef
  <2>3. Len(tail) = Len(buffer)
    BY <1>3, <2>1, <2>2, LenProperties
  <2> QED BY <1>3, <2>2, <2>3
<1> HIDE DEF tail
<1>5. /\ leftovers' \in Seq(LeftOver) /\ Len(leftovers') = Len(leftovers) + Len(buffer)
      /\ \A i \in 1 .. Len(leftovers) + Len(buffer) :
            leftovers'[i] = IF i <= Len(leftovers) THEN leftovers[i] ELSE tail[i - Len(leftovers)]
  <2>0. leftovers \in Seq(LeftOver) /\ tail \in Seq(LeftOver)
    BY <1>3, <1>4
  <2>1. /\ leftovers \o tail \in Seq(LeftOver) /\ Len(leftovers \o tail) = Len(leftovers) + Len(tail)
        /\ \A i \in 1 .. Len(leftovers) + Len(tail) :
              (leftovers \o tail)[i] = IF i <= Len(leftovers) THEN leftovers[i] ELSE tail[i - Len(leftovers)]
    BY <2>0, ConcatProperties
  <2> QED BY <1>1, <1>4, <2>1
<1>6. EventsIn(leftovers') = EventsIn(leftovers) \o buffer
  <2> DEFINE a == EventsIn(leftovers')
             b == EventsIn(leftovers) \o buffer
  <2>1. /\ a \in Seq(Events) /\ Len(a) = Len(leftovers) + Len(buffer)
        /\ \A i \in 1 .. Len(leftovers) + Len(buffer) : a[i] = leftovers'[i].event
    BY <1>5, EventsInIs
  <2>2. Len(EventsIn(leftovers)) = Len(leftovers) /\ Len(leftovers) \in Nat
        /\ \A i \in 1 .. Len(leftovers) : EventsIn(leftovers)[i] = leftovers[i].event
    BY <1>3, EventsInIs
  <2>3. /\ b \in Seq(Events) /\ Len(b) = Len(leftovers) + Len(buffer)
        /\ \A i \in 1 .. Len(leftovers) + Len(buffer) :
              b[i] = IF i <= Len(leftovers) THEN EventsIn(leftovers)[i] ELSE buffer[i - Len(leftovers)]
    <3> DEFINE c == EventsIn(leftovers)
    <3>1. c \in Seq(Events) /\ Len(c) = Len(leftovers)
      BY <1>3, <2>2
    <3> HIDE DEF c
    <3>2. /\ c \o buffer \in Seq(Events) /\ Len(c \o buffer) = Len(c) + Len(buffer)
          /\ \A i \in 1 .. Len(c) + Len(buffer) :
                (c \o buffer)[i] = IF i <= Len(c) THEN c[i] ELSE buffer[i - Len(c)]
      BY <1>3, <3>1, ConcatProperties
    <3> QED BY <3>1, <3>2 DEF c
  <2> HIDE DEF a, b
  <2>4. ASSUME NEW i \in 1 .. Len(leftovers) + Len(buffer) PROVE a[i] = b[i]
    <3>1. CASE i <= Len(leftovers)
      <4>1. i \in 1 .. Len(leftovers)
        BY <2>2, <2>4, <3>1
      <4> QED BY <3>1, <4>1, <2>1, <2>2, <2>3, <2>4, <1>5
    <3>2. CASE ~(i <= Len(leftovers))
      <4>1. i - Len(leftovers) \in 1 .. Len(buffer)
        BY <1>3, <2>2, <2>4, <3>2
      <4>2. a[i] = tail[i - Len(leftovers)].event /\ b[i] = buffer[i - Len(leftovers)]
        BY <3>2, <2>1, <2>3, <2>4, <1>5
      <4> QED BY <1>4, <4>1, <4>2
    <3> QED BY <3>1, <3>2
  <2>5. a = b
    BY <2>1, <2>3, <2>4, SeqEqual
  <2> QED BY <2>5 DEF a, b
<1>7. ToSet(EventsIn(leftovers)) \cap ToSet(buffer) = {}
  BY ContentIs DEF IInv, Partition, Names
<1>8. /\ List(EventsIn(leftovers'))
      /\ ToSet(EventsIn(leftovers')) = ToSet(EventsIn(leftovers)) \cup ToSet(buffer)
  BY <1>6, <1>7, ConcatList DEF IInv, Containers
<1>9. Containers'
  BY <1>1, <1>5, <1>8, EmptyList, EmptySeq, SizesAssumption DEF IInv, Containers, LeftOver
<1> DEFINE M == ToSet(buffer)
           S == {"buffer"}
<1>10. M \in SUBSET Events
  BY <1>3, InSet, LenProperties
<1>11. DeadLetters' /\ Tried(M, "leftovers") /\ InDead' = InDead
  BY <1>1, NotDeadLettered DEF IInv
<1>12. /\ Content'["leftovers"] = Content["leftovers"] \cup M
       /\ Content'["buffer"] = Content["buffer"] \ M /\ Content["buffer"] = M
  BY <1>1, <1>8, EmptyList, ContentIs, ContentWillBe
<1> HIDE DEF M
<1>13. \A n \in Names \ {"buffer", "leftovers"} : Content'[n] = Content[n]
  BY <1>1, <1>11, Frame, ContentIs, ContentWillBe DEF Names
<1>14. Moves
  <2>1. /\ "leftovers" \in Names /\ S \in SUBSET Sources("leftovers") /\ "leftovers" \notin S
        /\ S \subseteq Names /\ \A e \in M : \E n \in S : e \in Content[n]
        /\ \A n \in S : Content'[n] = Content[n] \ M
        /\ \A n \in Names \ (S \cup {"leftovers"}) : Content'[n] = Content[n]
    BY <1>12, <1>13, SourcesAre DEF Names
  <2> HIDE DEF S
  <2> QED BY <1>10, <1>11, <1>12, <2>1, MovesTo DEF IInv
<1> QED BY <1>2, <1>9, <1>11, <1>14 DEF Kept

LEMMA RefillQueueKeeps ==
    ASSUME IInv, RefillQueue
    PROVE  Kept
<1> DEFINE e == Head(leftovers).event
           s == EventsIn(leftovers)
<1>1. /\ state' = state /\ stage' = stage /\ final' = final /\ owner' = owner
      /\ recycled' = recycled /\ draining' = draining /\ live' = live
      /\ buffer' = buffer /\ listener' = listener /\ at' = at /\ event' = event
      /\ retries' = retries /\ injecting' = injecting /\ born' = born /\ done' = done /\ cut' = cut
      /\ requeued' = requeued
      /\ stage = "refill" /\ leftovers # <<>> /\ leftovers' = Tail(leftovers)
      /\ \/ PutOrDeadLetter(e) /\ dropped' = dropped
         \/ Refused(e) /\ queue' = queue
  BY DEF RefillQueue
<1>2. /\ leftovers \in Seq(LeftOver) /\ List(s)
      /\ s \in Seq(Events) /\ Len(s) = Len(leftovers) /\ Len(leftovers) \in Nat \ {0}
      /\ \A i \in 1 .. Len(leftovers) : s[i] = leftovers[i].event
  BY <1>1, EventsInIs, EmptySeq DEF IInv, Containers, LeftOver
<1>3. /\ leftovers' \in Seq(LeftOver) /\ Len(leftovers') = Len(leftovers) - 1
      /\ \A i \in 1 .. Len(leftovers) - 1 : leftovers'[i] = leftovers[i + 1]
      /\ e = leftovers[1].event
  BY <1>1, <1>2, HeadTailProperties
<1> HIDE DEF s, e
<1>4. s # <<>> /\ Head(s) = e
  BY <1>2, <1>3
<1>5. EventsIn(leftovers') = Tail(s)
  <2>1. /\ EventsIn(leftovers') \in Seq(Events) /\ Len(EventsIn(leftovers')) = Len(leftovers) - 1
        /\ \A i \in 1 .. Len(leftovers) - 1 : EventsIn(leftovers')[i] = leftovers'[i].event
    BY <1>3, EventsInIs
  <2>2. /\ Tail(s) \in Seq(Events) /\ Len(Tail(s)) = Len(leftovers) - 1
        /\ \A i \in 1 .. Len(leftovers) - 1 : Tail(s)[i] = s[i + 1]
    BY <1>2, <1>4, HeadTailProperties
  <2>3. \A i \in 1 .. Len(leftovers) - 1 : i + 1 \in 1 .. Len(leftovers)
    BY <1>2
  <2>4. \A i \in 1 .. Len(leftovers) - 1 : EventsIn(leftovers')[i] = Tail(s)[i]
    BY <1>2, <1>3, <2>1, <2>2, <2>3
  <2> DEFINE a == EventsIn(leftovers')
             b == Tail(s)
  <2> HIDE DEF a, b
  <2>5. a = b
    BY <2>1, <2>2, <2>4, SeqEqual DEF a, b
  <2> QED BY <2>5 DEF a, b
<1>6. /\ List(EventsIn(leftovers')) /\ ToSet(EventsIn(leftovers')) = ToSet(s) \ {e}
      /\ e \in ToSet(s) /\ e \in Events
  BY <1>2, <1>4, <1>5, TailList
<1>7. e \in Content["leftovers"] /\ Content'["leftovers"] = Content["leftovers"] \ {e}
  BY <1>6, ContentIs, ContentWillBe DEF s
<1>8. ControlInv' /\ Trigger' /\ Hands'
  BY <1>1, HandsSame DEF IInv, ControlInv, Trigger
<1>9. \A n \in Names \ {"leftovers", "queue", "dropped", "dead"} : Content'[n] = Content[n]
  BY <1>1, Frame DEF Names
<1>10. CASE PutOrDeadLetter(e) /\ dropped' = dropped
  <2>1. \A n \in Names \ {"leftovers", "queue", "dead"} : Content'[n] = Content[n]
    BY <1>9, <1>10, Frame
  <2>2. DeadLetters' /\ Moves /\ List(queue') /\ Len(queue') <= QueueSize
    BY <1>6, <1>7, <1>10, <2>1, OneOffered DEF IInv
  <2>3. Containers'
    BY <1>1, <1>3, <1>6, <1>10, <2>2 DEF IInv, Containers, LeftOver
  <2> QED BY <1>8, <2>2, <2>3 DEF Kept
<1>11. CASE Refused(e) /\ queue' = queue
  <2>1. \A n \in Names \ {"leftovers", "dropped", "dead"} : Content'[n] = Content[n]
    BY <1>9, <1>11, Frame
  <2>2. DeadLetters' /\ Moves /\ dropped' \subseteq dropped \cup {e}
    BY <1>6, <1>7, <1>11, <2>1, OneRefused DEF IInv
  <2>3. Containers'
    BY <1>1, <1>3, <1>6, <1>11, <2>2 DEF IInv, Containers, LeftOver
  <2> QED BY <1>8, <2>2, <2>3 DEF Kept
<1> QED BY <1>1, <1>10, <1>11

LEMMA OwnerEndsKeeps ==
    ASSUME IInv, OwnerEnds
    PROVE  Kept
<1> DEFINE e == event[owner]
<1>1. /\ state' = state /\ final' = final
      /\ recycled' = recycled /\ draining' = draining /\ live' = live
      /\ buffer' = buffer /\ listener' = listener /\ leftovers' = leftovers /\ queue' = queue
      /\ retries' = retries /\ injecting' = injecting /\ born' = born /\ done' = done
      /\ dropped' = dropped /\ requeued' = requeued /\ dead' = dead /\ forgotten' = forgotten
      /\ attempts' = attempts
      /\ stage = "owner" /\ at[owner] \notin {"hold", "run", "spent_stop"} /\ stage' = "down"
      /\ owner' = NoWorker /\ Worker(owner, "none", NoEvent)
      /\ cut' = cut \cup (IF at[owner] \in {"denied", "spent"} THEN {e} ELSE {})
  BY DEF OwnerEnds, AfterOwner
<1>2. owner \in Workers
  BY <1>1 DEF IInv, ControlInv
<1>3. /\ at'[owner] = "none" /\ event'[owner] = NoEvent
      /\ at' \in [Workers -> WorkerPlaces] /\ event' \in [Workers -> Events \cup {NoEvent}]
      /\ \A v \in Workers \ {owner} : at'[v] = at[v] /\ event'[v] = event[v]
  BY <1>1, <1>2 DEF Worker, IInv, ControlInv, Hands, WorkerPlaces
<1>4. ControlInv'
  BY <1>1, <1>2, <1>3, EventsAssumption DEF IInv, ControlInv, WorkerPlaces, Stages
<1>5. Trigger'
  BY <1>1 DEF IInv, Trigger
<1>6. CASE at[owner] \in {"denied", "spent"}
  <2>1. /\ Hands' /\ e \in Events /\ e \in Content["run"]
        /\ Content'["run"] = Content["run"] \ {e} /\ Content'["hold"] = Content["hold"]
    <3>1. PlaceOf(owner) = "run" /\ at[owner] \in InHand /\ at'[owner] \notin InHand
      BY <1>3, <1>6 DEF PlaceOf
    <3> QED BY <1>2, <1>3, <3>1, HandLeaves DEF IInv
  <2>2. cut' = cut \cup {e}
    BY <1>1, <1>6
  <2>3. Containers'
    BY <1>1, <2>1, <2>2 DEF IInv, Containers
  <2>4. Content'["cut"] = Content["cut"] \cup {e}
    BY <2>2, ContentIs, ContentWillBe
  <2>5. \A n \in Names \ {"run", "cut"} : Content'[n] = Content[n]
    BY <1>1, <2>1, Frame DEF Names
  <2>6. DeadLetters' /\ Tried({e}, "cut")
    <3>1. \A x \in Events : attempts'[x] <= attempts[x]
      BY <1>1 DEF IInv, DeadLetters
    <3> QED BY <1>1, <3>1 DEF IInv, DeadLetters, List, Tried
  <2> HIDE DEF e
  <2>7. Moves
    BY <2>1, <2>4, <2>5, <2>6, MovesOne, SourcesAre DEF IInv, Names
  <2> QED BY <1>4, <1>5, <2>1, <2>3, <2>6, <2>7 DEF Kept
<1>7. CASE at[owner] \notin {"denied", "spent"}
  <2>1. cut' = cut
    BY <1>1, <1>7
  <2>2. Hands' /\ \A n \in {"hold", "run"} : Content'[n] = Content[n]
    BY <1>1, <1>2, <1>3, <1>7, EmptyHandMoves DEF IInv
  <2>3. Containers'
    BY <1>1, <2>1 DEF IInv, Containers
  <2>4. \A n \in Names \ {"dead"} : Content'[n] = Content[n]
    BY <1>1, <2>1, <2>2, Frame DEF Names
  <2>5. DeadLetters' /\ Moves
    BY <1>1, <2>4, NothingMoves DEF IInv
  <2> QED BY <1>4, <1>5, <2>2, <2>3, <2>5 DEF Kept
<1> QED BY <1>6, <1>7

LEMMA StopFinishesRecycleKeeps ==
    ASSUME IInv, StopFinishesRecycle
    PROVE  Kept
<1> DEFINE S == {"queue"}
<1>1. /\ state' = state /\ stage' = stage /\ final' = final /\ owner' = owner
      /\ recycled' = FALSE /\ draining' = draining /\ live' = live
      /\ buffer' = buffer /\ listener' = listener /\ leftovers' = leftovers
      /\ at' = at /\ event' = event /\ retries' = retries /\ injecting' = injecting
      /\ born' = born /\ done' = done /\ cut' = cut /\ dropped' = dropped /\ requeued' = requeued
      /\ DeadLetter(queue) /\ queue' = <<>>
  BY DEF StopFinishesRecycle
<1>2. ControlInv' /\ Trigger' /\ Hands'
  BY <1>1, HandsSame DEF IInv, ControlInv, Trigger
<1>3. Containers'
  BY <1>1, EmptyList, EmptySeq, SizesAssumption DEF IInv, Containers
<1>4. Content'["queue"] = {} /\ Content["queue"] = ToSet(queue) /\ List(queue)
  BY <1>1, EmptyList, ContentIs, ContentWillBe DEF IInv, Containers
<1>5. \A n \in Names \ (S \cup {"dead"}) : Content'[n] = Content[n]
  BY <1>1, Frame DEF Names
<1>6. DeadLetters' /\ Moves
  <2>1. S \in SUBSET (Names \ {"done", "cut", "dropped", "dead"})
    BY DEF Names
  <2>2. /\ \A e \in ToSet(queue) : \E n \in S : e \in Content[n]
        /\ \A n \in S : Content'[n] = Content[n] \ ToSet(queue)
    BY <1>4
  <2> HIDE DEF S
  <2> QED BY <1>1, <1>4, <1>5, <2>1, <2>2, ManyDie DEF IInv
<1> QED BY <1>2, <1>3, <1>6 DEF Kept

-----------------------------------------------------------------------------
(* The invariant is inductive *)

LEMMA Initially == Init => IInv
<1> SUFFICES ASSUME Init PROVE IInv
  OBVIOUS
<1>1. ControlInv /\ Trigger
  BY ListenerRests DEF Init, ControlInv, Trigger, States, Stages
<1>2. Containers /\ DeadLetters
  BY EmptyList, EventsInNothing, EmptySeq, SizesAssumption DEF Init, Containers, DeadLetters
<1>3. Hands
  BY DEF Init, Hands, Holding
<1>4. /\ Content["new"] = Events
      /\ \A n \in Names \ {"new"} : Content[n] = {}
  <2>1. \A e \in Events : ~Holds(e) /\ ~Runs(e)
    BY DEF Init, Holds, Runs
  <2>2. Content["listener"] = {}
    BY ContentIs, ListenerRests DEF Init
  <2> QED BY <2>1, <2>2, EmptyList, EventsInNothing, ContentIs DEF Init, InDead, Names
<1>5. Partition
  BY <1>4 DEF Partition, Names
<1>6. Tries
  <2>1. \A e \in Events : attempts[e] = 0
    BY DEF Init
  <2> QED BY <2>1, SizesAssumption DEF Tries
<1> QED BY <1>1, <1>2, <1>3, <1>5, <1>6 DEF IInv

LEMMA NextKeeps ==
    ASSUME IInv, Next
    PROVE  Kept
<1>1. ASSUME NEW e \in Events, TriggerFires(e) \/ RetryFires(e) \/ InjectEnds(e)
      PROVE  Kept
  BY <1>1, TriggerFiresKeeps, RetryFiresKeeps, InjectEndsKeeps
<1>2. CASE Listen
  BY <1>2, ListenerTakesKeeps, ListenerAdmitsKeeps, ListenerPutsKeeps DEF Listen
<1>3. CASE Operate
  BY <1>3, InjectBeginsKeeps, RedeliverKeeps, ClearDeadLettersKeeps, RemoveTriggerKeeps,
     AddTriggerKeeps DEF Operate
<1>4. CASE Control
  <2>1. ASSUME NEW f \in BOOLEAN, NEW o \in Workers \cup {NoWorker}, BeginTeardown(f, o)
        PROVE  Kept
    BY <2>1, BeginTeardownKeeps
  <2>2. CASE \/ CancelListener \/ StopTriggerForGood \/ StopTriggerForRestart
             \/ RefillQueue \/ OwnerEnds \/ StopFinishesRecycle \/ StartSucceeds
    BY <2>2, CancelListenerKeeps, StopTriggerForGoodKeeps, StopTriggerForRestartKeeps,
       RefillQueueKeeps, OwnerEndsKeeps, StopFinishesRecycleKeeps, StartSucceedsKeeps
  <2> QED BY <1>4, <2>1, <2>2, ControlOnlyKeeps DEF Control
<1>5. ASSUME NEW w \in Workers, Work(w)
      PROVE  Kept
  BY <1>5, TakeKeeps, DropHeldKeeps, BeginRunKeeps, SucceedsKeeps, SetAsideKeeps,
     RunGoesOnKeeps, RetriesKeeps, HooksEndKeeps, FailsProcessKeeps DEF Work
<1> QED BY <1>1, <1>2, <1>3, <1>4, <1>5 DEF Next

LEMMA StutterKeeps ==
    ASSUME IInv, UNCHANGED vars
    PROVE  Kept
<1>1. /\ NoEventMoves /\ state' = state /\ stage' = stage /\ final' = final /\ owner' = owner
      /\ recycled' = recycled /\ draining' = draining /\ live' = live
  BY DEF vars, NoEventMoves
<1>2. ControlInv' /\ Trigger'
  BY <1>1 DEF NoEventMoves, IInv, ControlInv, Trigger
<1> QED BY <1>1, <1>2, ControlOnly

LEMMA StepKeeps ==
    ASSUME IInv, [Next]_vars
    PROVE  IInv' /\ Moves
<1>1. Kept
  BY NextKeeps, StutterKeeps
<1> QED BY <1>1, MovesKeep DEF Kept, IInv

\* The invariant the theorems below rest on.
THEOREM Inductive == Spec => []IInv
<1>1. IInv /\ [Next]_vars => IInv'
  BY StepKeeps
<1> QED BY Initially, <1>1, PTL DEF Spec

-----------------------------------------------------------------------------
(* The properties *)

\* Every variable has its type and every container its bound, whatever the
\* capacities are.
THEOREM TypeCorrect == Spec => []TypeOK
<1>1. IInv => TypeOK
  BY DEF IInv, ControlInv, Trigger, Containers, DeadLetters, Hands, List, TypeOK
<1> QED BY <1>1, Inductive, PTL

\* Retries, dead letters, redeliveries and restarts never try an event more
\* than 1 + max_retries times in a row.
THEOREM AttemptsAreBounded == Spec => []AttemptsBounded
<1>1. IInv => AttemptsBounded
  <2> SUFFICES ASSUME IInv, NEW e \in Events PROVE attempts[e] <= MaxRetries + 1
    BY DEF AttemptsBounded
  <2>1. attempts[e] \in Nat /\ MaxRetries \in Nat
    BY SizesAssumption DEF IInv, DeadLetters
  <2> QED BY <2>1 DEF IInv, Tries
<1> QED BY <1>1, Inductive, PTL

\* A stopped process holds no event in its trigger, its listener or a
\* teardown, and no worker is left.
THEOREM DownIsEmpty == Spec => []DownHoldsNothing
<1>1. IInv => DownHoldsNothing
  BY EventsAssumption DEF IInv, ControlInv, Trigger, DownHoldsNothing
<1> QED BY <1>1, Inductive, PTL

LEMMA PipelineIs ==
    ASSUME IInv
    PROVE  /\ List(Pipeline)
           /\ ToSet(Pipeline) = Content["queue"] \cup Content["listener"]
                                   \cup Content["leftovers"] \cup Content["buffer"]
<1>1. /\ List(queue) /\ List(HeldByListener) /\ List(EventsIn(leftovers)) /\ List(buffer)
      /\ ToSet(queue) = Content["queue"] /\ ToSet(HeldByListener) = Content["listener"]
      /\ ToSet(EventsIn(leftovers)) = Content["leftovers"] /\ ToSet(buffer) = Content["buffer"]
  BY ContentIs, ListenerHolds DEF IInv, Containers
<1>2. /\ Content["queue"] \cap Content["listener"] = {}
      /\ (Content["queue"] \cup Content["listener"]) \cap Content["leftovers"] = {}
      /\ (Content["queue"] \cup Content["listener"] \cup Content["leftovers"])
            \cap Content["buffer"] = {}
  BY DEF IInv, Partition, Names
<1> DEFINE a == queue \o HeldByListener
           b == a \o EventsIn(leftovers)
           c == b \o buffer
<1>3. List(a) /\ ToSet(a) = Content["queue"] \cup Content["listener"]
  BY <1>1, <1>2, ConcatList
<1> HIDE DEF a
<1>4. List(b) /\ ToSet(b) = Content["queue"] \cup Content["listener"] \cup Content["leftovers"]
  BY <1>1, <1>2, <1>3, ConcatList
<1> HIDE DEF b
<1>5. List(c) /\ ToSet(c) = ToSet(b) \cup Content["buffer"]
  BY <1>1, <1>2, <1>4, ConcatList
<1> HIDE DEF c
<1>6. Pipeline = c
  BY DEF Pipeline, a, b, c
<1> QED BY <1>4, <1>5, <1>6

\* Every event is in one place: nothing that is queued, held, injected or
\* waiting for a retry is also done, dropped or a dead letter.
THEOREM EventHasOnePlace == Spec => []OnePlace
<1>1. ASSUME IInv PROVE OnePlace
  <2> DEFINE a == Pipeline \o retries
             line == a \o dead
             held == Content["hold"] \cup Content["run"]
             way == Content["queue"] \cup Content["listener"] \cup Content["leftovers"]
                       \cup Content["buffer"] \cup Content["retries"]
  <2>1. List(Pipeline) /\ List(retries) /\ List(dead)
        /\ ToSet(retries) = Content["retries"] /\ InDead = Content["dead"]
    BY <1>1, PipelineIs, ContentIs DEF IInv, Containers, DeadLetters
  <2>2. /\ ToSet(Pipeline) \cap Content["retries"] = {}
        /\ way \cap Content["dead"] = {} /\ held \cap way = {} /\ held \cap Content["dead"] = {}
        /\ \A n \in {"injecting", "done", "cut", "dropped"} :
              Content[n] \cap way = {} /\ Content[n] \cap held = {} /\ Content[n] \cap Content["dead"] = {}
        /\ \A m, n \in {"injecting", "done", "cut", "dropped"} : m # n => Content[m] \cap Content[n] = {}
    BY <1>1, PipelineIs DEF IInv, Partition, Names
  <2>3. List(a) /\ ToSet(a) = way
    BY <1>1, <2>1, <2>2, PipelineIs, ConcatList
  <2> HIDE DEF a, way
  <2>4. ToSet(dead) \subseteq Content["dead"] /\ forgotten \subseteq Content["dead"]
        /\ ToSet(dead) \cap forgotten = {}
    BY <1>1, <2>1 DEF InDead, IInv, DeadLetters
  <2>5. List(line) /\ ToSet(line) = way \cup ToSet(dead)
    BY <2>1, <2>2, <2>3, <2>4, ConcatList
  <2> HIDE DEF line
  <2>6. EventsOf(Holding) = held
    <3>1. \A x \in Events : x \in EventsOf(Holding) <=> Holds(x) \/ Runs(x)
      BY EventsAssumption DEF EventsOf, Holding, Holds, Runs
    <3>2. EventsOf(Holding) \subseteq Events
      BY <1>1 DEF EventsOf, IInv, Hands
    <3> QED BY <3>1, <3>2, ContentIs
  <2> HIDE DEF held
  <2>7. injecting = Content["injecting"] /\ done = Content["done"] /\ cut = Content["cut"]
        /\ dropped = Content["dropped"]
    BY ContentIs
  <2> DEFINE sets == <<ToSet(line), injecting, EventsOf(Holding), done, cut, dropped, forgotten>>
  <2>8. /\ ToSet(line) \cap injecting = {} /\ ToSet(line) \cap EventsOf(Holding) = {}
        /\ ToSet(line) \cap done = {} /\ ToSet(line) \cap cut = {} /\ ToSet(line) \cap dropped = {} /\ ToSet(line) \cap forgotten = {}
    BY <2>2, <2>4, <2>5, <2>6, <2>7
  <2>9. /\ injecting \cap EventsOf(Holding) = {} /\ injecting \cap done = {}
        /\ injecting \cap dropped = {} /\ injecting \cap forgotten = {}
        /\ EventsOf(Holding) \cap done = {} /\ EventsOf(Holding) \cap dropped = {}
        /\ EventsOf(Holding) \cap forgotten = {} /\ done \cap dropped = {}
        /\ done \cap forgotten = {} /\ dropped \cap forgotten = {}
        /\ injecting \cap cut = {} /\ EventsOf(Holding) \cap cut = {} /\ done \cap cut = {}
        /\ cut \cap dropped = {} /\ cut \cap forgotten = {}
    BY <2>2, <2>4, <2>6, <2>7
  <2>10. \A i, j \in DOMAIN sets : i # j => sets[i] \cap sets[j] = {}
    BY <2>8, <2>9
  <2>11. \A v, w \in Holding : event[v] = event[w] => v = w
    BY <1>1 DEF IInv, Hands
  <2>12. IsInjective(line)
    BY <2>5 DEF List
  <2> QED BY <2>10, <2>11, <2>12 DEF OnePlace, line, a
<1>2. IInv => OnePlace
  BY <1>1
<1> QED BY <1>2, Inductive, PTL

-----------------------------------------------------------------------------
(* The fate of an event is read off its place *)

FateAt(n) ==
    CASE n = "new"     -> "new"
      [] n = "run"     -> "running"
      [] n = "done"    -> "done"
      [] n = "cut"     -> "cut"
      [] n = "dropped" -> "dropped"
      [] n = "dead"    -> "dead"
      [] OTHER         -> "accepted"

LEMMA FateIs == IInv => \A n \in Names : \A e \in Events : e \in Content[n] => Fate(e) = FateAt(n)
<1> SUFFICES ASSUME IInv, NEW n \in Names, NEW e \in Events, e \in Content[n]
             PROVE  Fate(e) = FateAt(n)
  OBVIOUS
<1> DEFINE In(m) == e \in Content[m]
<1>1. \A m \in Names : In(m) <=> m = n
  BY DEF IInv, Partition
<1>2. /\ e \notin born <=> In("new")
      /\ e \in done <=> In("done")
      /\ e \in cut <=> In("cut")
      /\ e \in dropped <=> In("dropped")
      /\ Runs(e) <=> In("run")
      /\ Holds(e) <=> In("hold")
      /\ e \in injecting <=> In("injecting")
  BY ContentIs
<1>3. ASSUME NEW s, s \in Seq(Events) PROVE Contains(s, e) <=> e \in ToSet(s)
  BY <1>3, LenProperties DEF Contains, ToSet
<1>4. Contains(Pipeline, e) <=> In("queue") \/ In("listener") \/ In("leftovers") \/ In("buffer")
  BY <1>3, PipelineIs DEF List
<1>5. Contains(retries, e) <=> In("retries")
  BY <1>3, ContentIs DEF IInv, Containers, List
<1>6. (e \in forgotten \/ Contains(dead, e)) <=> In("dead")
  <2>1. Contains(dead, e) <=> e \in ToSet(dead)
    BY <1>3 DEF IInv, DeadLetters, List
  <2> QED BY <2>1, ContentIs DEF InDead
<1> HIDE DEF In
<1>7. Waits(e) <=> \/ In("queue") \/ In("listener") \/ In("leftovers") \/ In("buffer")
                   \/ In("retries") \/ In("injecting") \/ In("hold")
  BY <1>2, <1>4, <1>5 DEF Waits
<1>8. n \in {"new", "buffer", "listener", "leftovers", "queue", "retries", "injecting", "hold",
             "run", "done", "cut", "dropped", "dead"}
  BY DEF Names
<1>9. /\ In("new") <=> n = "new"
      /\ In("buffer") <=> n = "buffer"
      /\ In("listener") <=> n = "listener"
      /\ In("leftovers") <=> n = "leftovers"
      /\ In("queue") <=> n = "queue"
      /\ In("retries") <=> n = "retries"
      /\ In("injecting") <=> n = "injecting"
      /\ In("hold") <=> n = "hold"
      /\ In("run") <=> n = "run"
      /\ In("done") <=> n = "done"
      /\ In("cut") <=> n = "cut"
      /\ In("dropped") <=> n = "dropped"
      /\ In("dead") <=> n = "dead"
  <2>1. \A m \in Names : In(m) <=> m = n
    BY <1>1
  <2> QED BY <2>1 DEF Names
<1>10. CASE n = "new"
  BY <1>2, <1>6, <1>7, <1>9, <1>10 DEF Fate, FateAt
<1>11. CASE n = "done"
  BY <1>2, <1>6, <1>7, <1>9, <1>11 DEF Fate, FateAt
<1>12. CASE n = "dropped"
  BY <1>2, <1>6, <1>7, <1>9, <1>12 DEF Fate, FateAt
<1>13. CASE n = "dead"
  BY <1>2, <1>6, <1>7, <1>9, <1>13 DEF Fate, FateAt
<1>14. CASE n = "run"
  BY <1>2, <1>6, <1>7, <1>9, <1>14 DEF Fate, FateAt
<1>15. CASE n \in {"buffer", "listener", "leftovers", "queue", "retries", "injecting", "hold"}
  BY <1>2, <1>6, <1>7, <1>9, <1>15 DEF Fate, FateAt
<1>16. CASE n = "cut"
  BY <1>2, <1>6, <1>7, <1>9, <1>16 DEF Fate, FateAt
<1> QED BY <1>8, <1>10, <1>11, <1>12, <1>13, <1>14, <1>15, <1>16

\* A source is one edge of EventFate away, or has the fate of the place itself.
LEMMA SourceMoves ==
    ASSUME NEW t \in Names, NEW n \in Sources(t)
    PROVE  n \in Names /\ (FateAt(t) = FateAt(n) \/ FateAt(t) \in EF!Moves[FateAt(n)])
<1>1. CASE t \in {"new", "buffer", "injecting", "listener"}
  BY <1>1 DEF Names, Sources, FateAt, EF!Moves
<1>2. CASE t \in {"leftovers", "queue"}
  BY <1>2 DEF Names, Sources, FateAt, EF!Moves
<1>3. CASE t \in {"retries", "hold", "run", "done", "cut"}
  BY <1>3 DEF Names, Sources, FateAt, EF!Moves
<1>4. CASE t = "dropped"
  BY <1>4 DEF Names, Sources, FateAt, EF!Moves
<1>5. CASE t = "dead"
  BY <1>5 DEF Names, Sources, FateAt, EF!Moves
<1> QED BY <1>1, <1>2, <1>3, <1>4, <1>5 DEF Names

\* The process implements EventFate: no event is lost, run after it was done,
\* or dropped by anything but a filter or a hook, whoever cancels whom; one whose
\* own run stopped the process may be cut off without an outcome.
THEOREM DeliveryImplemented == Spec => Delivery
<1>1. Init => EF!Init
  <2> SUFFICES ASSUME Init PROVE [e \in Events |-> Fate(e)] = [e \in Events |-> "new"]
    BY DEF EF!Init
  <2>1. \A e \in Events : Fate(e) = "new"
    <3> TAKE e \in Events
    <3>1. IInv /\ "new" \in Names /\ e \in Content["new"]
      BY Initially, ContentIs DEF Init, Names
    <3> QED BY <3>1, FateIs DEF FateAt
  <2> QED BY <2>1
<1>2. ASSUME IInv, [Next]_vars, IInv'
      PROVE  EF!Next
  <2>1. (\A n \in Names : \A e \in Events : e \in Content[n] => Fate(e) = FateAt(n))'
    BY <1>2, FateIs, PTL
  <2>2. \A n \in Names : \A e \in Events : e \in Content'[n] => Fate(e)' = FateAt(n)
    BY <2>1
  <2>3. \A e \in Events : \E n \in Names : e \in Content'[n]
    BY <1>2 DEF IInv, Partition
  <2>4. PICK t \in Names, M \in SUBSET Events : Moved(M, t)
    BY <1>2, StepKeeps DEF Moves
  <2>5. \A n \in Names : FateAt(n) \in EF!Fates
    BY DEF Names, FateAt, EF!Fates
  <2>6. ASSUME NEW e \in Events
        PROVE  Fate(e)' \in EF!Fates /\ (Fate(e)' = Fate(e) \/ Fate(e)' \in EF!Moves[Fate(e)])
    <3>1. PICK k \in Names : e \in Content'[k]
      BY <2>3
    <3>2. Fate(e)' = FateAt(k)
      BY <2>2, <3>1
    <3>3. Content'[k] = IF k = t THEN Content[k] \cup M ELSE Content[k] \ M
      BY <2>4 DEF Moved, Shift
    <3>4. CASE e \in Content[k]
      BY <1>2, <2>5, <3>2, <3>4, FateIs
    <3>5. CASE e \notin Content[k]
      <4>1. k = t /\ e \in M
        BY <3>1, <3>3, <3>5
      <4>2. PICK n \in Sources(t) : e \in Content[n]
        BY <2>4, <4>1 DEF Moved
      <4>3. n \in Names /\ (FateAt(t) = FateAt(n) \/ FateAt(t) \in EF!Moves[FateAt(n)])
        BY SourceMoves
      <4>4. Fate(e) = FateAt(n)
        BY <1>2, <4>2, <4>3, FateIs
      <4> QED BY <2>5, <3>2, <4>1, <4>3, <4>4
    <3> QED BY <3>4, <3>5
  <2> QED BY <2>6 DEF EF!Next
<1>3. IInv /\ [Next]_vars /\ IInv' => [EF!Next]_([e \in Events |-> Fate(e)])
  BY <1>2
<1> QED BY <1>1, <1>3, Inductive, PTL DEF Spec, Delivery, EF!Spec

-----------------------------------------------------------------------------
(* Arrival order: where each event is on its way from the trigger to a       *)
(* worker, the events of a place precede those of the places behind it       *)

\* Whether e may come before f when the events of R were requeued.
Precedes(e, f, R) == e < f \/ e \in R \/ f \in R
Sorted(s, R) == \A i, j \in DOMAIN s : i < j => Precedes(s[i], s[j], R)

\* The way of an event to a worker, from its end; what the listener and a
\* teardown hold is one place, for one of them holds nothing.
OnTheWay == ({listener.event} \ {NoEvent}) \cup ToSet(EventsIn(leftovers))
Places == <<EventsOf(Holding), ToSet(queue), OnTheWay, ToSet(buffer), Events \ born>>
Ranked(P, R) == \A i, j \in 1..5 : i < j => \A e \in P[i], f \in P[j] : Precedes(e, f, R)

\* What is added to IInv: each container is sorted, and they follow one another.
OrderInv ==
    /\ Sorted(queue, requeued) /\ Sorted(EventsIn(leftovers), requeued) /\ Sorted(buffer, requeued)
    /\ Ranked(Places, requeued)
    /\ injecting \subseteq requeued

LEMMA SortedGrows ==
    ASSUME NEW s, NEW R, NEW Q, R \subseteq Q, Sorted(s, R)
    PROVE  Sorted(s, Q)
BY DEF Sorted, Precedes

LEMMA SortedNothing == \A R : Sorted(<<>>, R)
<1>1. DOMAIN <<>> = {}
  OBVIOUS
<1> QED BY <1>1 DEF Sorted

LEMMA SortedOne == \A e, R : Sorted(<<e>>, R)
BY DEF Sorted

LEMMA SortedConcat ==
    ASSUME NEW s \in Seq(Events), NEW r \in Seq(Events), NEW R, Sorted(s, R), Sorted(r, R),
           \A e \in ToSet(s), f \in ToSet(r) : Precedes(e, f, R)
    PROVE  Sorted(s \o r, R)
<1> DEFINE a == s \o r
<1>1. /\ Len(s) \in Nat /\ DOMAIN s = 1 .. Len(s) /\ Len(r) \in Nat /\ DOMAIN r = 1 .. Len(r)
      /\ a \in Seq(Events) /\ DOMAIN a = 1 .. Len(s) + Len(r)
      /\ \A i \in 1 .. Len(s) + Len(r) : a[i] = IF i <= Len(s) THEN s[i] ELSE r[i - Len(s)]
  BY ConcatProperties, LenProperties
<1> HIDE DEF a
<1> SUFFICES ASSUME NEW i \in 1 .. Len(s) + Len(r), NEW j \in 1 .. Len(s) + Len(r), i < j
             PROVE  Precedes(a[i], a[j], R)
  BY <1>1 DEF Sorted, a
<1>2. CASE j <= Len(s)
  <2>1. i \in DOMAIN s /\ j \in DOMAIN s /\ a[i] = s[i] /\ a[j] = s[j]
    BY <1>1, <1>2
  <2> QED BY <2>1 DEF Sorted
<1>3. CASE i <= Len(s) /\ ~(j <= Len(s))
  <2>1. i \in DOMAIN s /\ j - Len(s) \in DOMAIN r /\ a[i] = s[i] /\ a[j] = r[j - Len(s)]
    BY <1>1, <1>3
  <2>2. a[i] \in ToSet(s) /\ a[j] \in ToSet(r)
    BY <2>1, InSet
  <2> QED BY <2>2
<1>4. CASE ~(i <= Len(s))
  <2>1. i - Len(s) \in DOMAIN r /\ j - Len(s) \in DOMAIN r /\ a[i] = r[i - Len(s)] /\ a[j] = r[j - Len(s)]
        /\ i - Len(s) < j - Len(s)
    BY <1>1, <1>4
  <2> QED BY <2>1 DEF Sorted
<1> QED BY <1>1, <1>2, <1>3, <1>4

LEMMA SortedAppend ==
    ASSUME NEW s \in Seq(Events), NEW e \in Events, NEW R, Sorted(s, R),
           \A f \in ToSet(s) : Precedes(f, e, R)
    PROVE  Sorted(Append(s, e), R)
<1>1. Append(s, e) = s \o <<e>> /\ <<e>> \in Seq(Events) /\ ToSet(<<e>>) = {e}
  BY OneList, AppendIsConcat DEF List
<1>2. Sorted(<<e>>, R)
  BY SortedOne
<1> HIDE DEF Sorted
<1>3. \A f \in ToSet(s), g \in ToSet(<<e>>) : Precedes(f, g, R)
  BY <1>1
<1>4. Sorted(s \o <<e>>, R)
  BY <1>1, <1>2, <1>3, SortedConcat
<1> QED BY <1>1, <1>4

\* The head of a sorted list precedes what is left of it.
LEMMA SortedTail ==
    ASSUME NEW s, List(s), s # <<>>, NEW R, Sorted(s, R)
    PROVE  Sorted(Tail(s), R) /\ \A f \in ToSet(Tail(s)) : Precedes(Head(s), f, R)
<1>1. /\ s \in Seq(Events) /\ Len(s) \in Nat \ {0} /\ DOMAIN s = 1 .. Len(s)
  BY LenProperties, EmptySeq DEF List
<1>2. /\ Head(s) = s[1] /\ Tail(s) \in Seq(Events) /\ Len(Tail(s)) = Len(s) - 1
      /\ \A i \in 1 .. Len(Tail(s)) : Tail(s)[i] = s[i + 1]
  BY <1>1, HeadTailProperties
<1>3. DOMAIN Tail(s) = 1 .. Len(s) - 1
  BY <1>2, LenProperties
<1>4. \A i \in DOMAIN Tail(s) : i \in Int /\ i + 1 \in DOMAIN s /\ 1 < i + 1 /\ Tail(s)[i] = s[i + 1]
  BY <1>1, <1>2, <1>3
<1>5. \A i, j \in DOMAIN Tail(s) : i < j => i + 1 < j + 1
  BY <1>4
<1>6. 1 \in DOMAIN s
  BY <1>1
<1>7. Sorted(Tail(s), R)
  BY <1>4, <1>5 DEF Sorted
<1>8. \A f \in ToSet(Tail(s)) : Precedes(Head(s), f, R)
  <2> DEFINE b == Tail(s)
  <2>1. \A f \in ToSet(b) : \E i \in DOMAIN b : b[i] = f
    BY InSet
  <2> QED BY <2>1, <1>2, <1>4, <1>6 DEF Sorted
<1> QED BY <1>7, <1>8

\* The events M go to place t, the others stay where they are or leave: those
\* of M were requeued, or come from the next place and precede what it still has.
LEMMA RankMoves ==
    ASSUME NEW P, NEW Q, NEW R, NEW N, R \subseteq N, Ranked(P, R),
           NEW t \in 1..4, NEW M,
           Q[t] \subseteq P[t] \cup M,
           \A k \in 1..5 : k # t => Q[k] \subseteq P[k],
           \A e \in M : e \in N \/ (e \in P[t + 1] /\ \A f \in Q[t + 1] : Precedes(e, f, N))
    PROVE  Ranked(Q, N)
<1> SUFFICES ASSUME NEW i \in 1..5, NEW j \in 1..5, i < j, NEW e \in Q[i], NEW f \in Q[j]
             PROVE  Precedes(e, f, N)
  BY DEF Ranked
<1>1. CASE e \in P[i] /\ f \in P[j]
  BY <1>1 DEF Ranked, Precedes
<1>2. CASE e \in N \/ f \in N
  BY <1>2 DEF Precedes
<1>3. CASE e \notin P[i] /\ e \notin N
  <2>1. i = t /\ e \in P[t + 1] /\ \A g \in Q[t + 1] : Precedes(e, g, N)
    BY <1>3
  <2>2. CASE j = t + 1
    BY <2>1, <2>2
  <2>3. CASE j # t + 1
    <3>1. t + 1 < j /\ t + 1 \in 1..5 /\ j # t
      BY <2>1, <2>3
    <3>2. f \in P[j]
      BY <3>1
    <3> QED BY <2>1, <3>1, <3>2 DEF Ranked, Precedes
  <2> QED BY <2>2, <2>3
<1>4. CASE f \notin P[j] /\ f \notin N /\ e \in P[i]
  <2>1. j = t /\ f \in P[t + 1]
    BY <1>4
  <2>2. i < t + 1 /\ t + 1 \in 1..5
    BY <2>1
  <2> QED BY <1>4, <2>1, <2>2 DEF Ranked, Precedes
<1> QED BY <1>1, <1>2, <1>3, <1>4

\* Nothing moves forward: events stay or leave.
LEMMA RankShrinks ==
    ASSUME NEW P, NEW Q, NEW R, NEW N, R \subseteq N, Ranked(P, R),
           \A k \in 1..5 : Q[k] \subseteq P[k]
    PROVE  Ranked(Q, N)
BY DEF Ranked, Precedes
LEMMA PlacesAre ==
    /\ Places[1] = EventsOf(Holding) /\ Places[2] = ToSet(queue) /\ Places[3] = OnTheWay
    /\ Places[4] = ToSet(buffer) /\ Places[5] = Events \ born
BY DEF Places

LEMMA PlacesWillBe ==
    /\ Places'[1] = EventsOf(Holding)' /\ Places'[2] = ToSet(queue') /\ Places'[3] = OnTheWay'
    /\ Places'[4] = ToSet(buffer') /\ Places'[5] = Events \ born'
BY DEF Places

\* A step takes the events M from the next place to t, or requeued ones.
LEMMA OrderMoves ==
    ASSUME OrderInv, requeued \subseteq requeued', injecting' \subseteq requeued',
           Sorted(queue', requeued'), Sorted(EventsIn(leftovers'), requeued'),
           Sorted(buffer', requeued'),
           NEW t \in 1..4, NEW n \in 2..5, n = t + 1, NEW M,
           Places'[t] \subseteq Places[t] \cup M,
           \A k \in 1..5 : k # t => Places'[k] \subseteq Places[k],
           \A e \in M : \/ e \in requeued'
                        \/ e \in Places[n] /\ \A f \in Places'[n] : Precedes(e, f, requeued')
    PROVE  OrderInv'
<1>1. Ranked(Places, requeued)
  BY DEF OrderInv
<1>2. Ranked(Places', requeued')
  BY <1>1, RankMoves
<1> QED BY <1>2 DEF OrderInv

LEMMA OrderMovesOne ==
    ASSUME OrderInv, requeued \subseteq requeued', injecting' \subseteq requeued',
           Sorted(queue', requeued'), Sorted(EventsIn(leftovers'), requeued'),
           Sorted(buffer', requeued'),
           NEW t \in 1..4, NEW n \in 2..5, n = t + 1, NEW e,
           Places'[t] \subseteq Places[t] \cup {e},
           \A k \in 1..5 : k # t => Places'[k] \subseteq Places[k],
           \/ e \in requeued'
           \/ e \in Places[n] /\ \A f \in Places'[n] : Precedes(e, f, requeued')
    PROVE  OrderInv'
<1> DEFINE M == {e}
<1>1. Places'[t] \subseteq Places[t] \cup M
  OBVIOUS
<1>2. \A f \in M : f \in requeued' \/ (f \in Places[n] /\ \A g \in Places'[n] : Precedes(f, g, requeued'))
  OBVIOUS
<1> HIDE DEF M
<1> QED BY <1>1, <1>2, OrderMoves

LEMMA OrderShrinks ==
    ASSUME OrderInv, requeued \subseteq requeued', injecting' \subseteq requeued',
           Sorted(queue', requeued'), Sorted(EventsIn(leftovers'), requeued'),
           Sorted(buffer', requeued'),
           \A k \in 1..5 : Places'[k] \subseteq Places[k]
    PROVE  OrderInv'
<1>1. Ranked(Places, requeued)
  BY DEF OrderInv
<1>2. Ranked(Places', requeued')
  BY <1>1, RankShrinks
<1> QED BY <1>2 DEF OrderInv

\* What a step may do to the workers without giving them an event.
NoneTaken ==
    \A w \in Workers : at'[w] \in InHand => at[w] \in InHand /\ event'[w] = event[w]

LEMMA HandsShrink == NoneTaken => EventsOf(Holding)' \subseteq EventsOf(Holding)
BY DEF NoneTaken, EventsOf, Holding

LEMMA NobodyMoves == at' = at /\ event' = event => NoneTaken
BY DEF NoneTaken

\* A step that only takes events off the way, or marks them as requeued.
Stays ==
    /\ requeued \subseteq requeued' /\ injecting' \subseteq injecting \cup requeued'
    /\ born \subseteq born'
    /\ queue' \in {queue, <<>>} /\ buffer' \in {buffer, <<>>} /\ leftovers' \in {leftovers, <<>>}
    /\ listener'.event \in {NoEvent, listener.event}
    /\ NoneTaken

LEMMA OrderStays ==
    ASSUME OrderInv, Stays
    PROVE  OrderInv'
<1>1. \A s, r : s \in {r, <<>>} => ToSet(s) \subseteq ToSet(r)
  BY EmptyList
<1>2. Sorted(queue', requeued') /\ Sorted(buffer', requeued')
  BY SortedGrows, SortedNothing DEF Stays, OrderInv
<1>3. EventsIn(leftovers') \in {EventsIn(leftovers), <<>>}
  BY EventsInNothing DEF Stays
<1>4. Sorted(EventsIn(leftovers'), requeued')
  BY <1>3, SortedGrows, SortedNothing DEF Stays, OrderInv
<1>5. Places'[1] \subseteq Places[1]
  BY PlacesAre, PlacesWillBe, HandsShrink DEF Stays
<1>6. Places'[2] \subseteq Places[2] /\ Places'[4] \subseteq Places[4] /\ Places'[5] \subseteq Places[5]
  BY <1>1, PlacesAre, PlacesWillBe DEF Stays
<1>7. Places'[3] \subseteq Places[3]
  <2>1. ToSet(EventsIn(leftovers')) \subseteq ToSet(EventsIn(leftovers))
    BY <1>1, <1>3
  <2> QED BY <2>1, PlacesAre, PlacesWillBe DEF Stays, OnTheWay
<1>8. \A k \in 1..5 : Places'[k] \subseteq Places[k]
  <2>1. \A k \in 1..5 : k = 1 \/ k = 2 \/ k = 3 \/ k = 4 \/ k = 5
    OBVIOUS
  <2> QED BY <2>1, <1>5, <1>6, <1>7
<1> QED BY <1>2, <1>4, <1>8, OrderShrinks DEF Stays, OrderInv

\* Most steps stay within Stays: those that end a run or wait for a hook, and
\* those of the operator and the control plane that take nothing over.
LEMMA StayedWorkers ==
    ASSUME IInv, NEW w \in Workers,
           SetAside(w) \/ Retries(w) \/ DeniedEnds(w) \/ GivesUp(w) \/ DropHeld(w) \/ HooksEnd(w)
           \/ Succeeds(w) \/ BeginRun(w) \/ FailsProcess(w) \/ Denied(w) \/ Exhausted(w)
    PROVE  Stays
<1>1. /\ at \in [Workers -> WorkerPlaces]
      /\ event \in [Workers -> Events \cup {NoEvent}]
  BY DEF IInv, ControlInv, Hands
<1>2. CASE BeginRun(w)
  BY <1>1, <1>2 DEF BeginRun, Stays, NoneTaken
<1>3. CASE FailsProcess(w)
  BY <1>1, <1>3 DEF FailsProcess, Worker, Stays, NoneTaken
<1>4. CASE SetAside(w) \/ Retries(w) \/ DeniedEnds(w) \/ GivesUp(w) \/ Denied(w) \/ Exhausted(w)
  <2>1. at[w] \in InHand /\ \E to \in {"hooks", "failing", "denied", "spent"} : Worker(w, to, event[w])
    BY <1>4 DEF SetAside, Retries, DeniedEnds, GivesUp, Denied, Exhausted, Ends
  <2>2. NoneTaken
    BY <1>1, <2>1 DEF Worker, NoneTaken
  <2> QED BY <1>4, <2>2 DEF SetAside, Retries, DeniedEnds, GivesUp, Denied, Exhausted, Stays
<1>5. CASE DropHeld(w) \/ HooksEnd(w) \/ Succeeds(w)
  <2>1. \E to \in {"hooks", "idle"}, e \in Events \cup {NoEvent} : Worker(w, to, e)
    BY <1>1, <1>5 DEF DropHeld, HooksEnd, Succeeds
  <2>2. NoneTaken
    BY <1>1, <2>1 DEF Worker, NoneTaken
  <2> QED BY <1>5, <2>2 DEF DropHeld, HooksEnd, Succeeds, Stays
<1> QED BY <1>2, <1>3, <1>4, <1>5

LEMMA StayedOthers ==
    ASSUME IInv,
           ListenerAdmits \/ (\E e \in Events : InjectBegins(e)) \/ ClearDeadLetters
           \/ RemoveTrigger \/ AddTrigger
    PROVE  Stays
<1>1. CASE ListenerAdmits
  BY <1>1, NobodyMoves, ListenerRests DEF ListenerAdmits, Stays, IInv, Trigger
<1>2. CASE \E e \in Events : InjectBegins(e)
  <2> PICK e \in Events : InjectBegins(e)
    BY <1>2
  <2> QED BY NobodyMoves DEF InjectBegins, Stays
<1>3. CASE ClearDeadLetters \/ RemoveTrigger \/ AddTrigger
  BY <1>3, NobodyMoves DEF ClearDeadLetters, RemoveTrigger, AddTrigger, Stays, Gone, Idle
<1> QED BY <1>1, <1>2, <1>3

LEMMA StayedControl ==
    ASSUME IInv,
           \/ StartBegins \/ TriggerStarts \/ StartSucceeds \/ StartFails
           \/ Suspends \/ Resumes \/ DrainBegins
           \/ \E f \in BOOLEAN, o \in Workers \cup {NoWorker} : BeginTeardown(f, o)
           \/ StopTriggerForGood \/ RefillEnds \/ EndTeardown \/ OwnerEnds \/ StopFinishesRecycle
           \/ UNCHANGED vars
    PROVE  Stays
<1>1. /\ at \in [Workers -> WorkerPlaces]
      /\ event \in [Workers -> Events \cup {NoEvent}]
      /\ stage = "owner" => owner \in Workers
  BY DEF IInv, ControlInv, Hands
<1>2. CASE \/ StartBegins \/ TriggerStarts \/ StartFails \/ Suspends \/ Resumes \/ DrainBegins
           \/ RefillEnds \/ EndTeardown \/ UNCHANGED vars
  <2>1. NoEventMoves /\ born' = born
    BY <1>2 DEF StartBegins, TriggerStarts, StartFails, Suspends, Resumes, DrainBegins,
                RefillEnds, EndTeardown, NoEventMoves, vars
  <2> QED BY <2>1, NobodyMoves DEF NoEventMoves, Stays
<1>3. CASE StartSucceeds
  BY <1>3 DEF StartSucceeds, Stays, NoneTaken, Idle
<1>4. CASE \E f \in BOOLEAN, o \in Workers \cup {NoWorker} : BeginTeardown(f, o)
  <2> PICK f \in BOOLEAN, o \in Workers \cup {NoWorker} : BeginTeardown(f, o)
    BY <1>4
  <2>1. /\ at' = [w \in Workers |-> IF w # o THEN "none"
                                   ELSE IF at[w] = "spent" THEN "spent_stop" ELSE "run"]
        /\ o # NoWorker => at[o] \in {"run", "spent"}
        /\ event' = [w \in Workers |-> IF w = o THEN event[w] ELSE NoEvent]
    BY DEF BeginTeardown
  <2>2. NoneTaken
    BY <1>1, <2>1, EventsAssumption DEF NoneTaken
  <2> QED BY <2>2 DEF BeginTeardown, Stays
<1>5. CASE StopTriggerForGood \/ StopFinishesRecycle
  BY <1>5, NobodyMoves DEF StopTriggerForGood, StopFinishesRecycle, Stays
<1>6. CASE OwnerEnds
  <2>1. NoneTaken
    BY <1>1, <1>6 DEF OwnerEnds, AfterOwner, Worker, NoneTaken
  <2> QED BY <1>6, <2>1 DEF OwnerEnds, Stays
<1> QED BY <1>2, <1>3, <1>4, <1>5, <1>6

\* The sets of the containers, and what their sorting needs.
LEMMA Lists ==
    ASSUME IInv
    PROVE  /\ List(queue) /\ queue \in Seq(Events) /\ List(buffer) /\ buffer \in Seq(Events)
           /\ List(EventsIn(leftovers)) /\ EventsIn(leftovers) \in Seq(Events)
           /\ listener.event # NoEvent => leftovers = <<>> /\ listener.event \in Events
BY EventsAssumption DEF IInv, Containers, List, Trigger, Gone

\* Events of a place precede those of the places behind it.
LEMMA Behind ==
    ASSUME OrderInv, NEW i \in 1..5, NEW j \in 1..5, i < j, NEW e \in Places[i], NEW f \in Places[j]
    PROVE  Precedes(e, f, requeued)
BY DEF OrderInv, Ranked

LEMMA EventsInTail ==
    ASSUME NEW s \in Seq(LeftOver), s # <<>>
    PROVE  /\ EventsIn(s) # <<>> /\ Head(EventsIn(s)) = Head(s).event
           /\ EventsIn(Tail(s)) = Tail(EventsIn(s))
<1> DEFINE q == EventsIn(s)
           a == EventsIn(Tail(s))
           b == Tail(q)
<1>1. /\ q \in Seq(Events) /\ Len(q) = Len(s) /\ Len(s) \in Nat \ {0}
      /\ \A i \in 1 .. Len(s) : q[i] = s[i].event
  BY EventsInIs, EmptySeq
<1>2. /\ Tail(s) \in Seq(LeftOver) /\ Len(Tail(s)) = Len(s) - 1 /\ Head(s) = s[1]
      /\ \A i \in 1 .. Len(s) - 1 : Tail(s)[i] = s[i + 1]
  BY <1>1, HeadTailProperties
<1>3. /\ a \in Seq(Events) /\ Len(a) = Len(s) - 1
      /\ \A i \in 1 .. Len(s) - 1 : a[i] = Tail(s)[i].event
  BY <1>2, EventsInIs
<1> HIDE DEF q, a
<1>4. q # <<>>
  BY <1>1
<1>5. /\ b \in Seq(Events) /\ Len(b) = Len(s) - 1 /\ Head(q) = q[1]
      /\ \A i \in 1 .. Len(s) - 1 : b[i] = q[i + 1]
  BY <1>1, <1>4, HeadTailProperties
<1> HIDE DEF b
<1>6. \A i \in 1 .. Len(s) - 1 : i + 1 \in 1 .. Len(s)
  BY <1>1
<1>7. \A i \in 1 .. Len(s) - 1 : a[i] = b[i]
  BY <1>1, <1>2, <1>3, <1>5, <1>6
<1>8. a = b
  BY <1>3, <1>5, <1>7, SeqEqual
<1>9. 1 \in 1 .. Len(s)
  BY <1>1
<1> QED BY <1>1, <1>2, <1>4, <1>5, <1>8, <1>9 DEF q, a, b

LEMMA TriggerFiresOrdered ==
    ASSUME IInv, OrderInv, NEW e \in Events, TriggerFires(e)
    PROVE  OrderInv'
<1>1. /\ queue' = queue /\ leftovers' = leftovers /\ listener' = listener /\ at' = at
      /\ event' = event /\ injecting' = injecting /\ requeued' = requeued
      /\ born' = born \cup {e} /\ e \notin born /\ \A f \in Events \ born : e <= f
      /\ buffer' \in {buffer, Append(buffer, e)}
  BY DEF TriggerFires, IsNext
<1>2. \A f \in Events \ born' : Precedes(e, f, requeued')
  BY <1>1, EventsAssumption DEF Precedes
<1>3. ToSet(Append(buffer, e)) \subseteq ToSet(buffer) \cup {e}
  <2>1. e \notin ToSet(buffer)
    BY <1>1, ContentIs DEF IInv, Partition, Names
  <2> QED BY <2>1, Lists, AppendList
<1>4. \A f \in ToSet(buffer) : Precedes(f, e, requeued)
  <2>1. e \in Places[5] /\ ToSet(buffer) = Places[4] /\ 4 \in 1..5 /\ 5 \in 1..5 /\ 4 < 5
    BY <1>1, PlacesAre
  <2> QED BY <2>1, Behind
<1>5. Sorted(Append(buffer, e), requeued)
  BY <1>4, Lists, SortedAppend DEF OrderInv
<1>6. Sorted(queue', requeued') /\ Sorted(EventsIn(leftovers'), requeued') /\ Sorted(buffer', requeued')
  BY <1>1, <1>5 DEF OrderInv
<1>7. /\ Places'[1] = Places[1] /\ Places'[2] = Places[2] /\ Places'[3] = Places[3]
      /\ Places'[4] \subseteq Places[4] \cup {e} /\ Places'[5] \subseteq Places[5]
      /\ e \in Places[5] /\ \A f \in Places'[5] : Precedes(e, f, requeued')
  <2>1. Places'[1] = Places[1] /\ Places'[2] = Places[2] /\ Places'[3] = Places[3]
    BY <1>1, PlacesAre, PlacesWillBe DEF EventsOf, Holding, OnTheWay
  <2>2. Places'[4] \subseteq Places[4] \cup {e}
    BY <1>1, <1>3, PlacesAre, PlacesWillBe
  <2>3. Places'[5] \subseteq Places[5] /\ e \in Places[5] /\ \A f \in Places'[5] : Precedes(e, f, requeued')
    BY <1>1, <1>2, PlacesAre, PlacesWillBe
  <2> QED BY <2>1, <2>2, <2>3
<1>8. \A k \in 1..5 : k # 4 => Places'[k] \subseteq Places[k]
  <2>1. \A k \in 1..5 : k # 4 => k = 1 \/ k = 2 \/ k = 3 \/ k = 5
    OBVIOUS
  <2> QED BY <2>1, <1>7
<1>9. requeued \subseteq requeued' /\ injecting' \subseteq requeued' /\ 4 \in 1..4 /\ 5 \in 2..5 /\ 5 = 4 + 1
  BY <1>1 DEF OrderInv
<1> QED BY <1>6, <1>7, <1>8, <1>9, OrderMovesOne

LEMMA ListenerTakesOrdered ==
    ASSUME IInv, OrderInv, ListenerTakes
    PROVE  OrderInv'
<1> DEFINE e == Head(buffer)
<1>1. /\ queue' = queue /\ leftovers' = leftovers /\ at' = at /\ event' = event
      /\ injecting' = injecting /\ requeued' = requeued /\ born' = born
      /\ buffer # <<>> /\ buffer' = Tail(buffer) /\ listener'.event \in {NoEvent, e}
  BY ListenerRests DEF ListenerTakes
<1>2. ToSet(buffer') \subseteq ToSet(buffer) /\ e \in ToSet(buffer)
  BY <1>1, Lists, TailList
<1>3. Sorted(buffer', requeued) /\ \A f \in ToSet(buffer') : Precedes(e, f, requeued)
  BY <1>1, Lists, SortedTail DEF OrderInv
<1> HIDE DEF e
<1>4. Sorted(queue', requeued') /\ Sorted(EventsIn(leftovers'), requeued') /\ Sorted(buffer', requeued')
  BY <1>1, <1>3 DEF OrderInv
<1>5. /\ Places'[1] = Places[1] /\ Places'[2] = Places[2] /\ Places'[3] \subseteq Places[3] \cup {e}
      /\ Places'[4] \subseteq Places[4] /\ Places'[5] = Places[5]
      /\ e \in Places[4] /\ \A f \in Places'[4] : Precedes(e, f, requeued')
  BY <1>1, <1>2, <1>3, PlacesAre, PlacesWillBe DEF EventsOf, Holding, OnTheWay
<1>6. \A k \in 1..5 : k # 3 => Places'[k] \subseteq Places[k]
  <2>1. \A k \in 1..5 : k # 3 => k = 1 \/ k = 2 \/ k = 4 \/ k = 5
    OBVIOUS
  <2> QED BY <2>1, <1>5
<1>7. requeued \subseteq requeued' /\ injecting' \subseteq requeued' /\ 3 \in 1..4 /\ 4 \in 2..5 /\ 4 = 3 + 1
  BY <1>1 DEF OrderInv
<1> QED BY <1>4, <1>5, <1>6, <1>7, OrderMovesOne

\* An event enters the queue: from its head on the way to it, or requeued.
LEMMA QueueTakes ==
    ASSUME IInv, OrderInv, NEW e \in Events \ ToSet(queue), queue' = Append(queue, e),
           at' = at, event' = event, born' = born,
           requeued \subseteq requeued', injecting' \subseteq requeued',
           Sorted(EventsIn(leftovers'), requeued'), Sorted(buffer', requeued'),
           OnTheWay' \subseteq OnTheWay, ToSet(buffer') \subseteq ToSet(buffer),
           e \in requeued' \/ (e \in OnTheWay /\ \A f \in OnTheWay' : Precedes(e, f, requeued'))
    PROVE  OrderInv'
<1>1. ToSet(queue') = ToSet(queue) \cup {e}
  BY Lists, AppendList
<1>2. \A f \in ToSet(queue) : Precedes(f, e, requeued')
  <2>1. CASE e \in requeued'
    BY <2>1 DEF Precedes
  <2>2. CASE e \in OnTheWay
    <3>1. e \in Places[3] /\ ToSet(queue) = Places[2] /\ 2 \in 1..5 /\ 3 \in 1..5 /\ 2 < 3
      BY <2>2, PlacesAre
    <3>2. \A f \in ToSet(queue) : Precedes(f, e, requeued)
      BY <3>1, Behind
    <3> QED BY <3>2 DEF Precedes
  <2> QED BY <2>1, <2>2
<1>3. Sorted(queue, requeued')
  BY SortedGrows DEF OrderInv
<1>4. Sorted(queue', requeued')
  BY <1>2, <1>3, Lists, SortedAppend
<1>5. /\ Places'[1] = Places[1] /\ Places'[2] \subseteq Places[2] \cup {e} /\ Places'[3] \subseteq Places[3]
      /\ Places'[4] \subseteq Places[4] /\ Places'[5] = Places[5]
      /\ (e \in requeued' \/ (e \in Places[3] /\ \A f \in Places'[3] : Precedes(e, f, requeued')))
  BY <1>1, PlacesAre, PlacesWillBe DEF EventsOf, Holding
<1>6. \A k \in 1..5 : k # 2 => Places'[k] \subseteq Places[k]
  <2>1. \A k \in 1..5 : k # 2 => k = 1 \/ k = 3 \/ k = 4 \/ k = 5
    OBVIOUS
  <2> QED BY <2>1, <1>5
<1>7. 2 \in 1..4 /\ 3 \in 2..5 /\ 3 = 2 + 1
  OBVIOUS
<1> QED BY <1>4, <1>5, <1>6, <1>7, OrderMovesOne

LEMMA ListenerPutsOrdered ==
    ASSUME IInv, OrderInv, ListenerPuts
    PROVE  OrderInv'
<1> DEFINE e == listener.event
<1>1. /\ leftovers' = leftovers /\ buffer' = buffer /\ at' = at /\ event' = event
      /\ injecting' = injecting /\ requeued' = requeued /\ born' = born
      /\ listener.at = "putting" /\ queue' = Append(queue, e) /\ listener'.event = NoEvent
  BY ListenerRests DEF ListenerPuts
<1>2. e # NoEvent /\ e \in Events /\ leftovers = <<>>
  BY <1>1, Lists DEF IInv, Trigger
<1>3. e \in Content["listener"]
  BY <1>2, ContentIs
<1>4. e \notin ToSet(queue)
  BY <1>3, ContentIs DEF IInv, Partition, Names
<1>5. e \in OnTheWay /\ OnTheWay' = {}
  BY <1>1, <1>2, EventsInNothing, EmptyList DEF OnTheWay
<1> HIDE DEF e
<1>6. /\ requeued \subseteq requeued' /\ injecting' \subseteq requeued'
      /\ Sorted(EventsIn(leftovers'), requeued') /\ Sorted(buffer', requeued')
  BY <1>1 DEF OrderInv
<1> QED BY <1>1, <1>2, <1>4, <1>5, <1>6, QueueTakes

LEMMA RefillQueueOrdered ==
    ASSUME IInv, OrderInv, RefillQueue
    PROVE  OrderInv'
<1> DEFINE e == Head(leftovers).event
           s == EventsIn(leftovers)
<1>1. /\ buffer' = buffer /\ listener' = listener /\ at' = at /\ event' = event
      /\ injecting' = injecting /\ born' = born /\ requeued' = requeued
      /\ stage = "refill" /\ leftovers # <<>> /\ leftovers' = Tail(leftovers)
      /\ queue' \in {queue, Append(queue, e)}
  BY DEF RefillQueue, PutOrDeadLetter
<1>2. listener.event = NoEvent
  BY <1>1 DEF IInv, Trigger, Gone
<1>3. s # <<>> /\ Head(s) = e /\ EventsIn(leftovers') = Tail(s)
  BY <1>1, EventsInTail DEF IInv, Containers, LeftOver
<1>4. List(s) /\ Sorted(s, requeued)
  BY Lists DEF OrderInv
<1> HIDE DEF s, e
<1>5. /\ e \in ToSet(s) /\ e \in Events /\ ToSet(Tail(s)) \subseteq ToSet(s)
      /\ Sorted(Tail(s), requeued) /\ \A f \in ToSet(Tail(s)) : Precedes(e, f, requeued)
  BY <1>3, <1>4, TailList, SortedTail
<1>6. e \in Content["leftovers"]
  BY <1>5, ContentIs DEF s
<1>7. e \notin ToSet(queue)
  BY <1>6, ContentIs DEF IInv, Partition, Names
<1>8. OnTheWay = ToSet(s) /\ OnTheWay' = ToSet(Tail(s))
  BY <1>1, <1>2, <1>3 DEF OnTheWay, s
<1>9. /\ requeued \subseteq requeued' /\ injecting' \subseteq requeued'
      /\ Sorted(EventsIn(leftovers'), requeued') /\ Sorted(buffer', requeued')
  BY <1>1, <1>3, <1>5 DEF OrderInv
<1>10. CASE queue' = Append(queue, e)
  BY <1>1, <1>5, <1>7, <1>8, <1>9, <1>10, QueueTakes
<1>11. CASE queue' = queue
  <2>1. /\ Places'[1] = Places[1] /\ Places'[2] = Places[2] /\ Places'[3] \subseteq Places[3]
        /\ Places'[4] = Places[4] /\ Places'[5] = Places[5]
    BY <1>1, <1>5, <1>8, <1>11, PlacesAre, PlacesWillBe DEF EventsOf, Holding
  <2>2. \A k \in 1..5 : Places'[k] \subseteq Places[k]
    <3>1. \A k \in 1..5 : k = 1 \/ k = 2 \/ k = 3 \/ k = 4 \/ k = 5
      OBVIOUS
    <3> QED BY <2>1, <3>1
  <2>3. Sorted(queue', requeued')
    BY <1>1, <1>11 DEF OrderInv
  <2> QED BY <1>9, <2>2, <2>3, OrderShrinks
<1> QED BY <1>1, <1>10, <1>11

LEMMA TakeOrdered ==
    ASSUME IInv, OrderInv, NEW w \in Workers, Take(w)
    PROVE  OrderInv'
<1> DEFINE e == Head(queue)
<1>1. /\ leftovers' = leftovers /\ listener' = listener /\ buffer' = buffer
      /\ injecting' = injecting /\ requeued' = requeued /\ born' = born
      /\ queue # <<>> /\ queue' = Tail(queue)
      /\ at' = [at EXCEPT ![w] = "hold"] /\ event' = [event EXCEPT ![w] = e]
  BY DEF Take, Worker
<1>2. ToSet(queue') \subseteq ToSet(queue) /\ e \in ToSet(queue)
  BY <1>1, Lists, TailList
<1>3. Sorted(queue', requeued) /\ \A f \in ToSet(queue') : Precedes(e, f, requeued)
  BY <1>1, Lists, SortedTail DEF OrderInv
<1> HIDE DEF e
<1>4. Sorted(queue', requeued') /\ Sorted(EventsIn(leftovers'), requeued') /\ Sorted(buffer', requeued')
  BY <1>1, <1>3 DEF OrderInv
<1>5. Places'[1] \subseteq Places[1] \cup {e}
  <2>1. \A v \in Workers : at'[v] \in InHand =>
            (event'[v] = e \/ (at[v] \in InHand /\ event'[v] = event[v]))
    BY <1>1 DEF IInv, ControlInv, Hands
  <2>2. EventsOf(Holding)' \subseteq EventsOf(Holding) \cup {e}
    BY <2>1 DEF EventsOf, Holding
  <2> QED BY <2>2, PlacesAre, PlacesWillBe
<1>6. /\ Places'[2] \subseteq Places[2] /\ Places'[3] = Places[3]
      /\ Places'[4] = Places[4] /\ Places'[5] = Places[5]
      /\ e \in Places[2] /\ \A f \in Places'[2] : Precedes(e, f, requeued')
  BY <1>1, <1>2, <1>3, PlacesAre, PlacesWillBe DEF OnTheWay
<1>7. \A k \in 1..5 : k # 1 => Places'[k] \subseteq Places[k]
  <2>1. \A k \in 1..5 : k # 1 => k = 2 \/ k = 3 \/ k = 4 \/ k = 5
    OBVIOUS
  <2> QED BY <2>1, <1>6
<1>8. requeued \subseteq requeued' /\ injecting' \subseteq requeued' /\ 1 \in 1..4 /\ 2 \in 2..5 /\ 2 = 1 + 1
  BY <1>1 DEF OrderInv
<1> QED BY <1>4, <1>5, <1>6, <1>7, <1>8, OrderMovesOne

\* What comes back to the queue from a retry, a hook or the dead letters is
\* requeued, and so out of order by right.
LEMMA RequeuedOrdered ==
    ASSUME IInv, OrderInv,
           \/ \E e \in Events : RetryFires(e) \/ InjectEnds(e) \/ Redeliver(e)
    PROVE  OrderInv'
<1> PICK e \in Events : RetryFires(e) \/ InjectEnds(e) \/ Redeliver(e)
  OBVIOUS
<1>1. /\ leftovers' = leftovers /\ listener' = listener /\ buffer' = buffer
      /\ at' = at /\ event' = event /\ born' = born
      /\ requeued \subseteq requeued' /\ injecting' \subseteq injecting
      /\ queue' \in {queue, Append(queue, e)}
  BY DEF RetryFires, InjectEnds, Redeliver, PutOrDeadLetter
<1>2. CASE queue' = queue
  <2>1. Stays
    BY <1>1, <1>2, NobodyMoves DEF Stays
  <2> QED BY <2>1, OrderStays
<1>3. CASE queue' = Append(queue, e)
  <2>1. e \in Content["retries"] \/ e \in Content["injecting"] \/ e \in Content["dead"]
    BY InSet, ContentIs DEF RetryFires, InjectEnds, Redeliver, InDead
  <2>2. e \notin ToSet(queue)
    BY <2>1, ContentIs DEF IInv, Partition, Names
  <2>3. e \in requeued'
    BY DEF RetryFires, InjectEnds, Redeliver, OrderInv
  <2>4. injecting' \subseteq requeued' /\ OnTheWay' = OnTheWay
    BY <1>1 DEF OrderInv, OnTheWay
  <2>5. Sorted(EventsIn(leftovers'), requeued') /\ Sorted(buffer', requeued')
    BY <1>1, SortedGrows DEF OrderInv
  <2> QED BY <1>1, <1>3, <2>2, <2>3, <2>4, <2>5, QueueTakes
<1> QED BY <1>1, <1>2, <1>3

LEMMA CancelListenerOrdered ==
    ASSUME IInv, OrderInv, CancelListener
    PROVE  OrderInv'
<1> DEFINE e == listener.event
<1>1. /\ buffer' = buffer /\ queue' = queue /\ at' = at /\ event' = event
      /\ injecting' = injecting /\ born' = born /\ requeued' = requeued
      /\ stage = "workers" /\ listener' = Gone /\ leftovers' = leftovers \o LeftByListener
  BY DEF CancelListener
<1>2. leftovers = <<>>
  BY <1>1 DEF IInv, Trigger
<1>3. CASE e = NoEvent
  <2>1. leftovers' = leftovers
    BY <1>1, <1>2, <1>3, ConcatEmptySeq, EmptySeq DEF LeftByListener
  <2>2. Stays
    BY <1>1, <2>1, NobodyMoves DEF Stays, Gone
  <2> QED BY <2>2, OrderStays
<1>4. CASE e # NoEvent
  <2> DEFINE one == <<[event |-> e, admitted |-> listener.at = "putting"]>>
  <2>1. one \in Seq(LeftOver) /\ e \in Events
    BY <1>4, Lists DEF LeftOver
  <2>2. leftovers' = one
    BY <1>1, <1>2, <1>4, <2>1, ConcatEmptySeq DEF LeftByListener
  <2>3. EventsIn(one) = <<e>>
    BY DEF EventsIn
  <2> HIDE DEF one, e
  <2>4. EventsIn(leftovers') = <<e>> /\ ToSet(EventsIn(leftovers')) = {e}
    BY <2>1, <2>2, <2>3, OneList
  <2>5. Places'[3] \subseteq Places[3]
    BY <1>1, <1>4, <2>4, PlacesAre, PlacesWillBe DEF OnTheWay, Gone, e
  <2>6. /\ Places'[1] = Places[1] /\ Places'[2] = Places[2] /\ Places'[4] = Places[4]
        /\ Places'[5] = Places[5]
    BY <1>1, PlacesAre, PlacesWillBe DEF EventsOf, Holding
  <2>7. \A k \in 1..5 : Places'[k] \subseteq Places[k]
    <3>1. \A k \in 1..5 : k = 1 \/ k = 2 \/ k = 3 \/ k = 4 \/ k = 5
      OBVIOUS
    <3> QED BY <2>5, <2>6, <3>1
  <2>8. Sorted(EventsIn(leftovers'), requeued')
    BY <2>4, SortedOne
  <2> QED BY <1>1, <2>7, <2>8, OrderShrinks DEF OrderInv
<1> QED BY <1>3, <1>4

LEMMA EventsInConcat ==
    ASSUME NEW s \in Seq(LeftOver), NEW r \in Seq(LeftOver)
    PROVE  EventsIn(s \o r) = EventsIn(s) \o EventsIn(r)
<1> DEFINE q == s \o r
           x == EventsIn(s)
           y == EventsIn(r)
           a == EventsIn(q)
           b == x \o y
<1>1. /\ q \in Seq(LeftOver) /\ Len(q) = Len(s) + Len(r)
      /\ \A i \in 1 .. Len(s) + Len(r) : q[i] = IF i <= Len(s) THEN s[i] ELSE r[i - Len(s)]
  BY ConcatProperties
<1>2. /\ x \in Seq(Events) /\ Len(x) = Len(s) /\ Len(s) \in Nat
      /\ \A i \in 1 .. Len(s) : x[i] = s[i].event
      /\ y \in Seq(Events) /\ Len(y) = Len(r) /\ Len(r) \in Nat
      /\ \A i \in 1 .. Len(r) : y[i] = r[i].event
  BY EventsInIs
<1> HIDE DEF x, y, q
<1>3. /\ a \in Seq(Events) /\ Len(a) = Len(s) + Len(r)
      /\ \A i \in 1 .. Len(s) + Len(r) : a[i] = q[i].event
  BY <1>1, EventsInIs
<1>4. /\ b \in Seq(Events) /\ Len(b) = Len(s) + Len(r)
      /\ \A i \in 1 .. Len(s) + Len(r) : b[i] = IF i <= Len(s) THEN x[i] ELSE y[i - Len(s)]
  <2>1. /\ b \in Seq(Events) /\ Len(b) = Len(x) + Len(y)
        /\ \A i \in 1 .. Len(x) + Len(y) : b[i] = IF i <= Len(x) THEN x[i] ELSE y[i - Len(x)]
    <3>1. x \in Seq(Events) /\ y \in Seq(Events)
      BY <1>2
    <3> QED BY <3>1, ConcatProperties
  <2> QED BY <1>2, <2>1
<1> HIDE DEF a, b
<1>5. ASSUME NEW i \in 1 .. Len(s) + Len(r) PROVE a[i] = b[i]
  <2>1. CASE i <= Len(s)
    <3>1. i \in 1 .. Len(s)
      BY <1>2, <2>1
    <3> QED BY <1>1, <1>2, <1>3, <1>4, <2>1, <3>1
  <2>2. CASE ~(i <= Len(s))
    <3>1. i - Len(s) \in 1 .. Len(r)
      BY <1>2, <2>2
    <3> QED BY <1>1, <1>2, <1>3, <1>4, <2>2, <3>1
  <2> QED BY <2>1, <2>2
<1>6. a = b
  BY <1>3, <1>4, <1>5, SeqEqual
<1> QED BY <1>6 DEF a, b, x, y, q

LEMMA StopTriggerForRestartOrdered ==
    ASSUME IInv, OrderInv, StopTriggerForRestart
    PROVE  OrderInv'
<1> DEFINE tail == [i \in 1 .. Len(buffer) |-> [event |-> buffer[i], admitted |-> FALSE]]
           s == EventsIn(leftovers)
           M == ToSet(buffer)
<1>1. /\ listener' = listener /\ queue' = queue /\ at' = at /\ event' = event
      /\ injecting' = injecting /\ born' = born /\ requeued' = requeued
      /\ stage = "listeners" /\ buffer' = <<>> /\ leftovers' = leftovers \o tail
  BY DEF StopTriggerForRestart, WithBuffered
<1>2. /\ buffer \in Seq(Events) /\ Len(buffer) \in Nat /\ \A i \in 1 .. Len(buffer) : buffer[i] \in Events
      /\ leftovers \in Seq(LeftOver)
  BY LenProperties, ElementOfSeq DEF IInv, Containers, List, LeftOver
<1>3. tail \in Seq(LeftOver) /\ EventsIn(tail) = buffer
  <2>1. tail \in [1 .. Len(buffer) -> LeftOver]
    BY <1>2 DEF LeftOver
  <2>2. tail \in Seq(LeftOver)
    BY <1>2, <2>1, SeqDef
  <2>3. Len(tail) = Len(buffer) /\ \A i \in 1 .. Len(buffer) : tail[i].event = buffer[i]
    <3>1. Len(tail) = Len(buffer)
      BY <1>2, <2>1, <2>2, LenProperties
    <3>2. \A i \in 1 .. Len(buffer) : tail[i].event = buffer[i]
      OBVIOUS
    <3> QED BY <3>1, <3>2
  <2> HIDE DEF tail
  <2> DEFINE a == EventsIn(tail)
  <2>4. a \in Seq(Events) /\ Len(a) = Len(buffer) /\ \A i \in 1 .. Len(buffer) : a[i] = buffer[i]
    BY <2>2, <2>3, EventsInIs
  <2> HIDE DEF a
  <2>5. a = buffer
    BY <1>2, <2>4, SeqEqual
  <2> QED BY <2>2, <2>5 DEF a
<1> HIDE DEF tail
<1>4. EventsIn(leftovers') = s \o buffer
  BY <1>1, <1>2, <1>3, EventsInConcat
<1>5. List(s) /\ List(buffer) /\ s \in Seq(Events) /\ buffer \in Seq(Events) /\ ToSet(s) \subseteq OnTheWay
  BY Lists DEF OnTheWay
<1>6. ToSet(s) \cap ToSet(buffer) = {}
  BY ContentIs DEF IInv, Partition, Names
<1>7. Sorted(s \o buffer, requeued)
  <2>1. \A e \in ToSet(s), f \in ToSet(buffer) : Precedes(e, f, requeued)
    <3>1. ToSet(s) \subseteq Places[3] /\ ToSet(buffer) = Places[4] /\ 3 \in 1..5 /\ 4 \in 1..5 /\ 3 < 4
      BY <1>5, PlacesAre
    <3> HIDE DEF s
    <3> QED BY <3>1, Behind
  <2>2. Sorted(s, requeued) /\ Sorted(buffer, requeued)
    BY DEF OrderInv
  <2> HIDE DEF s
  <2> QED BY <1>5, <2>1, <2>2, SortedConcat
<1>8. ToSet(EventsIn(leftovers')) = ToSet(s) \cup M
  <2> HIDE DEF s
  <2> QED BY <1>4, <1>5, <1>6, ConcatList
<1>9. /\ Places'[1] = Places[1] /\ Places'[2] = Places[2] /\ Places'[3] \subseteq Places[3] \cup M
      /\ Places'[4] = {} /\ Places'[5] = Places[5] /\ \A e \in M : e \in Places[4]
  <2>1. Places'[1] = Places[1] /\ Places'[2] = Places[2] /\ Places'[5] = Places[5]
    BY <1>1, PlacesAre, PlacesWillBe DEF EventsOf, Holding
  <2>2. Places'[3] \subseteq Places[3] \cup M
    BY <1>1, <1>8, PlacesAre, PlacesWillBe DEF OnTheWay
  <2>3. Places'[4] = {} /\ \A e \in M : e \in Places[4]
    BY <1>1, EmptyList, PlacesAre, PlacesWillBe
  <2> QED BY <2>1, <2>2, <2>3
<1>10. \A k \in 1..5 : k # 3 => Places'[k] \subseteq Places[k]
  <2>1. \A k \in 1..5 : k # 3 => k = 1 \/ k = 2 \/ k = 4 \/ k = 5
    OBVIOUS
  <2> QED BY <2>1, <1>9
<1>11. \A e \in M : e \in Places[4] /\ \A f \in Places'[4] : Precedes(e, f, requeued')
  BY <1>9
<1>12. /\ requeued \subseteq requeued' /\ injecting' \subseteq requeued' /\ 3 \in 1..4 /\ 4 \in 2..5 /\ 4 = 3 + 1
       /\ Sorted(queue', requeued') /\ Sorted(EventsIn(leftovers'), requeued') /\ Sorted(buffer', requeued')
  BY <1>1, <1>4, <1>7, SortedNothing DEF OrderInv
<1> HIDE DEF M
<1>13. Places'[3] \subseteq Places[3] \cup M
  BY <1>9
<1> QED BY <1>10, <1>11, <1>12, <1>13, OrderMoves

\* The whole: every step keeps the order.
LEMMA OrderInitially == Init => OrderInv
<1> SUFFICES ASSUME Init PROVE OrderInv
  OBVIOUS
<1>1. /\ queue = <<>> /\ buffer = <<>> /\ leftovers = <<>> /\ listener = Gone /\ injecting = {}
      /\ at = [w \in Workers |-> "none"]
  BY DEF Init
<1>2. EventsIn(leftovers) = <<>>
  BY <1>1, EventsInNothing
<1>3. /\ Places[1] = {} /\ Places[2] = {} /\ Places[3] = {} /\ Places[4] = {}
  BY <1>1, <1>2, EmptyList, PlacesAre DEF EventsOf, Holding, OnTheWay, Gone
<1>4. Ranked(Places, requeued)
  <2>1. \A i, j \in 1..5 : i < j => i = 1 \/ i = 2 \/ i = 3 \/ i = 4
    OBVIOUS
  <2> QED BY <1>3, <2>1 DEF Ranked
<1> QED BY <1>1, <1>2, <1>4, SortedNothing DEF OrderInv

LEMMA OrderKeeps ==
    ASSUME IInv, OrderInv, [Next]_vars
    PROVE  OrderInv'
<1>1. CASE \E e \in Events : TriggerFires(e) \/ RetryFires(e) \/ InjectEnds(e)
  BY <1>1, TriggerFiresOrdered, RequeuedOrdered
<1>2. CASE Listen
  BY <1>2, ListenerTakesOrdered, ListenerPutsOrdered, StayedOthers, OrderStays DEF Listen
<1>3. CASE Operate
  BY <1>3, RequeuedOrdered, StayedOthers, OrderStays DEF Operate
<1>4. CASE Control
  BY <1>4, CancelListenerOrdered, StopTriggerForRestartOrdered, RefillQueueOrdered,
     StayedControl, OrderStays DEF Control
<1>5. CASE \E w \in Workers : Work(w)
  BY <1>5, TakeOrdered, StayedWorkers, OrderStays DEF Work
<1>6. CASE UNCHANGED vars
  BY <1>6, StayedControl, OrderStays
<1> QED BY <1>1, <1>2, <1>3, <1>4, <1>5, <1>6 DEF Next

\* What is on its way to a worker is in order, and behind what a worker has.
LEMMA OrderedPipeline == IInv /\ OrderInv => InOrder
<1> SUFFICES ASSUME IInv, OrderInv PROVE InOrder
  OBVIOUS
<1> DEFINE a == queue \o HeldByListener
           b == a \o EventsIn(leftovers)
           c == b \o buffer
<1>1. /\ queue \in Seq(Events) /\ List(queue) /\ List(HeldByListener) /\ List(EventsIn(leftovers))
      /\ List(buffer) /\ HeldByListener \in Seq(Events) /\ EventsIn(leftovers) \in Seq(Events)
      /\ buffer \in Seq(Events) /\ ToSet(HeldByListener) = {listener.event} \ {NoEvent}
      /\ ToSet(HeldByListener) \subseteq OnTheWay /\ ToSet(EventsIn(leftovers)) \subseteq OnTheWay
  BY Lists, ListenerHolds DEF IInv, List, OnTheWay
<1>2. \A i, j \in 1..5 : i < j => \A e \in Places[i], f \in Places[j] : Precedes(e, f, requeued)
  BY DEF OrderInv, Ranked
<1>3. Sorted(HeldByListener, requeued)
  BY SortedOne, SortedNothing DEF HeldByListener
<1>4. /\ ToSet(queue) \cap ToSet(HeldByListener) = {}
      /\ (ToSet(queue) \cup ToSet(HeldByListener)) \cap ToSet(EventsIn(leftovers)) = {}
      /\ (ToSet(queue) \cup ToSet(HeldByListener) \cup ToSet(EventsIn(leftovers))) \cap ToSet(buffer) = {}
  <2>1. /\ Content["queue"] \cap Content["listener"] = {}
        /\ (Content["queue"] \cup Content["listener"]) \cap Content["leftovers"] = {}
        /\ (Content["queue"] \cup Content["listener"] \cup Content["leftovers"])
              \cap Content["buffer"] = {}
    BY DEF IInv, Partition, Names
  <2> QED BY <1>1, <2>1, ContentIs
<1>5. ToSet(HeldByListener) = {} \/ ToSet(EventsIn(leftovers)) = {}
  BY <1>1, Lists, EventsInNothing, EmptyList
<1>6. List(a) /\ a \in Seq(Events) /\ ToSet(a) = ToSet(queue) \cup ToSet(HeldByListener)
  BY <1>1, <1>4, ConcatList DEF List
<1>7. Sorted(a, requeued)
  <2>1. \A e \in ToSet(queue), f \in ToSet(HeldByListener) : Precedes(e, f, requeued)
    BY <1>1, <1>2, PlacesAre
  <2> QED BY <1>1, <1>3, <2>1, SortedConcat DEF OrderInv
<1> HIDE DEF a
<1>8. List(b) /\ b \in Seq(Events) /\ ToSet(b) = ToSet(queue) \cup ToSet(HeldByListener) \cup ToSet(EventsIn(leftovers))
  BY <1>1, <1>4, <1>6, ConcatList DEF List
<1>9. Sorted(b, requeued)
  <2>1. \A e \in ToSet(queue), f \in ToSet(EventsIn(leftovers)) : Precedes(e, f, requeued)
    BY <1>1, <1>2, PlacesAre
  <2>2. \A e \in ToSet(a), f \in ToSet(EventsIn(leftovers)) : Precedes(e, f, requeued)
    BY <1>5, <1>6, <2>1
  <2> QED BY <1>1, <1>6, <1>7, <2>2, SortedConcat DEF OrderInv
<1> HIDE DEF b
<1>10. List(c) /\ ToSet(c) = ToSet(b) \cup ToSet(buffer)
  BY <1>1, <1>4, <1>8, ConcatList
<1>11. Sorted(c, requeued)
  <2>1. /\ \A e \in ToSet(queue), f \in ToSet(buffer) : Precedes(e, f, requeued)
        /\ \A e \in OnTheWay, f \in ToSet(buffer) : Precedes(e, f, requeued)
    BY <1>2, PlacesAre
  <2>2. \A e \in ToSet(b), f \in ToSet(buffer) : Precedes(e, f, requeued)
    BY <1>1, <1>8, <2>1
  <2> QED BY <1>1, <1>8, <1>9, <2>2, SortedConcat DEF OrderInv
<1> HIDE DEF c
<1>12. c = Pipeline
  BY DEF Pipeline, a, b, c
<1>13. \A e \in EventsOf(Holding), f \in ToSet(Pipeline) : Precedes(e, f, requeued)
  <2>1. /\ \A e \in EventsOf(Holding), f \in ToSet(queue) : Precedes(e, f, requeued)
        /\ \A e \in EventsOf(Holding), f \in OnTheWay : Precedes(e, f, requeued)
        /\ \A e \in EventsOf(Holding), f \in ToSet(buffer) : Precedes(e, f, requeued)
    BY <1>2, PlacesAre
  <2>2. \A f \in ToSet(Pipeline) : f \in ToSet(queue) \/ f \in OnTheWay \/ f \in ToSet(buffer)
    BY <1>1, <1>8, <1>10, <1>12
  <2> QED BY <2>1, <2>2
<1>14. Sorted(Pipeline, requeued)
  BY <1>11, <1>12
<1> QED BY <1>13, <1>14 DEF InOrder, Ahead, Precedes, Sorted

\* Events run in arrival order: what came from the trigger and was never
\* requeued is behind every such event before it, across suspensions and
\* restarts, for any number of events and workers.
THEOREM ArrivalOrder == Spec => []InOrder
<1>1. OrderInv /\ IInv /\ [Next]_vars => OrderInv'
  BY OrderKeeps
<1>2. IInv /\ OrderInv => InOrder
  BY OrderedPipeline
<1> QED BY OrderInitially, <1>1, <1>2, Inductive, PTL DEF Spec

=============================================================================
