-------------------------- MODULE MCPClientProofs --------------------------
(***************************************************************************)
(* Theorems about MCPClient: types, no session without somebody to close   *)
(* it, what __aexit__ leaves, the calls of a retired session, and what a   *)
(* re-initialisation closes.                                               *)
(***************************************************************************)
EXTENDS MCPClient, TLAPS

\* The current session is the latest; what is retired or being closed is
\* older, or at least no longer current.
Order ==
    /\ runner \in {0, latest}
    /\ \A s \in Sessions : s > latest => phase[s] = "none"
    /\ \A s \in retired \union closers : s <= latest /\ s # runner

\* Nothing happens before the client is entered.
Unentered ==
    /\ user = "out" => latest = 0
    /\ user = "entering" => latest # 0
    /\ user \in {"out", "entering"} => \A c \in Calls : pc[c] = "idle"

\* One call at a time holds the lock; while it shuts a session down there is none.
Lock ==
    /\ \A c, d \in Calls : pc[c] \in Holding /\ pc[d] \in Holding => c = d
    /\ \A c \in Calls : pc[c] = "shutdown" => runner = 0

\* A retired session is in use, or its renewal is not over.
Busy(s) == \E c \in Calls : pc[c] \in Requesting /\ on[c] = s
Renewing == \E c \in Calls : pc[c] \in {"renewing", "cleanup"}
InUse == \A s \in retired : Busy(s) \/ (s = latest - 1 /\ Renewing)

\* An open session has one who closes it.
Owned ==
    \A s \in Sessions : phase[s] \in Alive => s = runner \/ s \in closing \/ s \in retired

\* The calls of a closed session are over while the client is entered.
ClosedUnused ==
    /\ active => user = "in"
    /\ active => \A s \in closers, c \in Calls : pc[c] \in Requesting => on[c] # s

\* What __aexit__ found, it closes.
Leaving ==
    /\ had <= latest
    /\ user \in {"out", "entering", "in"} => had = 0
    /\ user \notin {"out", "entering", "in"} => runner = 0 \/ runner > had
    /\ user \in {"closing", "exited"} =>
          \A s \in Sessions : phase[s] \in Alive /\ s <= had => s \in closing

IInv == TypeOK /\ Order /\ Unentered /\ Lock /\ InUse /\ Owned /\ ClosedUnused /\ Leaving

-----------------------------------------------------------------------------
(* What the steps of a call do to its own state *)

LocalTypes ==
    /\ pc \in [Calls -> Places]
    /\ on \in [Calls -> Numbers]
    /\ using \in [Calls -> Numbers]
    /\ seen \in [Calls -> Nat]
    /\ refused \subseteq Calls /\ again \subseteq Calls /\ served \subseteq Calls

OtherTypes ==
    /\ session \in Numbers /\ generation \in Nat
    /\ provided \in BOOLEAN
    /\ known \subseteq Sessions /\ stale \in BOOLEAN /\ renewals \in 0 .. MaxRenewals

Others(c) == \A d \in Calls \ {c} : pc'[d] = pc[d] /\ on'[d] = on[d]

LEMMA Numbers0 == 0 \in Numbers /\ \A s \in Sessions : s \in Numbers /\ s \in Nat \ {0}
BY BoundsAssumption DEF Numbers, Sessions

\* A call that ends has no runner.
LEMMA EndsOwn ==
    ASSUME NEW c \in Calls, NEW place \in Finished, LocalTypes, Ends(c, place)
    PROVE  LocalTypes' /\ Others(c) /\ pc'[c] = place
BY Numbers0 DEF Ends, Goes, LocalTypes, Others, Places, Finished

\* A call to which the session is handed waits, or ends, or has asked on it.
LEMMA HandedOwn ==
    ASSUME NEW c \in Calls, LocalTypes, runner' \in Numbers, OtherTypes',
           Live(c) \/ Lives(c) \/ Requires(c) \/ Reopened(c)
    PROVE  /\ LocalTypes' /\ Others(c)
           /\ pc'[c] \in {"asked", "failed", "reopen", "token", "barrier"}
           /\ pc'[c] = "asked" => on'[c] = runner'
<1>1. ASSUME Ends(c, "failed")
      PROVE LocalTypes' /\ Others(c) /\ pc'[c] = "failed"
  BY <1>1, EndsOwn DEF Finished
<1>2. ASSUME Sends(c)
      PROVE LocalTypes' /\ Others(c) /\ pc'[c] = "asked" /\ on'[c] = runner'
  BY <1>2, Numbers0 DEF Sends, Goes, LocalTypes, OtherTypes, Others, Places, Requesting
<1>3. ASSUME AsksFor(c, "reopen")
      PROVE LocalTypes' /\ Others(c) /\ pc'[c] = "reopen"
  BY <1>3 DEF AsksFor, Goes, LocalTypes, OtherTypes, Others, Places
<1>4. ASSUME Goes(c, "token"), UNCHANGED localVars
      PROVE LocalTypes' /\ Others(c) /\ pc'[c] = "token"
  BY <1>4 DEF Goes, LocalTypes, Others, Places, localVars
<1>5. ASSUME Goes(c, "barrier"), refused' = refused \ {c},
             UNCHANGED <<on, using, seen, again, served>>
      PROVE LocalTypes' /\ Others(c) /\ pc'[c] = "barrier"
  BY <1>5 DEF Goes, LocalTypes, Others, Places
<1> QED
  BY <1>1, <1>2, <1>3, <1>4, <1>5 DEF Live, Lives, Requires, Reopened

ClientTypes ==
    /\ user \in {"out", "entering", "in", "exiting", "closing", "exited"}
    /\ popped \in Numbers /\ active \in BOOLEAN /\ had \in Numbers
    /\ runner \in Numbers /\ latest \in Numbers
    /\ phase \in [Sessions -> Phases]
    /\ retired \subseteq Sessions /\ closers \subseteq Sessions
    /\ closing \subseteq Sessions

LEMMA TypeParts ==
    /\ TypeOK <=> LocalTypes /\ OtherTypes /\ ClientTypes
    /\ TypeOK' <=> LocalTypes' /\ OtherTypes' /\ ClientTypes'
BY DEF TypeOK, LocalTypes, OtherTypes, ClientTypes

-----------------------------------------------------------------------------
(* Steps of a kind *)

\* A call moves on and nothing else changes.
LEMMA CallMoves ==
    ASSUME NEW c \in Calls, IInv, LocalTypes', OtherTypes', Others(c),
           UNCHANGED userVars, UNCHANGED sessionVars, UNCHANGED closeVars,
           pc[c] = "idle" => user \notin {"out", "entering"},
           pc[c] \notin {"renewing", "cleanup"},
           pc'[c] \notin Holding,
           pc[c] \in Requesting => pc'[c] \in Requesting /\ on'[c] = on[c],
           pc[c] \notin Requesting /\ pc'[c] \in Requesting => on'[c] = runner
    PROVE  IInv'
<1>1. TypeOK'
  BY TypeParts DEF IInv, userVars, sessionVars, closeVars, ClientTypes
<1>2. Order' /\ Owned' /\ Leaving' /\ Unentered'
  BY DEF IInv, Order, Owned, Leaving, Unentered, userVars, sessionVars, closeVars, Others
<1>3. Lock'
  BY DEF IInv, Lock, sessionVars, Others, Holding
<1>4. InUse'
  BY DEF IInv, InUse, Busy, Renewing, sessionVars, closeVars, Others
<1>5. ClosedUnused'
  BY Numbers0 DEF IInv, ClosedUnused, Order, TypeOK, sessionVars, closeVars, userVars, Others
<1> QED BY <1>1, <1>2, <1>3, <1>4, <1>5 DEF IInv

\* A request ends, and with the last one of a retired session its closing begins.
LEMMA CallLeaves ==
    ASSUME NEW c \in Calls, IInv, LocalTypes', Others(c), Leaves(c),
           pc[c] \in Requesting, pc'[c] \notin Holding \union Requesting
    PROVE  IInv'
<1>1. TypeOK'
  BY TypeParts DEF IInv, Leaves, CloseRetired, Unused, userVars, sessionVars, serverVars, OtherTypes, ClientTypes
<1>2. Order' /\ Owned' /\ Leaving' /\ Unentered'
  BY DEF IInv, Order, Owned, Leaving, Unentered, Leaves, CloseRetired, Unused, userVars, sessionVars, Others, Requesting
<1>3. Lock'
  BY DEF IInv, Lock, Leaves, sessionVars, Others, Holding
<1>4. InUse'
  BY DEF IInv, InUse, Busy, Renewing, Leaves, CloseRetired, Unused, On, sessionVars, Others, Requesting
<1>5. ClosedUnused'
  BY DEF IInv, ClosedUnused, Leaves, CloseRetired, Unused, On, userVars, Others
<1> QED BY <1>1, <1>2, <1>3, <1>4, <1>5 DEF IInv

\* A runner or the server moves on; no runner that has ended comes back.
LEMMA RunnerMoves ==
    ASSUME IInv, OtherTypes', phase' \in [Sessions -> Phases],
           UNCHANGED <<runner, latest, generation, pc>>,
           UNCHANGED userVars, UNCHANGED closeVars, UNCHANGED localVars,
           \A s \in Sessions : phase'[s] \in Alive => phase[s] \in Alive,
           \A s \in Sessions : phase[s] = "none" => phase'[s] = "none"
    PROVE  IInv'
<1>1. TypeOK'
  BY TypeParts DEF IInv, userVars, closeVars, localVars, LocalTypes, ClientTypes
<1>2. /\ user' = user /\ active' = active /\ had' = had
      /\ runner' = runner /\ latest' = latest /\ pc' = pc /\ on' = on
      /\ retired' = retired /\ closers' = closers /\ closing' = closing
  BY DEF userVars, closeVars, localVars
<1>3. Order'
  <2>1. \A s \in Sessions : s > latest => phase'[s] = "none"
    BY DEF IInv, Order
  <2> QED BY <1>2, <2>1 DEF IInv, Order
<1>4. Owned'
  BY <1>2 DEF IInv, Owned
<1>5. Leaving'
  BY <1>2 DEF IInv, Leaving
<1>6. Unentered' /\ Lock' /\ InUse' /\ ClosedUnused'
  BY <1>2 DEF IInv, Unentered, Lock, InUse, Busy, Renewing, ClosedUnused
<1> QED BY <1>1, <1>3, <1>4, <1>5, <1>6 DEF IInv

-----------------------------------------------------------------------------
(* The steps that change the session, its owner or the lock *)

LEMMA StaysBusy ==
    ASSUME NEW c \in Calls, Others(c), pc[c] \notin Requesting, NEW s, Busy(s)
    PROVE  Busy(s)'
BY DEF Busy, Others

LEMMA NobodyRenews ==
    ASSUME NEW c \in Calls, Lock, LockFree \/ pc[c] \in {"shutdown", "opening"}
    PROVE  ~Renewing
BY DEF Renewing, Lock, LockFree, Holding

\* The end of a renewal: what it leaves retired is busy.
LEMMA ReplacedClosed ==
    ASSUME NEW c \in Calls, IInv, Others(c), pc[c] \notin Requesting, CloseRetired(Replaced)
    PROVE  /\ TypeOK => /\ retired' \subseteq Sessions /\ closers' \subseteq Sessions
                        /\ closing' \subseteq Sessions
           /\ \A s \in retired' : s \in retired /\ Busy(s)'
           /\ \A s \in closers' \ closers : s \in retired /\ \A d \in Calls : pc[d] \in Requesting => on[d] # s
           /\ retired \subseteq retired' \union closing' /\ closing \subseteq closing'
<1>1. \A s \in retired' : s \in retired /\ Busy(s)
  BY DEF CloseRetired, Replaced, IInv, InUse, Busy, On
<1>2. \A s \in retired' : Busy(s)'
  BY <1>1, StaysBusy
<1> QED BY <1>1, <1>2 DEF CloseRetired, Replaced, TypeOK, On

\* The session before is retired, and the renewal holds the lock.
LEMMA RenewsKeeps ==
    ASSUME NEW c \in Calls, IInv, Renews(c)
    PROVE  IInv'
<1>0. /\ LocalTypes' /\ Others(c) /\ pc[c] = "renew" /\ pc'[c] = "renewing"
      /\ \A d \in Calls : on'[d] = on[d]
  BY TypeParts DEF IInv, Renews, Goes, LocalTypes, Others, Places, Holding, localVars
<1>1. TypeOK'
  <2>1. OtherTypes'
    BY TypeParts, Numbers0 DEF IInv, Renews, OtherTypes, serverVars
  <2>2. ClientTypes'
    BY TypeParts, BoundsAssumption
    DEF IInv, Order, Renews, Opens, userVars, ClientTypes, Numbers, Sessions, Phases, Alive
  <2> QED BY <1>0, <2>1, <2>2, TypeParts
<1>2. Order'
  BY <1>0, BoundsAssumption DEF IInv, Order, Renews, Opens, userVars, sessionVars, closeVars, serverVars, Sessions, TypeOK, Numbers
<1>3. Unentered' /\ Lock'
  BY <1>0 DEF IInv, Unentered, Lock, LockFree, Renews, userVars, sessionVars, closeVars, serverVars, Others, Holding
<1>4. InUse'
  <2>1. ~Renewing
    BY NobodyRenews DEF IInv, Renews
  <2>2. \A s \in retired : Busy(s)'
    BY <2>1, <1>0, StaysBusy DEF IInv, InUse, Requesting
  <2>3. Renewing'
    BY <1>0 DEF Renewing
  <2>4. latest \in Nat /\ runner = latest /\ latest' = latest + 1
    BY DEF IInv, Order, Renews, Opens, TypeOK, Numbers
  <2> QED BY <2>2, <2>3, <2>4 DEF Renews, InUse
<1>5. Owned' /\ Leaving'
  <2>1. /\ user' = user /\ popped' = popped /\ active' = active /\ had' = had
        /\ closing' = closing /\ retired' = retired \union {runner}
        /\ runner' = latest + 1 /\ latest' = latest + 1
        /\ runner # 0 /\ runner = latest
    BY DEF IInv, Order, Renews, Opens, userVars
  <2>2. latest \in Nat /\ had \in Nat
    BY DEF IInv, TypeOK, Numbers
  <2>3. \A s \in Sessions : s # runner' => phase'[s] = phase[s]
    BY <2>1 DEF IInv, Renews, Opens, TypeOK
  <2>4. Owned'
    BY <2>1, <2>3 DEF IInv, Owned
  <2>5. Leaving'
    <3>1. \A s \in Sessions : s <= had => phase'[s] = phase[s]
      BY <2>1, <2>2, <2>3, BoundsAssumption DEF IInv, Leaving, Sessions
    <3>2. runner' > had /\ had' <= latest'
      BY <2>1, <2>2 DEF IInv, Leaving
    <3> QED BY <2>1, <2>2, <3>1, <3>2 DEF IInv, Leaving
  <2> QED BY <2>4, <2>5
<1>6. ClosedUnused'
  BY <1>0 DEF IInv, ClosedUnused, Renews, userVars, sessionVars, closeVars, serverVars, Others, Requesting
<1> QED BY <1>1, <1>2, <1>3, <1>4, <1>5, <1>6 DEF IInv

\* The session before is told to close.
LEMMA ReconnectsKeeps ==
    ASSUME NEW c \in Calls, IInv, Reconnects(c)
    PROVE  IInv'
<1>0. /\ LocalTypes' /\ Others(c) /\ pc[c] = "reopen" /\ pc'[c] = "shutdown"
      /\ \A d \in Calls : on'[d] = on[d]
  BY TypeParts DEF IInv, Reconnects, Goes, LocalTypes, Others, Places, Holding, localVars
<1>1. TypeOK'
  <2>1. OtherTypes'
    BY TypeParts DEF IInv, Reconnects, OtherTypes, serverVars
  <2>2. ClientTypes'
    BY TypeParts, BoundsAssumption
    DEF IInv, Order, Reconnects, userVars, ClientTypes, Numbers, Sessions
  <2> QED BY <1>0, <2>1, <2>2, TypeParts
<1>2. Order'
  <2>1. /\ runner' = 0 /\ latest' = latest /\ phase' = phase
        /\ retired' = retired /\ closers' = closers
    BY DEF Reconnects
  <2>2. \A s \in retired \union closers : s # 0
    BY Numbers0 DEF IInv, TypeOK
  <2> QED BY <2>1, <2>2 DEF IInv, Order
<1>3. Unentered' /\ Lock'
  BY <1>0 DEF IInv, Unentered, Lock, LockFree, Reconnects, userVars, sessionVars, closeVars, serverVars, Others, Holding
<1>4. InUse'
  <2>1. ~Renewing
    BY NobodyRenews DEF IInv, Reconnects
  <2>2. \A s \in retired : Busy(s)'
    BY <2>1, <1>0, StaysBusy DEF IInv, InUse, Requesting
  <2> QED BY <2>2 DEF Reconnects, InUse
<1>5. Owned' /\ Leaving'
  BY <1>0 DEF IInv, Owned, Leaving, Reconnects, userVars, sessionVars, closeVars, serverVars
<1>6. ClosedUnused'
  BY <1>0 DEF IInv, ClosedUnused, Reconnects, userVars, sessionVars, closeVars, serverVars, Others, Requesting
<1> QED BY <1>1, <1>2, <1>3, <1>4, <1>5, <1>6 DEF IInv

\* The session before has ended: the new one leaves nobody behind.
LEMMA OpensAgainKeeps ==
    ASSUME NEW c \in Calls, IInv, OpensAgain(c)
    PROVE  IInv'
<1>0. /\ LocalTypes' /\ Others(c) /\ pc'[c] \in {"opening", "failed"}
      /\ pc[c] \in {"shutdown", "reopen"} /\ (LockFree \/ pc[c] = "shutdown")
      /\ pc'[c] = "failed" \/ \A d \in Calls : on'[d] = on[d]
  BY TypeParts, EndsOwn DEF IInv, OpensAgain, Goes, LocalTypes, Others, Places, Holding, Finished, localVars
<1>a. /\ user' = user /\ popped' = popped /\ active' = active /\ had' = had
      /\ retired' = retired /\ closers' = closers /\ closing' = closing
      /\ runner = 0 /\ session' \in Numbers
  BY Numbers0, TypeParts DEF IInv, Lock, OpensAgain, userVars, closeVars, OtherTypes
<1>b. \/ /\ latest < MaxSessions /\ latest' = latest + 1 /\ runner' = latest + 1
         /\ phase' = [phase EXCEPT ![latest + 1] = "opening"]
      \/ latest' = latest /\ runner' = runner /\ phase' = phase
  BY DEF OpensAgain, Opens
<1>c. latest \in 0 .. MaxSessions /\ had \in 0 .. MaxSessions /\ MaxSessions \in Nat
  BY BoundsAssumption DEF IInv, TypeOK, Numbers
<1>1. TypeOK'
  <2>1. latest' \in Numbers /\ runner' \in Numbers /\ phase' \in [Sessions -> Phases]
    BY <1>b, <1>c, TypeParts DEF IInv, ClientTypes, Numbers, Sessions, Phases, Alive
  <2>2. OtherTypes'
    BY <1>a, TypeParts DEF IInv, OtherTypes, OpensAgain, serverVars
  <2> QED BY <1>0, <1>a, <2>1, <2>2, TypeParts DEF IInv, ClientTypes
<1>2. Order'
  BY <1>a, <1>b, <1>c DEF IInv, Order, Sessions, TypeOK
<1>3. Unentered' /\ Lock'
  BY <1>0, <1>a DEF IInv, Unentered, Lock, LockFree, Others, Holding
<1>4. InUse'
  <2>1. ~Renewing
    BY <1>0, NobodyRenews DEF IInv
  <2>2. \A s \in retired : Busy(s)'
    BY <2>1, <1>0, StaysBusy DEF IInv, InUse, Requesting
  <2> QED BY <2>2, <1>a DEF InUse
<1>5. Owned'
  BY <1>a, <1>b, <1>c DEF IInv, Owned, Alive, Sessions, TypeOK
<1>6. Leaving'
  BY <1>a, <1>b, <1>c DEF IInv, Leaving, Order, Alive, Sessions, TypeOK
<1>7. ClosedUnused'
  BY <1>0, <1>a DEF IInv, ClosedUnused, Others, Requesting
<1> QED BY <1>1, <1>2, <1>3, <1>4, <1>5, <1>6, <1>7 DEF IInv

\* The steps that end a renewal or a re-opening: the session that was retired
\* is closed when no call uses it.
LEMMA RenewalEnds ==
    ASSUME NEW c \in Calls, IInv, LocalTypes', OtherTypes', Others(c),
           UNCHANGED userVars, latest' = latest, CloseRetired(Replaced),
           pc[c] \in Holding \ {"shutdown"}, pc'[c] \notin Holding,
           pc'[c] \in Requesting => on'[c] = runner',
           phase' = phase, runner' \in {0, runner},
           runner' = runner \/ runner = 0 \/ phase[latest] \in Over \/ runner \in closing
    PROVE  IInv'
<1>0. /\ user' = user /\ popped' = popped /\ active' = active /\ had' = had
      /\ pc[c] \notin Requesting /\ pc[c] # "idle"
  BY DEF userVars, Holding, Requesting
<1>a. /\ TypeOK => /\ retired' \subseteq Sessions /\ closers' \subseteq Sessions
                    /\ closing' \subseteq Sessions
      /\ \A s \in retired' : s \in retired /\ Busy(s)'
      /\ \A s \in closers' \ closers : s \in retired /\ \A d \in Calls : pc[d] \in Requesting => on[d] # s
      /\ retired \subseteq retired' \union closing' /\ closing \subseteq closing'
  BY <1>0, ReplacedClosed
<1>1. TypeOK'
  <2>1. runner' \in Numbers
    BY Numbers0, TypeParts DEF IInv, ClientTypes
  <2> QED BY <1>0, <1>a, <2>1, TypeParts DEF IInv, ClientTypes
<1>2. Order'
  BY <1>a, Numbers0 DEF IInv, Order, TypeOK
<1>3. Unentered' /\ Lock'
  BY <1>0 DEF IInv, Unentered, Lock, Others, Holding
<1>4. InUse'
  BY <1>a DEF InUse
<1>5. Owned'
  BY <1>a DEF IInv, Owned, Order, Over, Alive
<1>6. Leaving'
  BY <1>0, <1>a DEF IInv, Leaving
<1>7. ClosedUnused'
  BY <1>0, <1>a, Numbers0 DEF IInv, ClosedUnused, Order, TypeOK, Others
<1> QED BY <1>1, <1>2, <1>3, <1>4, <1>5, <1>6, <1>7 DEF IInv

LEMMA OpenedKeeps ==
    ASSUME NEW c \in Calls, IInv, Opened(c)
    PROVE  IInv'
<1>1. OtherTypes' /\ runner' = runner /\ runner' \in Numbers
  BY TypeParts DEF IInv, ClientTypes, Opened, OtherTypes, serverVars
<1>2. /\ LocalTypes' /\ Others(c)
      /\ pc'[c] \in {"asked", "failed", "reopen", "token", "barrier"}
      /\ pc'[c] = "asked" => on'[c] = runner'
  BY <1>1, TypeParts, HandedOwn DEF IInv, Opened
<1>3. pc[c] \in Holding \ {"shutdown"} /\ pc'[c] \notin Holding /\ pc'[c] # "losing"
  BY <1>2 DEF Opened, Holding
<1> QED BY <1>1, <1>2, <1>3, RenewalEnds DEF Opened, Requesting

LEMMA CleanedUpKeeps ==
    ASSUME NEW c \in Calls, IInv, CleanedUp(c)
    PROVE  IInv'
<1>1. OtherTypes'
  BY TypeParts, Numbers0 DEF IInv, CleanedUp, OtherTypes, serverVars
<1>2. LocalTypes' /\ Others(c) /\ pc'[c] = "failed"
  BY TypeParts, EndsOwn DEF IInv, CleanedUp, Finished
<1>3. pc[c] \in Holding \ {"shutdown"} /\ pc'[c] \notin Holding \union Requesting
  BY <1>2 DEF CleanedUp, Holding, Requesting
<1> QED BY <1>1, <1>2, <1>3, RenewalEnds DEF CleanedUp

\* An opening that is given up hands its runner to the wait for it, or is over.
LEMMA GivesUpOpeningKeeps ==
    ASSUME NEW c \in Calls, IInv, pc[c] \in {"renewing", "opening"}, GivesUpOpening(c)
    PROVE  IInv'
<1>1. OtherTypes'
  BY TypeParts DEF IInv, GivesUpOpening, OtherTypes, serverVars
<1>2. CASE runner = 0
  <2>1. LocalTypes' /\ Others(c) /\ pc'[c] = "failed"
    BY <1>2, TypeParts, EndsOwn DEF IInv, GivesUpOpening, Finished
  <2>2. pc[c] \in Holding \ {"shutdown"} /\ pc'[c] \notin Holding \union Requesting
    BY <2>1 DEF GivesUpOpening, Holding, Requesting
  <2> QED BY <1>1, <1>2, <2>1, <2>2, RenewalEnds DEF GivesUpOpening
<1>3. CASE runner # 0
  <2>0. /\ LocalTypes' /\ Others(c) /\ pc[c] \in {"renewing", "opening"} /\ pc'[c] = "cleanup"
        /\ \A d \in Calls : on'[d] = on[d]
    BY <1>3, TypeParts DEF IInv, GivesUpOpening, Goes, LocalTypes, Others, Places, Holding, localVars
  <2>a. /\ user' = user /\ popped' = popped /\ active' = active /\ had' = had
        /\ retired' = retired /\ closers' = closers /\ closing' = closing \union {runner}
        /\ latest' = latest /\ runner' = 0
        /\ phase' = [phase EXCEPT ![runner] = IF @ \in Over THEN @ ELSE "dropping"]
    BY <1>3 DEF GivesUpOpening, userVars
  <2>b. runner = latest /\ runner \in Sessions /\ latest \in Nat
    BY <1>3, BoundsAssumption DEF IInv, Order, TypeOK, Numbers, Sessions
  <2>1. TypeOK'
    <3>1. phase' \in [Sessions -> Phases]
      BY <2>a, TypeParts DEF IInv, ClientTypes, Phases, Alive, Over
    <3> QED BY <1>1, <2>0, <2>a, <2>b, <3>1, Numbers0, TypeParts DEF IInv, ClientTypes
  <2>2. Order'
    <3>1. \A s \in Sessions : s > latest => phase'[s] = "none"
      BY <2>a, <2>b DEF IInv, Order, TypeOK, Sessions
    <3> QED BY <2>a, <3>1, Numbers0 DEF IInv, Order, TypeOK
  <2>3. Unentered' /\ Lock'
    BY <2>0, <2>a DEF IInv, Unentered, Lock, Others, Holding
  <2>4. InUse'
    <3>1. \A s \in retired : Busy(s) => Busy(s)'
      BY <2>0, StaysBusy DEF Requesting
    <3>2. Renewing'
      BY <2>0 DEF Renewing
    <3> QED BY <2>a, <3>1, <3>2 DEF IInv, InUse
  <2>5. \A s \in Sessions : s # runner => phase'[s] = phase[s]
    BY <2>a DEF IInv, TypeOK
  <2>6. Owned' /\ Leaving'
    BY <2>a, <2>5 DEF IInv, Owned, Leaving
  <2>7. ClosedUnused'
    BY <2>0, <2>a DEF IInv, ClosedUnused, Others, Requesting
  <2> QED BY <2>1, <2>2, <2>3, <2>4, <2>6, <2>7 DEF IInv
<1> QED BY <1>2, <1>3


\* The first session is opened.
LEMMA EnterKeeps ==
    ASSUME IInv, Enter
    PROVE  IInv'
<1>0. /\ LocalTypes' /\ pc' = pc /\ on' = on
      /\ OtherTypes'
  BY TypeParts, Numbers0 DEF IInv, Enter, LocalTypes, OtherTypes, localVars, sessionVars, serverVars
<1>1. TypeOK'
  <2>1. ClientTypes'
    BY TypeParts, Numbers0, BoundsAssumption
    DEF IInv, Order, Unentered, Enter, Opens, closeVars, sessionVars, ClientTypes, Numbers, Sessions, Phases, Alive
  <2> QED BY <1>0, <2>1, TypeParts
<1>2. Order'
  BY TypeParts, BoundsAssumption
  DEF IInv, Order, Unentered, Enter, Opens, closeVars, sessionVars, ClientTypes, Numbers, Sessions
<1>3. Unentered' /\ Lock'
  BY <1>0 DEF IInv, Unentered, Lock, Enter, Opens, sessionVars, Holding
<1>4. InUse'
  BY <1>0, TypeParts DEF IInv, InUse, Busy, Renewing, Order, Unentered, Enter, Opens, closeVars, sessionVars, ClientTypes, Sessions, Numbers
<1>5. Owned'
  BY TypeParts, BoundsAssumption
  DEF IInv, Owned, Order, Unentered, Enter, Opens, closeVars, sessionVars, ClientTypes, Alive, Over, Sessions, Numbers
<1>6. Leaving'
  BY TypeParts, BoundsAssumption
  DEF IInv, Leaving, Owned, Order, Unentered, Enter, Opens, closeVars, sessionVars, ClientTypes, Alive, Over, Sessions, Numbers
<1>7. ClosedUnused'
  BY <1>0, TypeParts DEF IInv, ClosedUnused, InUse, Order, Unentered, Enter, Opens, closeVars, sessionVars, ClientTypes, Requesting, Sessions
<1> QED BY <1>1, <1>2, <1>3, <1>4, <1>5, <1>6, <1>7 DEF IInv

\* The client is entered.
LEMMA EnteredKeeps ==
    ASSUME IInv, Entered
    PROVE  IInv'
<1>0. /\ LocalTypes' /\ pc' = pc /\ on' = on
      /\ OtherTypes'
  BY TypeParts, Numbers0 DEF IInv, Entered, LocalTypes, OtherTypes, localVars, sessionVars, serverVars
<1>1. TypeOK'
  <2>1. ClientTypes'
    BY TypeParts, Numbers0, BoundsAssumption
    DEF IInv, Order, Unentered, Entered, closeVars, sessionVars, ClientTypes, Numbers, Sessions, Phases, Alive
  <2> QED BY <1>0, <2>1, TypeParts
<1>2. Order'
  BY TypeParts, BoundsAssumption
  DEF IInv, Order, Unentered, Entered, closeVars, sessionVars, ClientTypes, Numbers, Sessions
<1>3. Unentered' /\ Lock'
  BY <1>0 DEF IInv, Unentered, Lock, Entered, sessionVars, Holding
<1>4. InUse'
  BY <1>0, TypeParts DEF IInv, InUse, Busy, Renewing, Order, Unentered, Entered, closeVars, sessionVars, ClientTypes, Sessions, Numbers
<1>5. Owned'
  BY TypeParts, BoundsAssumption
  DEF IInv, Owned, Order, Unentered, Entered, closeVars, sessionVars, ClientTypes, Alive, Over, Sessions, Numbers
<1>6. Leaving'
  BY TypeParts, BoundsAssumption
  DEF IInv, Leaving, Owned, Order, Unentered, Entered, closeVars, sessionVars, ClientTypes, Alive, Over, Sessions, Numbers
<1>7. ClosedUnused'
  <2>1. \A c \in Calls : pc[c] \notin Requesting
    BY DEF IInv, Unentered, Entered, Requesting
  <2> QED BY <1>0, <2>1 DEF ClosedUnused, Entered
<1> QED BY <1>1, <1>2, <1>3, <1>4, <1>5, <1>6, <1>7 DEF IInv

\* Or it is not.
LEMMA EnterFailsKeeps ==
    ASSUME IInv, EnterFails
    PROVE  IInv'
<1>0. /\ LocalTypes' /\ pc' = pc /\ on' = on
      /\ OtherTypes'
  BY TypeParts, Numbers0 DEF IInv, EnterFails, LocalTypes, OtherTypes, localVars, sessionVars, serverVars
<1>1. TypeOK'
  <2>1. ClientTypes'
    BY TypeParts, Numbers0, BoundsAssumption
    DEF IInv, Order, Unentered, EnterFails, closeVars, sessionVars, ClientTypes, Numbers, Sessions, Phases, Alive
  <2> QED BY <1>0, <2>1, TypeParts
<1>2. Order'
  BY TypeParts, BoundsAssumption
  DEF IInv, Order, Unentered, EnterFails, closeVars, sessionVars, ClientTypes, Numbers, Sessions
<1>3. Unentered' /\ Lock'
  BY <1>0 DEF IInv, Unentered, Lock, EnterFails, sessionVars, Holding
<1>4. InUse'
  BY <1>0, TypeParts DEF IInv, InUse, Busy, Renewing, Order, Unentered, EnterFails, closeVars, sessionVars, ClientTypes, Sessions, Numbers
<1>5. Owned'
  BY TypeParts, BoundsAssumption
  DEF IInv, Owned, Order, Unentered, EnterFails, closeVars, sessionVars, ClientTypes, Alive, Over, Sessions, Numbers
<1>6. Leaving'
  BY TypeParts, BoundsAssumption
  DEF IInv, Leaving, Owned, Order, Unentered, EnterFails, closeVars, sessionVars, ClientTypes, Alive, Over, Sessions, Numbers
<1>7. ClosedUnused'
  BY <1>0, TypeParts DEF IInv, ClosedUnused, InUse, Order, Unentered, EnterFails, closeVars, sessionVars, ClientTypes, Requesting, Sessions
<1> QED BY <1>1, <1>2, <1>3, <1>4, <1>5, <1>6, <1>7 DEF IInv

\* __aexit__ takes the current session.
LEMMA ExitBeginsKeeps ==
    ASSUME IInv, ExitBegins
    PROVE  IInv'
<1>0. /\ LocalTypes' /\ pc' = pc /\ on' = on
      /\ OtherTypes'
  BY TypeParts, Numbers0 DEF IInv, ExitBegins, LocalTypes, OtherTypes, localVars, sessionVars, serverVars
<1>1. TypeOK'
  <2>0. /\ user' \in {"exiting", "closing"} /\ popped' = runner /\ active' = FALSE
        /\ had' = latest /\ runner' = 0 /\ latest' = latest /\ phase' = phase
    BY DEF ExitBegins
  <2>1. CASE runner # 0
    <3>1. runner \in Sessions
      BY <2>1, TypeParts, BoundsAssumption DEF IInv, ClientTypes, Numbers, Sessions
    <3>2. retired' = retired /\ closers' = closers /\ closing' = closing \union {runner}
      BY <2>1 DEF ExitBegins
    <3> QED BY <1>0, <2>0, <3>1, <3>2, Numbers0, TypeParts DEF IInv, ClientTypes
  <2>2. CASE runner = 0
    <3>1. /\ retired' = {} /\ closers' = closers \union retired
          /\ closing' = closing \union retired
      BY <2>2 DEF ExitBegins, CloseRetired, ClosedAtExit
    <3> QED BY <1>0, <2>0, <3>1, Numbers0, TypeParts DEF IInv, ClientTypes
  <2> QED BY <2>1, <2>2
<1>2. Order'
  BY TypeParts, BoundsAssumption
  DEF IInv, Order, Unentered, ExitBegins, CloseRetired, ClosedAtExit, closeVars, sessionVars, ClientTypes, Numbers, Sessions
<1>3. Unentered' /\ Lock'
  BY <1>0 DEF IInv, Unentered, Lock, ExitBegins, CloseRetired, ClosedAtExit, sessionVars, Holding
<1>4. InUse'
  BY <1>0, TypeParts DEF IInv, InUse, Busy, Renewing, Order, Unentered, ExitBegins, CloseRetired, ClosedAtExit, closeVars, sessionVars, ClientTypes, Sessions, Numbers
<1>5. Owned'
  BY TypeParts, BoundsAssumption
  DEF IInv, Owned, Order, Unentered, ExitBegins, CloseRetired, ClosedAtExit, closeVars, sessionVars, ClientTypes, Alive, Over, Sessions, Numbers
<1>6. Leaving'
  BY TypeParts, BoundsAssumption
  DEF IInv, Leaving, Owned, Order, Unentered, ExitBegins, CloseRetired, ClosedAtExit, closeVars, sessionVars, ClientTypes, Alive, Over, Sessions, Numbers
<1>7. ClosedUnused'
  BY <1>0, TypeParts DEF IInv, ClosedUnused, InUse, Order, Unentered, ExitBegins, CloseRetired, ClosedAtExit, closeVars, sessionVars, ClientTypes, Requesting, Sessions
<1> QED BY <1>1, <1>2, <1>3, <1>4, <1>5, <1>6, <1>7 DEF IInv

\* It closes the retired ones.
LEMMA ExitClosesKeeps ==
    ASSUME IInv, ExitCloses
    PROVE  IInv'
<1>0. /\ LocalTypes' /\ pc' = pc /\ on' = on
      /\ OtherTypes'
  BY TypeParts, Numbers0 DEF IInv, ExitCloses, LocalTypes, OtherTypes, localVars, sessionVars, serverVars
<1>1. TypeOK'
  <2>1. ClientTypes'
    BY TypeParts, Numbers0, BoundsAssumption
    DEF IInv, Order, Unentered, ExitCloses, CloseRetired, ClosedAtExit, closeVars, sessionVars, ClientTypes, Numbers, Sessions, Phases, Alive
  <2> QED BY <1>0, <2>1, TypeParts
<1>2. Order'
  BY TypeParts, BoundsAssumption
  DEF IInv, Order, Unentered, ExitCloses, CloseRetired, ClosedAtExit, closeVars, sessionVars, ClientTypes, Numbers, Sessions
<1>3. Unentered' /\ Lock'
  BY <1>0 DEF IInv, Unentered, Lock, ExitCloses, CloseRetired, ClosedAtExit, sessionVars, Holding
<1>4. InUse'
  BY <1>0, TypeParts DEF IInv, InUse, Busy, Renewing, Order, Unentered, ExitCloses, CloseRetired, ClosedAtExit, closeVars, sessionVars, ClientTypes, Sessions, Numbers
<1>5. Owned'
  BY TypeParts, BoundsAssumption
  DEF IInv, Owned, Order, Unentered, ExitCloses, CloseRetired, ClosedAtExit, closeVars, sessionVars, ClientTypes, Alive, Over, Sessions, Numbers
<1>6. Leaving'
  BY TypeParts, BoundsAssumption
  DEF IInv, Leaving, Owned, Order, Unentered, ExitCloses, CloseRetired, ClosedAtExit, closeVars, sessionVars, ClientTypes, Alive, Over, Sessions, Numbers
<1>7. ClosedUnused'
  BY <1>0, TypeParts DEF IInv, ClosedUnused, InUse, Order, Unentered, ExitCloses, CloseRetired, ClosedAtExit, closeVars, sessionVars, ClientTypes, Requesting, Sessions
<1> QED BY <1>1, <1>2, <1>3, <1>4, <1>5, <1>6, <1>7 DEF IInv

\* The closing of a retired session ends, or __aexit__ does.
LEMMA ClosingKeeps ==
    ASSUME IInv, Exited \/ \E s \in Sessions : CloserEnds(s)
    PROVE  IInv'
<1>0. /\ active' = active /\ had' = had /\ popped' = popped /\ closers' \subseteq closers
      /\ user' = user \/ (user = "closing" /\ user' = "exited")
      /\ retired' = retired /\ closing' = closing /\ pc' = pc
      /\ UNCHANGED sessionVars /\ UNCHANGED serverVars /\ UNCHANGED localVars
  BY DEF Exited, CloserEnds, userVars, closeVars
<1>1. TypeOK'
  BY <1>0, TypeParts DEF IInv, LocalTypes, OtherTypes, ClientTypes, sessionVars, serverVars, localVars
<1>2. Order'
  BY <1>0 DEF IInv, Order, sessionVars
<1>3. Unentered' /\ Lock' /\ InUse' /\ ClosedUnused'
  BY <1>0 DEF IInv, Unentered, Lock, InUse, Busy, Renewing, ClosedUnused, sessionVars, localVars
<1>4. Owned' /\ Leaving'
  BY <1>0 DEF IInv, Owned, Leaving, sessionVars
<1> QED BY <1>1, <1>2, <1>3, <1>4 DEF IInv

\* The steps of a call that leave the session alone.
LEMMA CallKeeps ==
    ASSUME NEW c \in Calls, IInv,
           \/ Begin(c) \/ GetsToken(c) \/ SkipsRenewal(c) \/ SharesReconnect(c) \/ Barrier(c)
           \/ Runs(c) \/ Cancelled(c)
    PROVE  IInv'
<1>1. /\ UNCHANGED userVars /\ UNCHANGED sessionVars /\ UNCHANGED closeVars
      /\ UNCHANGED serverVars
  BY DEF Begin, GetsToken, SkipsRenewal, SharesReconnect, Barrier, Runs, Cancelled
<1>2. OtherTypes' /\ runner' \in Numbers /\ runner' = runner
  BY <1>1, TypeParts DEF IInv, OtherTypes, ClientTypes, sessionVars, serverVars
<1>3. ASSUME Live(c) \/ Lives(c) \/ Requires(c) \/ Reopened(c),
             pc[c] \in {"idle", "token", "renew", "reopen", "barrier"},
             pc[c] = "idle" => user \notin {"out", "entering"}
      PROVE  IInv'
  <2>1. /\ LocalTypes' /\ Others(c)
        /\ pc'[c] \in {"asked", "failed", "reopen", "token", "barrier"}
        /\ pc'[c] = "asked" => on'[c] = runner
    BY <1>2, <1>3, TypeParts, HandedOwn DEF IInv
  <2>2. /\ pc[c] \notin {"renewing", "cleanup"} /\ pc[c] \notin Requesting
        /\ pc'[c] \notin Holding
        /\ pc'[c] \in Requesting => on'[c] = runner
    BY <1>3, <2>1 DEF Holding, Requesting
  <2> QED BY <1>1, <1>2, <1>3, <2>1, <2>2, CallMoves
<1>4. CASE GetsToken(c) /\ AsksFor(c, "renew")
  <2>1. LocalTypes' /\ Others(c) /\ pc'[c] = "renew" /\ pc[c] = "token"
    BY <1>2, <1>4, TypeParts DEF IInv, GetsToken, AsksFor, Goes, LocalTypes, OtherTypes, Others, Places
  <2>2. pc[c] \notin Requesting /\ pc'[c] \notin Holding \union Requesting
    BY <2>1 DEF Holding, Requesting
  <2> QED BY <1>1, <1>2, <2>1, <2>2, CallMoves
<1>5. CASE Runs(c)
  <2>1. LocalTypes' /\ Others(c) /\ pc' = pc /\ on' = on /\ pc[c] = "asked"
    BY <1>5, TypeParts DEF IInv, Runs, LocalTypes, Others
  <2>2. pc'[c] \notin Holding
    BY <2>1 DEF Holding
  <2> QED BY <1>1, <1>2, <2>1, <2>2, CallMoves
<1>6. CASE Cancelled(c)
  <2>1. LocalTypes' /\ Others(c) /\ pc'[c] = "failed"
    BY <1>6, TypeParts, EndsOwn DEF IInv, Cancelled, Finished
  <2>2. /\ pc[c] \notin Requesting \union {"renewing", "cleanup", "idle"}
        /\ pc'[c] \notin Holding \union Requesting
    BY <1>6, <2>1 DEF Cancelled, Holding, Requesting
  <2> QED BY <1>1, <1>2, <2>1, <2>2, CallMoves
<1> QED BY <1>3, <1>4, <1>5, <1>6 DEF Begin, GetsToken, SkipsRenewal, SharesReconnect, Barrier

\* The steps that end a request, or that find it lost.
LEMMA RequestKeeps ==
    ASSUME NEW c \in Calls, IInv,
           \/ Returns(c) \/ NotFound(c) \/ ConnectionClosed(c) \/ Loses(c)
           \/ RequestCancelled(c)
    PROVE  IInv'
<1>1. ASSUME Leaves(c), pc[c] \in Requesting, NEW place \in Finished, Ends(c, place)
      PROVE  IInv'
  <2>1. LocalTypes' /\ Others(c) /\ pc'[c] = place
    BY <1>1, TypeParts, EndsOwn DEF IInv
  <2>2. pc'[c] \notin Holding \union Requesting
    BY <2>1 DEF Finished, Holding, Requesting
  <2> QED BY <1>1, <2>1, <2>2, CallLeaves
<1>2. ASSUME NEW place \in {"reopen", "barrier"}, SendsAgain(c, place), pc[c] \in Requesting,
             refused' \subseteq refused \union {c}
      PROVE  IInv'
  <2>1. LocalTypes' /\ Others(c) /\ pc'[c] = place
    BY <1>2, TypeParts, Numbers0 DEF IInv, SendsAgain, Goes, LocalTypes, Others, Places
  <2>2. pc'[c] \notin Holding \union Requesting
    BY <2>1 DEF Holding, Requesting
  <2> QED BY <1>2, <2>1, <2>2, CallLeaves DEF SendsAgain
<1>3. CASE ConnectionClosed(c) /\ on[c] # 0
  <2>1. /\ UNCHANGED userVars /\ UNCHANGED sessionVars /\ UNCHANGED closeVars
        /\ UNCHANGED serverVars /\ UNCHANGED localVars
        /\ pc[c] = "asked" /\ Goes(c, "losing")
    BY <1>3 DEF ConnectionClosed
  <2>2. LocalTypes' /\ Others(c) /\ pc'[c] = "losing" /\ on' = on /\ OtherTypes'
    BY <2>1, TypeParts DEF IInv, Goes, LocalTypes, OtherTypes, Others, Places, Requesting,
       sessionVars, serverVars, localVars
  <2>3. pc[c] \in Requesting /\ pc'[c] \in Requesting /\ pc'[c] \notin Holding
    BY <2>1, <2>2 DEF Requesting, Holding
  <2> QED BY <2>1, <2>2, <2>3, CallMoves
<1>4. ASSUME Fails(c), pc[c] \in Requesting PROVE IInv'
  BY <1>1, <1>4 DEF Fails, Finished
<1>5. "asked" \in Requesting /\ "losing" \in Requesting
  BY DEF Requesting
<1>6. CASE Returns(c)
  BY <1>1, <1>5, <1>6 DEF Returns, Finished
<1>7. CASE NotFound(c)
  BY <1>2, <1>4, <1>5, <1>7 DEF NotFound
<1>8. CASE ConnectionClosed(c) /\ on[c] = 0
  BY <1>4, <1>5, <1>8 DEF ConnectionClosed
<1>9. CASE Loses(c)
  BY <1>2, <1>4, <1>5, <1>9 DEF Loses, RunnerFirst
<1>10. CASE RequestCancelled(c)
  BY <1>4, <1>10 DEF RequestCancelled
<1> QED BY <1>3, <1>6, <1>7, <1>8, <1>9, <1>10

\* The steps of a runner and of the server.
LEMMA RunnerKeeps ==
    ASSUME IInv,
           \/ TokenRenewed
           \/ \E s \in Sessions : Handshake(s) \/ Drops(s) \/ RunnerEnds(s) \/ Forgets(s)
    PROVE  IInv'
<1>0. phase \in [Sessions -> Phases] /\ OtherTypes
  BY TypeParts DEF IInv, ClientTypes
<1>1. CASE TokenRenewed
  <2>1. OtherTypes'
    BY <1>0, <1>1, BoundsAssumption DEF TokenRenewed, OtherTypes, sessionVars
  <2> QED BY <1>0, <1>1, <2>1, RunnerMoves DEF TokenRenewed, sessionVars
<1>2. ASSUME NEW s \in Sessions, Forgets(s) PROVE IInv'
  <2>1. OtherTypes'
    BY <1>0, <1>2 DEF Forgets, OtherTypes, sessionVars
  <2> QED BY <1>0, <1>2, <2>1, RunnerMoves DEF Forgets, sessionVars
<1>3. ASSUME NEW s \in Sessions, Handshake(s) \/ Drops(s) \/ RunnerEnds(s) PROVE IInv'
  <2>1. OtherTypes'
    BY <1>0, <1>3, Numbers0 DEF Handshake, HandshakeDone, HandshakeFails, Drops, RunnerEnds,
       Cleared, OtherTypes, serverVars
  <2>2. /\ UNCHANGED <<runner, latest, generation, pc>>
        /\ UNCHANGED userVars /\ UNCHANGED closeVars /\ UNCHANGED localVars
        /\ phase[s] \in Alive
        /\ \E next \in Phases \ {"none"} : phase' = [phase EXCEPT ![s] = next]
    BY <1>3 DEF Handshake, HandshakeDone, HandshakeFails, Drops, RunnerEnds, Moves, Phases, Alive, Over
  <2>3. PICK next \in Phases \ {"none"} : phase' = [phase EXCEPT ![s] = next]
    BY <2>2
  <2>4. /\ phase' \in [Sessions -> Phases]
        /\ \A r \in Sessions : phase'[r] \in Alive => phase[r] \in Alive
        /\ \A r \in Sessions : phase[r] = "none" => phase'[r] = "none"
    BY <1>0, <2>2, <2>3 DEF Alive
  <2> QED BY <2>1, <2>2, <2>4, RunnerMoves
<1> QED BY <1>1, <1>2, <1>3

-----------------------------------------------------------------------------
(* Theorems *)

LEMMA Initially == Init => IInv
<1> SUFFICES ASSUME Init PROVE IInv
  OBVIOUS
<1>1. TypeOK
  <2>1. "none" \in Phases /\ "idle" \in Places
    BY DEF Phases, Places
  <2>2. LocalTypes
    BY <2>1, Numbers0 DEF Init, LocalTypes
  <2>3. OtherTypes
    <3>1. 0 \in 0 .. MaxRenewals /\ 0 \in Nat
      BY BoundsAssumption
    <3>2. /\ session = 0 /\ generation = 0 /\ known = {} /\ stale = FALSE /\ renewals = 0
          /\ provided \in BOOLEAN
      BY DEF Init
    <3> QED BY <3>1, <3>2, Numbers0 DEF OtherTypes
  <2>4. ClientTypes
    BY <2>1, Numbers0 DEF Init, ClientTypes
  <2> QED BY <2>2, <2>3, <2>4, TypeParts
<1>2. Order /\ Unentered /\ Owned
  BY DEF Init, Order, Unentered, Owned, Alive
<1>3. Lock
  BY DEF Init, Lock, Holding
<1>4. InUse
  BY DEF Init, InUse
<1>5. ClosedUnused /\ Leaving
  BY DEF Init, ClosedUnused, Leaving
<1> QED BY <1>1, <1>2, <1>3, <1>4, <1>5 DEF IInv

\* The inductive invariant.
THEOREM Inductive == Spec => []IInv
<1>1. IInv /\ [Next]_vars => IInv'
  <2> SUFFICES ASSUME IInv, [Next]_vars PROVE IInv'
    OBVIOUS
  <2>1. ASSUME NEW c \in Calls, Call(c) PROVE IInv'
    <3>1. CASE OpenFails(c) \/ OpeningCancelled(c)
      BY <2>1, <3>1, GivesUpOpeningKeeps DEF OpenFails, OpeningCancelled
    <3> QED
      BY <2>1, <3>1, CallKeeps, RequestKeeps, RenewsKeeps, ReconnectsKeeps, OpensAgainKeeps,
         OpenedKeeps, CleanedUpKeeps
      DEF Call, Proceeds
  <2>2. ASSUME NEW s \in Sessions, Runner(s) PROVE IInv'
    BY <2>2, RunnerKeeps, ClosingKeeps DEF Runner
  <2>3. CASE TokenRenewed
    BY <2>3, RunnerKeeps
  <2>4. CASE User
    BY <2>4, EnterKeeps, EnteredKeeps, EnterFailsKeeps, ExitBeginsKeeps, ExitClosesKeeps,
       ClosingKeeps DEF User
  <2>5. CASE UNCHANGED vars
    <3>1. /\ UNCHANGED <<runner, latest, generation, pc>> /\ phase' = phase
          /\ UNCHANGED userVars /\ UNCHANGED closeVars /\ UNCHANGED localVars
          /\ session' = session /\ UNCHANGED serverVars
      BY <2>5 DEF vars, userVars, closeVars, localVars, serverVars
    <3>2. OtherTypes' /\ phase' \in [Sessions -> Phases]
      BY <3>1, TypeParts DEF IInv, OtherTypes, ClientTypes, serverVars
    <3> QED BY <3>1, <3>2, RunnerMoves
  <2> QED BY <2>1, <2>2, <2>3, <2>4, <2>5 DEF Next
<1> QED BY Initially, <1>1, PTL DEF Spec

\* Every variable has its type, however many calls and sessions there are.
THEOREM TypeCorrect == Spec => []TypeOK
<1>1. IInv => TypeOK
  BY DEF IInv
<1> QED BY <1>1, Inductive, PTL

\* No session is left open with nobody to close it.
THEOREM SessionsHaveOwners == Spec => []NoOrphan
<1>1. IInv => NoOrphan
  BY DEF IInv, Owned, InUse, Busy, Renewing, On, NoOrphan
<1> QED BY <1>1, Inductive, PTL

\* __aexit__ leaves no session open that was open when it began.
THEOREM ExitIsComplete == Spec => []ExitLeavesNothing
<1>1. IInv => ExitLeavesNothing
  BY DEF IInv, Leaving, ExitLeavesNothing
<1> QED BY <1>1, Inductive, PTL

\* The calls on a retired session finish there.
THEOREM RetiredSessionsFinish == Spec => []RetiredFinishes
<1>1. IInv => RetiredFinishes
  BY DEF IInv, ClosedUnused, On, RetiredFinishes
<1> QED BY <1>1, Inductive, PTL

-----------------------------------------------------------------------------
(* Re-initialisation of a session that is gone *)

Opener == \E c \in Calls : pc[c] \in {"renewing", "opening"}
Joined == active \/ user = "entering"

\* Only the current session can be in its handshake, and somebody waits for it.
OneHandshake ==
    Joined => \A s \in Sessions : phase[s] = "opening" => s = runner /\ (Opener \/ user = "entering")

\* After its handshake the current session is the one calls get, until it ends.
Handed ==
    Joined /\ runner # 0 /\ phase[runner] # "opening" =>
        session \in {0, runner} /\ (phase[runner] = "up" => session = runner)

\* Between two openings, the requests of a generation are on its session, and
\* the calls that want it re-opened found it gone.
SeenBefore == \A c \in Calls : seen[c] <= generation
AskedCurrent ==
    active /\ ~Opener => \A c \in Calls :
        pc[c] = "asked" /\ seen[c] = generation => runner \in {0, using[c]}
ReopensGone ==
    active /\ ~Opener => \A c \in Calls :
        pc[c] = "reopen" /\ seen[c] = generation
            => runner = 0 \/ phase[runner] # "up" \/ runner \notin known


\* The runner of a cancelled opening is not the client's any more.
CleanupAlone == \A c \in Calls : pc[c] = "cleanup" => runner = 0

HInv == OneHandshake /\ Handed /\ SeenBefore /\ AskedCurrent /\ ReopensGone /\ CleanupAlone

LEMMA GoneParts == HInv =>
    OneHandshake /\ Handed /\ SeenBefore /\ AskedCurrent /\ ReopensGone /\ CleanupAlone
BY DEF HInv

\* Another call keeps what it has.
Apart(c) == \A d \in Calls \ {c} : pc'[d] = pc[d] /\ using'[d] = using[d] /\ seen'[d] = seen[d]

\* What a call holds of the session that is handed to it.
Gets(c) ==
    /\ Apart(c) /\ pc'[c] \notin Holding
    /\ seen'[c] \in {0, seen[c], generation'}
    /\ pc'[c] = "asked" => using'[c] = session' /\ session' # 0
    /\ pc'[c] = "reopen" => session' = 0 /\ active'

LEMMA EndsApart ==
    ASSUME NEW c \in Calls, LocalTypes, Ends(c, "failed") \/ Ends(c, "returned")
    PROVE  Apart(c) /\ pc'[c] \in Finished /\ seen'[c] = 0
BY DEF Ends, Goes, LocalTypes, Apart, Finished

LEMMA GetsSession ==
    ASSUME NEW c \in Calls, LocalTypes, Live(c) \/ Lives(c) \/ Requires(c) \/ Reopened(c)
    PROVE  Gets(c)
<1>1. ASSUME Ends(c, "failed") PROVE Gets(c)
  BY <1>1, EndsApart DEF Gets, Holding, Finished
<1>2. ASSUME Sends(c) PROVE Gets(c)
  BY <1>2 DEF Sends, Goes, LocalTypes, Gets, Apart, Holding
<1>3. ASSUME AsksFor(c, "reopen"), session' = 0, active' PROVE Gets(c)
  BY <1>3 DEF AsksFor, Goes, LocalTypes, Gets, Apart, Holding
<1>4. ASSUME Goes(c, "token"), UNCHANGED localVars PROVE Gets(c)
  BY <1>4 DEF Goes, LocalTypes, Gets, Apart, Holding, localVars
<1>5. ASSUME Goes(c, "barrier"), UNCHANGED <<on, using, seen, again, served>> PROVE Gets(c)
  BY <1>5 DEF Goes, LocalTypes, Gets, Apart, Holding
<1> QED BY <1>1, <1>2, <1>3, <1>4, <1>5 DEF Live, Lives, Requires, Reopened

\* A call moves on and the session stays.
LEMMA CallMovesGone ==
    ASSUME NEW c \in Calls, IInv, HInv, Apart(c),
           user' = user, active' = active, runner' = runner, session' = session,
           generation' = generation, phase' = phase, known' = known,
           pc[c] \notin {"renewing", "opening"}, pc'[c] \notin Holding,
           seen'[c] \in {0, seen[c], generation},
           pc'[c] = "asked" => \/ using'[c] = session /\ session # 0
                               \/ pc[c] = "asked" /\ using'[c] = using[c] /\ seen'[c] = seen[c],
           pc'[c] = "reopen" => \/ session = 0 /\ active
                                \/ pc[c] = "asked" /\ using[c] \notin known /\ seen'[c] = seen[c]
    PROVE  HInv'
<1>1. Opener' <=> Opener
  BY DEF Opener, Apart, Holding
<1>2. OneHandshake' /\ Handed'
  BY <1>1, GoneParts DEF OneHandshake, Handed, Joined
<1>3. SeenBefore'
  <2>1. generation \in Nat /\ seen \in [Calls -> Nat]
    BY DEF IInv, TypeOK
  <2> QED BY <2>1, GoneParts DEF SeenBefore, Apart
<1>4. CleanupAlone'
  BY GoneParts DEF CleanupAlone, Apart, Holding
<1>5. ASSUME active, ~Opener, runner # 0
      PROVE  session \in {0, runner} /\ (phase[runner] = "up" => session = runner)
  <2>1. user # "entering" /\ runner \in Sessions
    BY <1>5, BoundsAssumption DEF IInv, ClosedUnused, TypeOK, Numbers, Sessions
  <2>2. phase[runner] # "opening"
    BY <1>5, <2>1, GoneParts DEF OneHandshake, Joined
  <2> QED BY <1>5, <2>2, GoneParts DEF Handed, Joined
<1>6. AskedCurrent'
  <2> SUFFICES ASSUME active, ~Opener, NEW d \in Calls, pc'[d] = "asked", seen'[d] = generation
               PROVE  runner \in {0, using'[d]}
    BY <1>1 DEF AskedCurrent
  <2>1. CASE d # c
    BY <2>1, GoneParts DEF AskedCurrent, Apart
  <2>2. CASE d = c
    BY <1>5, <2>2, GoneParts DEF AskedCurrent
  <2> QED BY <2>1, <2>2
<1>7. ReopensGone'
  <2> SUFFICES ASSUME active, ~Opener, NEW d \in Calls, pc'[d] = "reopen", seen'[d] = generation
               PROVE  runner = 0 \/ phase[runner] # "up" \/ runner \notin known
    BY <1>1 DEF ReopensGone
  <2>1. CASE d # c
    BY <2>1, GoneParts DEF ReopensGone, Apart
  <2>2. CASE d = c
    BY <1>5, <2>2, GoneParts DEF AskedCurrent
  <2> QED BY <2>1, <2>2
<1> QED BY <1>2, <1>3, <1>4, <1>6, <1>7 DEF HInv

\* The steps of a call that neither opens nor closes a session.
LEMMA CallKeepsGone ==
    ASSUME NEW c \in Calls, IInv, HInv,
           \/ Begin(c) \/ GetsToken(c) \/ SkipsRenewal(c) \/ SharesReconnect(c) \/ Barrier(c)
           \/ Runs(c) \/ Cancelled(c)
           \/ Returns(c) \/ NotFound(c) \/ ConnectionClosed(c) \/ Loses(c) \/ RequestCancelled(c)
    PROVE  HInv'
<1>0. LocalTypes
  BY TypeParts DEF IInv
<1> DEFINE Still == /\ user' = user /\ active' = active /\ runner' = runner /\ session' = session
                    /\ generation' = generation /\ phase' = phase /\ known' = known
<1>1. Still
  BY DEF Begin, GetsToken, SkipsRenewal, SharesReconnect, Barrier, Runs, Cancelled, Returns,
         NotFound, ConnectionClosed, Loses, RequestCancelled, Fails, Leaves, SendsAgain,
         userVars, sessionVars, serverVars
<1>2. pc[c] \notin {"renewing", "opening"}
  BY DEF Begin, GetsToken, SkipsRenewal, SharesReconnect, Barrier, Runs, Cancelled, Returns,
         NotFound, ConnectionClosed, Loses, RunnerFirst, RequestCancelled, Requesting
<1>3. ASSUME Live(c) \/ Lives(c) \/ Requires(c) \/ Reopened(c) PROVE HInv'
  <2>1. Gets(c)
    BY <1>0, <1>3, GetsSession
  <2> QED BY <1>1, <1>2, <2>1, CallMovesGone DEF Gets
<1>4. ASSUME Ends(c, "failed") \/ Ends(c, "returned") PROVE HInv'
  <2>1. Apart(c) /\ pc'[c] \notin Holding /\ pc'[c] \notin {"asked", "reopen"} /\ seen'[c] = 0
    BY <1>0, <1>4, EndsApart DEF Finished, Holding
  <2> QED BY <1>1, <1>2, <2>1, CallMovesGone
<1>5. ASSUME AsksFor(c, "renew") PROVE HInv'
  <2>1. Apart(c) /\ pc'[c] = "renew" /\ seen'[c] = generation
    BY <1>0, <1>1, <1>5 DEF AsksFor, Goes, LocalTypes, Apart
  <2> QED BY <1>1, <1>2, <2>1, CallMovesGone DEF Holding
<1>6. ASSUME NEW place \in {"reopen", "barrier"}, SendsAgain(c, place), pc[c] \in Requesting,
             place = "reopen" => pc[c] = "asked" /\ using[c] \notin known
      PROVE  HInv'
  <2>1. Apart(c) /\ pc'[c] = place /\ seen'[c] = seen[c]
    BY <1>0, <1>6 DEF SendsAgain, Goes, LocalTypes, Apart
  <2>2. place \notin Holding /\ place # "asked"
    BY DEF Holding
  <2> QED BY <1>1, <1>2, <1>6, <2>1, <2>2, CallMovesGone
<1>7. ASSUME Goes(c, "losing"), UNCHANGED localVars PROVE HInv'
  <2>1. Apart(c) /\ pc'[c] = "losing" /\ seen'[c] = seen[c]
    BY <1>0, <1>7 DEF Goes, LocalTypes, Apart, localVars
  <2> QED BY <1>1, <1>2, <2>1, CallMovesGone DEF Holding
<1>8. CASE Runs(c)
  <2>1. /\ Apart(c) /\ pc'[c] = "asked" /\ pc[c] = "asked" /\ using'[c] = using[c]
        /\ seen'[c] = seen[c] /\ pc'[c] \notin Holding
    BY <1>8 DEF Runs, Apart, Holding
  <2> QED BY <1>1, <1>2, <2>1, CallMovesGone
<1>9. CASE Begin(c) \/ GetsToken(c) \/ SkipsRenewal(c) \/ SharesReconnect(c) \/ Barrier(c)
  BY <1>3, <1>5, <1>9 DEF Begin, GetsToken, SkipsRenewal, SharesReconnect, Barrier
<1>10. CASE Cancelled(c) \/ Returns(c) \/ RequestCancelled(c)
  BY <1>4, <1>10 DEF Cancelled, Returns, RequestCancelled, Fails
<1>11. CASE NotFound(c)
  <2>1. pc[c] = "asked" /\ pc[c] \in Requesting /\ using[c] \notin known
    BY <1>11 DEF NotFound, Requesting
  <2>2. SendsAgain(c, "reopen") \/ Ends(c, "failed")
    BY <1>11 DEF NotFound, Fails
  <2> QED BY <1>4, <1>6, <2>1, <2>2
<1>12. CASE ConnectionClosed(c)
  BY <1>4, <1>7, <1>12 DEF ConnectionClosed, Fails
<1>13. CASE Loses(c)
  <2>1. pc[c] \in Requesting
    BY <1>13 DEF Loses, RunnerFirst, Requesting
  <2>2. SendsAgain(c, "barrier") \/ Ends(c, "failed")
    BY <1>13 DEF Loses, Fails
  <2> QED BY <1>4, <1>6, <2>1, <2>2
<1> QED BY <1>8, <1>9, <1>10, <1>11, <1>12, <1>13

LEMMA RenewsGone ==
    ASSUME NEW c \in Calls, IInv, HInv, Renews(c)
    PROVE  HInv'
<1>1. /\ pc[c] = "renew" /\ LockFree /\ user' = user /\ active' = active /\ known' = known
      /\ using' = using /\ seen' = seen /\ generation' = generation
      /\ session' = 0 /\ runner' = latest + 1 /\ pc' = [pc EXCEPT ![c] = "renewing"]
      /\ phase' = [phase EXCEPT ![latest + 1] = "opening"] /\ latest < MaxSessions
  BY DEF Renews, Opens, Goes, userVars, serverVars, localVars
<1>2. /\ latest \in Nat /\ runner' \in Sessions /\ pc \in [Calls -> Places]
      /\ phase \in [Sessions -> Phases] /\ user # "entering" /\ ~Opener
  BY <1>1, BoundsAssumption
  DEF IInv, TypeOK, Numbers, Sessions, Unentered, LockFree, Holding, Opener
<1>3. /\ pc'[c] = "renewing" /\ (\A d \in Calls : d # c => pc'[d] = pc[d])
      /\ phase'[runner'] = "opening" /\ \A s \in Sessions : s # runner' => phase'[s] = phase[s]
  BY <1>1, <1>2
<1>4. Opener'
  BY <1>3 DEF Opener
<1>5. OneHandshake'
  BY <1>1, <1>2, <1>3, <1>4, GoneParts DEF OneHandshake, Joined
<1>6. Handed' /\ AskedCurrent' /\ ReopensGone'
  BY <1>3, <1>4 DEF Handed, AskedCurrent, ReopensGone
<1>7. SeenBefore' /\ CleanupAlone'
  BY <1>1, <1>3, GoneParts DEF SeenBefore, CleanupAlone, LockFree, Holding
<1> QED BY <1>5, <1>6, <1>7 DEF HInv

LEMMA ReconnectsGone ==
    ASSUME NEW c \in Calls, IInv, HInv, Reconnects(c)
    PROVE  HInv'
<1>1. /\ pc[c] = "reopen" /\ LockFree /\ user' = user /\ active' = active /\ known' = known
      /\ using' = using /\ seen' = seen /\ generation' = generation /\ phase' = phase
      /\ session' = session /\ runner' = 0 /\ pc' = [pc EXCEPT ![c] = "shutdown"]
  BY DEF Reconnects, Goes, userVars, serverVars, localVars
<1>2. user # "entering" /\ ~Opener
  BY <1>1 DEF IInv, Unentered, LockFree, Holding, Opener
<1>3. OneHandshake'
  BY <1>1, <1>2, GoneParts DEF OneHandshake, Joined
<1>4. Handed' /\ AskedCurrent' /\ ReopensGone' /\ SeenBefore' /\ CleanupAlone'
  BY <1>1, GoneParts DEF Handed, AskedCurrent, ReopensGone, SeenBefore, CleanupAlone
<1> QED BY <1>3, <1>4 DEF HInv

LEMMA OpensAgainGone ==
    ASSUME NEW c \in Calls, IInv, HInv, OpensAgain(c)
    PROVE  HInv'
<1>1. /\ user' = user /\ active' = active /\ known' = known /\ generation' = generation
      /\ pc[c] \in {"reopen", "shutdown"}
  BY DEF OpensAgain, userVars, serverVars
<1>2. user # "entering" /\ ~Opener /\ runner = 0
  BY <1>1 DEF IInv, Unentered, Lock, LockFree, Holding, Opener, OpensAgain
<1>3. Joined => \A s \in Sessions : phase[s] # "opening"
  BY <1>2, GoneParts DEF OneHandshake, Sessions
<1>4. ASSUME latest < MaxSessions, Opens, Goes(c, "opening"), UNCHANGED localVars PROVE HInv'
  <2>1. /\ latest \in Nat /\ runner' = latest + 1 /\ runner' \in Sessions
        /\ phase' = [phase EXCEPT ![runner'] = "opening"] /\ phase \in [Sessions -> Phases]
        /\ pc \in [Calls -> Places] /\ pc' = [pc EXCEPT ![c] = "opening"] /\ seen' = seen
    BY <1>4, BoundsAssumption DEF IInv, TypeOK, Numbers, Sessions, Opens, Goes, localVars
  <2>2. /\ pc'[c] = "opening" /\ (\A d \in Calls : d # c => pc'[d] = pc[d])
        /\ phase'[runner'] = "opening" /\ \A s \in Sessions : s # runner' => phase'[s] = phase[s]
    BY <2>1
  <2>3. Opener'
    BY <2>2 DEF Opener
  <2>4. OneHandshake'
    BY <1>1, <1>3, <2>2, <2>3 DEF OneHandshake, Joined
  <2>5. Handed' /\ AskedCurrent' /\ ReopensGone'
    BY <2>2, <2>3 DEF Handed, AskedCurrent, ReopensGone
  <2>6. CleanupAlone'
    <3>1. \A d \in Calls : d # c => pc[d] # "cleanup"
      BY DEF IInv, Lock, LockFree, Holding, OpensAgain
    <3> QED BY <2>2, <3>1 DEF CleanupAlone
  <2>7. SeenBefore'
    BY <1>1, <2>1, GoneParts DEF SeenBefore
  <2> QED BY <2>4, <2>5, <2>6, <2>7 DEF HInv
<1>5. ASSUME Ends(c, "failed"), UNCHANGED <<latest, runner, phase>> PROVE HInv'
  <2>1. Apart(c) /\ pc'[c] \in Finished /\ seen'[c] = 0
    BY <1>5, TypeParts, EndsApart DEF IInv
  <2>2. OneHandshake' /\ Handed' /\ AskedCurrent' /\ ReopensGone' /\ CleanupAlone'
    BY <1>1, <1>2, <1>3, <1>5 DEF OneHandshake, Handed, AskedCurrent, ReopensGone, CleanupAlone, Joined
  <2>3. SeenBefore'
    <3>1. generation \in Nat
      BY DEF IInv, TypeOK
    <3> QED BY <1>1, <2>1, <3>1, GoneParts DEF SeenBefore, Apart
  <2> QED BY <2>2, <2>3 DEF HInv
<1> QED BY <1>4, <1>5 DEF OpensAgain

\* The new session has the next generation: what was asked before is older.
LEMMA OpenedGone ==
    ASSUME NEW c \in Calls, IInv, HInv, Opened(c)
    PROVE  HInv'
<1>1. /\ user' = user /\ active' = active /\ known' = known /\ generation' = generation + 1
      /\ pc[c] \in {"renewing", "opening"} /\ runner' = runner /\ session' = session
      /\ phase' = phase /\ latest' = latest /\ phase[latest] # "opening"
  BY DEF Opened, userVars, serverVars
<1>2. Gets(c)
  BY TypeParts, GetsSession DEF IInv, Opened
<1>3. /\ generation \in Nat /\ seen \in [Calls -> Nat] /\ runner \in {0, latest}
      /\ user # "entering" /\ \A d \in Calls \ {c} : pc[d] \notin Holding
  BY <1>1 DEF IInv, TypeOK, Order, Unentered, Lock, Holding
<1>4. OneHandshake'
  BY <1>1, <1>3, GoneParts DEF OneHandshake, Joined, Sessions
<1>5. Handed'
  BY <1>1, GoneParts DEF Handed, Joined
<1>6. \A d \in Calls \ {c} : seen'[d] < generation' /\ pc'[d] = pc[d]
  BY <1>1, <1>2, <1>3, GoneParts DEF SeenBefore, Gets, Apart
<1>7. SeenBefore'
  <2>1. seen'[c] \in {0, seen[c], generation'} /\ seen[c] <= generation
    BY <1>2, GoneParts DEF SeenBefore, Gets
  <2>2. seen'[c] <= generation'
    BY <1>1, <1>3, <2>1
  <2>3. \A d \in Calls \ {c} : seen'[d] <= generation'
    BY <1>1, <1>2, <1>3, GoneParts DEF SeenBefore, Gets, Apart
  <2> QED BY <2>2, <2>3 DEF SeenBefore
<1>8. active /\ runner # 0 => session \in {0, runner} /\ (phase[runner] = "up" => session = runner)
  BY <1>1, <1>3, GoneParts DEF Handed, Joined
<1>9. AskedCurrent' /\ ReopensGone'
  <2>1. ASSUME active, NEW d \in Calls, seen'[d] = generation', pc'[d] = "asked"
        PROVE  runner \in {0, using'[d]}
    <3>1. d = c
      BY <1>1, <1>3, <1>6, <2>1
    <3> QED BY <1>1, <1>2, <1>8, <2>1, <3>1 DEF Gets
  <2>2. ASSUME active, NEW d \in Calls, seen'[d] = generation', pc'[d] = "reopen"
        PROVE  runner = 0 \/ phase[runner] # "up"
    <3>1. d = c
      BY <1>1, <1>3, <1>6, <2>2
    <3> QED BY <1>1, <1>2, <1>8, <2>2, <3>1 DEF Gets
  <2> QED BY <1>1, <2>1, <2>2 DEF AskedCurrent, ReopensGone
<1>10. CleanupAlone'
  BY <1>1, <1>2, <1>3, GoneParts DEF CleanupAlone, Gets, Apart, Holding
<1> QED BY <1>4, <1>5, <1>7, <1>9, <1>10 DEF HInv

\* An opening that comes to nothing leaves no current session.
LEMMA OpeningEndsGone ==
    ASSUME NEW c \in Calls, IInv, HInv,
           user' = user, active' = active, generation' = generation, runner' = 0,
           \A s \in Sessions : phase'[s] = "opening" => phase[s] = "opening" /\ s # runner,
           Apart(c), pc'[c] \notin {"renewing", "opening", "asked", "reopen"},
           pc[c] \in Holding, seen'[c] \in {0, seen[c]}
    PROVE  HInv'
<1>1. user # "entering"
  BY DEF IInv, Unentered, Holding
<1>2. OneHandshake'
  BY <1>1, GoneParts DEF OneHandshake, Joined
<1>3. Handed' /\ AskedCurrent' /\ ReopensGone' /\ CleanupAlone'
  BY DEF Handed, AskedCurrent, ReopensGone, CleanupAlone
<1>4. SeenBefore'
  <2>1. generation \in Nat
    BY DEF IInv, TypeOK
  <2> QED BY <2>1, GoneParts DEF SeenBefore, Apart
<1> QED BY <1>2, <1>3, <1>4 DEF HInv

LEMMA OpenerKeepsGone ==
    ASSUME NEW c \in Calls, IInv, HInv, CleanedUp(c) \/ GivesUpOpening(c),
           pc[c] \in {"renewing", "opening", "cleanup"}
    PROVE  HInv'
<1>0. /\ LocalTypes /\ runner \in {0, latest} /\ latest \in Numbers
      /\ phase \in [Sessions -> Phases] /\ 0 \notin Sessions
  BY TypeParts DEF IInv, ClientTypes, Order, Sessions
<1>1. /\ user' = user /\ active' = active /\ generation' = generation
      /\ pc[c] \in Holding
  BY DEF CleanedUp, GivesUpOpening, userVars, Holding
<1>2. CASE CleanedUp(c)
  <2>1. phase' = phase /\ runner' = 0 /\ runner = 0 /\ Ends(c, "failed")
    BY <1>2, GoneParts DEF CleanedUp, CleanupAlone
  <2>2. Apart(c) /\ pc'[c] \in Finished /\ seen'[c] = 0
    BY <1>0, <2>1, EndsApart
  <2> QED BY <1>0, <1>1, <2>1, <2>2, OpeningEndsGone DEF Finished
<1>3. CASE GivesUpOpening(c) /\ runner = 0
  <2>1. phase' = phase /\ runner' = 0 /\ Ends(c, "failed")
    BY <1>3 DEF GivesUpOpening
  <2>2. Apart(c) /\ pc'[c] \in Finished /\ seen'[c] = 0
    BY <1>0, <2>1, EndsApart
  <2> QED BY <1>0, <1>1, <1>3, <2>1, <2>2, OpeningEndsGone DEF Finished
<1>4. CASE GivesUpOpening(c) /\ runner # 0
  <2>1. /\ phase' = [phase EXCEPT ![runner] = IF @ \in Over THEN @ ELSE "dropping"] /\ runner' = 0
        /\ Goes(c, "cleanup") /\ UNCHANGED localVars
    BY <1>4 DEF GivesUpOpening
  <2>2. Apart(c) /\ pc'[c] = "cleanup" /\ seen'[c] = seen[c]
    BY <1>0, <2>1 DEF Goes, LocalTypes, Apart, localVars
  <2>3. \A s \in Sessions : phase'[s] = "opening" => phase[s] = "opening" /\ s # runner
    BY <1>0, <2>1 DEF Over
  <2> QED BY <1>1, <2>1, <2>2, <2>3, OpeningEndsGone
<1> QED BY <1>2, <1>3, <1>4

LEMMA RunnerKeepsGone ==
    ASSUME IInv, HInv, NEW s \in Sessions, Runner(s)
    PROVE  HInv'
<1>1. /\ user' = user /\ active' = active /\ generation' = generation /\ runner' = runner
      /\ pc' = pc /\ seen' = seen /\ using' = using
  BY DEF Runner, Handshake, HandshakeDone, HandshakeFails, Drops, RunnerEnds, Forgets, CloserEnds,
         userVars, sessionVars, localVars
<1>2. SeenBefore' /\ CleanupAlone' /\ AskedCurrent'
  BY <1>1, GoneParts DEF SeenBefore, CleanupAlone, AskedCurrent, Opener
<1>3. (Opener' <=> Opener) /\ (Joined' <=> Joined)
  BY <1>1 DEF Opener, Joined
<1>4. /\ phase \in [Sessions -> Phases] /\ runner \in {0, latest} /\ runner \in Numbers
      /\ known \subseteq Sessions
  BY DEF IInv, TypeOK, Order
<1>5. CASE HandshakeDone(s)
  <2>1. /\ phase[s] = "opening" /\ session' = s /\ known' = known \union {s}
        /\ phase' = [phase EXCEPT ![s] = "up"]
    BY <1>5 DEF HandshakeDone, Moves
  <2>2. Joined => s = runner /\ (Opener \/ user = "entering")
    BY <2>1, GoneParts DEF OneHandshake
  <2>3. OneHandshake' /\ Handed'
    BY <1>1, <1>3, <1>4, <2>1, <2>2, GoneParts DEF OneHandshake, Handed
  <2>4. ReopensGone'
    <3>1. active => Opener
      BY <2>2 DEF Joined, IInv, ClosedUnused
    <3> QED BY <1>1, <1>3, <3>1 DEF ReopensGone
  <2> QED BY <1>2, <2>3, <2>4 DEF HInv
<1>6. CASE HandshakeFails(s) \/ RunnerEnds(s)
  <2>1. /\ session' = (IF s = latest THEN 0 ELSE session) /\ known' \subseteq known
        /\ \E next \in {"refused", "done"} : phase' = [phase EXCEPT ![s] = next]
    BY <1>6 DEF HandshakeFails, RunnerEnds, Moves, Cleared, serverVars
  <2>2. /\ phase'[s] \in {"refused", "done"} /\ \A r \in Sessions : r # s => phase'[r] = phase[r]
    BY <1>4, <2>1
  <2>3. runner # 0 => runner \in Sessions
    BY <1>4, BoundsAssumption DEF Numbers, Sessions
  <2>4. OneHandshake'
    BY <1>1, <1>3, <2>2, GoneParts DEF OneHandshake
  <2>5. Handed'
    BY <1>1, <1>3, <1>4, <2>1, <2>2, <2>3, GoneParts DEF Handed
  <2>6. ReopensGone'
    BY <1>1, <1>3, <2>1, <2>2, <2>3, GoneParts DEF ReopensGone
  <2> QED BY <1>2, <2>4, <2>5, <2>6 DEF HInv
<1>7. CASE Drops(s)
  <2>1. session' = session /\ known' = known /\ phase' = [phase EXCEPT ![s] = "dropping"] /\ phase[s] = "up"
    BY <1>7 DEF Drops, Moves, serverVars
  <2>2. /\ phase'[s] = "dropping" /\ \A r \in Sessions : r # s => phase'[r] = phase[r]
    BY <1>4, <2>1
  <2>3. runner # 0 => runner \in Sessions
    BY <1>4, BoundsAssumption DEF Numbers, Sessions
  <2>4. OneHandshake' /\ Handed'
    BY <1>1, <1>3, <2>1, <2>2, <2>3, GoneParts DEF OneHandshake, Handed
  <2>5. ReopensGone'
    BY <1>1, <1>3, <2>1, <2>2, <2>3, GoneParts DEF ReopensGone
  <2> QED BY <1>2, <2>4, <2>5 DEF HInv
<1>8. CASE Forgets(s) \/ CloserEnds(s)
  <2>1. session' = session /\ known' \subseteq known /\ phase' = phase
    BY <1>8 DEF Forgets, CloserEnds, sessionVars, serverVars
  <2>2. OneHandshake' /\ Handed' /\ ReopensGone'
    BY <1>1, <1>3, <2>1, GoneParts DEF OneHandshake, Handed, ReopensGone
  <2> QED BY <1>2, <2>2 DEF HInv
<1> QED BY <1>5, <1>6, <1>7, <1>8 DEF Runner, Handshake

LEMMA UserKeepsGone ==
    ASSUME IInv, HInv, User
    PROVE  HInv'
<1>0. /\ pc' = pc /\ seen' = seen /\ using' = using /\ known' = known
      /\ generation \in Nat /\ (active => user = "in")
      /\ (user \in {"out", "entering"} => \A c \in Calls : pc[c] = "idle")
  BY DEF User, Enter, Entered, EnterFails, ExitBegins, ExitCloses, Exited, serverVars, localVars,
         IInv, TypeOK, ClosedUnused, Unentered
<1>1. CASE Enter
  <2>1. /\ user = "out" /\ user' = "entering" /\ active' = active /\ generation' = generation
        /\ runner' = latest + 1 /\ phase' = [phase EXCEPT ![latest + 1] = "opening"]
    BY <1>1 DEF Enter, Opens
  <2>2. /\ latest = 0 /\ latest + 1 = 1 /\ phase \in [Sessions -> Phases] /\ 1 \in Sessions
        /\ \A s \in Sessions : phase[s] = "none"
    BY <2>1, BoundsAssumption DEF IInv, Unentered, Order, TypeOK, Sessions
  <2>3. runner' = 1 /\ phase'[1] = "opening" /\ \A s \in Sessions : s # 1 => phase'[s] = "none"
    BY <2>1, <2>2
  <2>4. OneHandshake' /\ Handed'
    BY <2>1, <2>3 DEF OneHandshake, Handed
  <2>5. AskedCurrent' /\ ReopensGone' /\ SeenBefore' /\ CleanupAlone'
    BY <1>0, <2>1, GoneParts DEF AskedCurrent, ReopensGone, SeenBefore, CleanupAlone
  <2> QED BY <2>4, <2>5 DEF HInv
<1>2. CASE Entered
  <2>1. /\ user = "entering" /\ user' = "in" /\ generation' = generation + 1 /\ runner' = runner
        /\ session' = session /\ phase' = phase /\ phase[latest] # "opening"
    BY <1>2 DEF Entered
  <2>2. OneHandshake' /\ Handed'
    BY <2>1, GoneParts DEF OneHandshake, Handed, Joined, IInv, Order, Sessions
  <2>3. AskedCurrent' /\ ReopensGone' /\ SeenBefore' /\ CleanupAlone'
    BY <1>0, <2>1, GoneParts DEF AskedCurrent, ReopensGone, SeenBefore, CleanupAlone, IInv, TypeOK
  <2> QED BY <2>2, <2>3 DEF HInv
<1>3. CASE EnterFails \/ ExitBegins
  <2>1. ~active' /\ user' # "entering" /\ generation' = generation /\ runner' = 0
    BY <1>0, <1>3 DEF EnterFails, ExitBegins
  <2>2. OneHandshake' /\ Handed' /\ AskedCurrent' /\ ReopensGone' /\ SeenBefore' /\ CleanupAlone'
    BY <1>0, <2>1, GoneParts DEF OneHandshake, Handed, AskedCurrent, ReopensGone, SeenBefore, CleanupAlone, Joined
  <2> QED BY <2>2 DEF HInv
<1>4. CASE ExitCloses \/ Exited
  <2>1. ~active' /\ user' # "entering" /\ generation' = generation /\ runner' = runner
    BY <1>0, <1>4 DEF ExitCloses, Exited, sessionVars
  <2>2. OneHandshake' /\ Handed' /\ AskedCurrent' /\ ReopensGone' /\ SeenBefore' /\ CleanupAlone'
    BY <1>0, <2>1, GoneParts DEF OneHandshake, Handed, AskedCurrent, ReopensGone, SeenBefore, CleanupAlone, Joined
  <2> QED BY <2>2 DEF HInv
<1> QED BY <1>1, <1>2, <1>3, <1>4 DEF User

\* What a call that wants a session re-opened knows of it.
THEOREM GoneInductive == Spec => []HInv
<1>1. Init => HInv
  <2> SUFFICES ASSUME Init PROVE HInv
    OBVIOUS
  <2>1. /\ user = "out" /\ active = FALSE /\ runner = 0 /\ generation = 0
        /\ seen = [c \in Calls |-> 0] /\ pc = [c \in Calls |-> "idle"]
    BY DEF Init
  <2> QED BY <2>1 DEF HInv, OneHandshake, Handed, AskedCurrent, ReopensGone, SeenBefore, CleanupAlone, Joined
<1>2. HInv /\ IInv /\ [Next]_vars => HInv'
  <2> SUFFICES ASSUME HInv, IInv, [Next]_vars PROVE HInv'
    OBVIOUS
  <2>1. ASSUME NEW c \in Calls, Call(c) PROVE HInv'
    <3>1. CASE OpenFails(c) \/ OpeningCancelled(c) \/ CleanedUp(c)
      BY <2>1, <3>1, OpenerKeepsGone DEF OpenFails, OpeningCancelled, CleanedUp
    <3> QED
      BY <2>1, <3>1, CallKeepsGone, RenewsGone, ReconnectsGone, OpensAgainGone, OpenedGone
      DEF Call, Proceeds
  <2>2. ASSUME NEW s \in Sessions, Runner(s) PROVE HInv'
    BY <2>2, RunnerKeepsGone
  <2>3. CASE User
    BY <2>3, UserKeepsGone
  <2>4. CASE TokenRenewed \/ UNCHANGED vars
    <3>1. /\ user' = user /\ active' = active /\ generation' = generation /\ runner' = runner
          /\ pc' = pc /\ seen' = seen /\ using' = using /\ session' = session /\ phase' = phase
          /\ known' = known
      BY <2>4 DEF TokenRenewed, vars, userVars, sessionVars, localVars
    <3> QED BY <3>1, GoneParts DEF HInv, OneHandshake, Handed, AskedCurrent, ReopensGone, SeenBefore,
               CleanupAlone, Joined, Opener
  <2> QED BY <2>1, <2>2, <2>3, <2>4 DEF Next
<1> QED BY <1>1, <1>2, Inductive, PTL DEF Spec

\* A session that is up and that the server knows is not re-initialised: the
\* calls that find one session gone open one between them, however many.
THEOREM HealthySessionsKept == Spec => HealthyKept
<1>1. IInv /\ HInv /\ [Next]_vars =>
        [\A c \in Calls : pc[c] # "shutdown" /\ pc'[c] = "shutdown"
            => ~active \/ phase[runner] # "up" \/ runner \notin known]_vars
  <2> SUFFICES ASSUME IInv, HInv, Next, NEW c \in Calls, pc[c] # "shutdown", pc'[c] = "shutdown", active
               PROVE  phase[runner] # "up" \/ runner \notin known
    BY DEF vars
  <2>1. Reconnects(c)
    <3>0. pc \in [Calls -> Places] /\ LocalTypes
      BY TypeParts DEF IInv, LocalTypes
    <3>1. ASSUME NEW d \in Calls, Call(d) PROVE Reconnects(c)
      <4>1. ASSUME Live(d) \/ Lives(d) \/ Requires(d) \/ Reopened(d) PROVE FALSE
        BY <3>0, <4>1, GetsSession DEF Gets, Apart, Holding
      <4>2. ASSUME NEW place, Goes(d, place) PROVE d = c /\ place = "shutdown"
        BY <3>0, <4>2 DEF Goes
      <4>3. ASSUME Ends(d, "failed") \/ Ends(d, "returned") PROVE FALSE
        BY <3>0, <4>3, EndsApart DEF Apart, Finished
      <4>4. ASSUME UNCHANGED pc PROVE FALSE
        BY <4>4
      <4>5. CASE Begin(d) \/ GetsToken(d) \/ SkipsRenewal(d) \/ SharesReconnect(d) \/ Opened(d) \/ Barrier(d)
        BY <4>1, <4>2, <4>5
        DEF Begin, GetsToken, SkipsRenewal, SharesReconnect, Opened, Barrier, AsksFor
      <4>6. CASE \/ Renews(d) \/ OpensAgain(d) \/ OpenFails(d) \/ OpeningCancelled(d)
                 \/ ConnectionClosed(d) \/ Runs(d)
        BY <4>2, <4>3, <4>4, <4>6
        DEF Renews, OpensAgain, OpenFails, OpeningCancelled, GivesUpOpening, ConnectionClosed, Fails, Runs
      <4>7. CASE \/ CleanedUp(d) \/ Cancelled(d) \/ Returns(d) \/ RequestCancelled(d)
                 \/ NotFound(d) \/ Loses(d)
        BY <4>2, <4>3, <4>7
        DEF CleanedUp, Cancelled, Returns, RequestCancelled, NotFound, Loses, Fails, SendsAgain
      <4>8. CASE Reconnects(d)
        BY <4>2, <4>8 DEF Reconnects
      <4> QED BY <3>1, <4>5, <4>6, <4>7, <4>8 DEF Call, Proceeds
    <3>2. ASSUME NEW s \in Sessions, Runner(s) PROVE FALSE
      BY <3>2 DEF Runner, Handshake, HandshakeDone, HandshakeFails, Drops, RunnerEnds, Forgets, CloserEnds
    <3>3. ASSUME TokenRenewed \/ User PROVE FALSE
      BY <3>3 DEF TokenRenewed, User, Enter, Entered, EnterFails, ExitBegins, ExitCloses, Exited
    <3> QED BY <3>1, <3>2, <3>3 DEF Next
  <2>2. LockFree /\ runner # 0 /\ (generation = seen[c] \/ session = 0) /\ pc[c] = "reopen"
    BY <2>1 DEF Reconnects, Shared
  <2>3. ~Opener
    BY <2>2 DEF Opener, LockFree, Holding
  <2>4. CASE generation = seen[c]
    BY <2>2, <2>3, <2>4, GoneParts DEF ReopensGone
  <2>5. CASE session = 0
    <3>1. phase[runner] = "up" => session = runner
      BY GoneParts, <2>2 DEF Handed, Joined
    <3> QED BY <2>2, <2>5, <3>1
  <2> QED BY <2>2, <2>4, <2>5
<1> QED BY <1>1, Inductive, GoneInductive, PTL DEF Spec, HealthyKept

=============================================================================
