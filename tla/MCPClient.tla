----------------------------- MODULE MCPClient -----------------------------
(***************************************************************************)
(* The sessions of one MCP client (promptise/mcp/client/_client.py): calls *)
(* share the client's session, which a runner task owns.  A session is     *)
(* re-opened when it dropped or when the server answers 404 for it, and    *)
(* replaced, or retired, when the bearer token was renewed; the client is  *)
(* entered and left once.                                                  *)
(*                                                                         *)
(* A session, its runner task and its closing event have the same number:  *)
(* _open() makes the three in one step.  A step lasts from one suspension  *)
(* of a task to the next.  A task that asks for _reconnect_lock may find   *)
(* it taken, so asking for it and getting it are two steps.                *)
(***************************************************************************)
EXTENDS Integers

CONSTANTS
    Calls,          \* calls of call_tool()
    Impatient,      \* bound: those whose tasks may be cancelled
    MaxSessions,    \* bound: past it the server refuses the handshake
    MaxRenewals     \* bound: how often the provider has a new token

ASSUME CallsAssumption == Impatient \subseteq Calls
ASSUME BoundsAssumption == MaxSessions \in Nat \ {0} /\ MaxRenewals \in Nat

VARIABLES
    user,       \* where the task is that enters and leaves the client
    popped,     \* the runner its __aexit__ waits for, 0 for none
    active,     \* _active
    had,        \* history: the latest session when __aexit__ began
    runner,     \* _runner, 0 for None
    session,    \* _session, 0 for None
    latest,     \* _closing, the event of the latest session
    generation, \* _generation
    phase,      \* where each runner is
    retired,    \* _retired
    closers,    \* _closers, by the session each one closes
    closing,    \* the sessions whose closing event is set
    provided,   \* the client has a bearer_token_provider
    known,      \* the sessions the server knows
    stale,      \* the token was renewed since the latest handshake
    renewals,   \* bound: the renewals so far
    pc,         \* where each call is
    on,         \* the runner its request is raced with, 0 for none
    using,      \* the session its request was sent on
    seen,       \* seen_generation
    refused,    \* calls that re-open the session because of a 404
    again,      \* calls that are sent, or will be, for the second time
    served      \* calls whose request the server has taken: the tool runs

userVars == <<user, popped, active, had>>
sessionVars == <<runner, session, latest, generation, phase>>
closeVars == <<retired, closers, closing>>
serverVars == <<provided, known, stale, renewals>>
localVars == <<on, using, seen, refused, again, served>>
vars == <<user, popped, active, had, runner, session, latest, generation, phase, retired,
          closers, closing, provided, known, stale, renewals, pc, on, using, seen, refused, again,
          served>>

Sessions == 1 .. MaxSessions
Numbers == 0 .. MaxSessions

\* A runner is in the handshake, then up; "dropping" is a runner that was
\* cancelled or whose transport failed, and that has not ended yet.
Alive == {"opening", "up", "dropping"}
Over == {"done", "refused"}
Phases == {"none"} \union Alive \union Over

\* The calls that hold _reconnect_lock.
Holding == {"renewing", "shutdown", "opening", "cleanup"}
LockFree == \A c \in Calls : pc[c] \notin Holding

Requesting == {"asked", "losing"}
Finished == {"returned", "failed"}
Places == {"idle", "token", "renew", "reopen", "barrier"}
              \union Holding \union Requesting \union Finished

Goes(c, place) == pc' = [pc EXCEPT ![c] = place]

-----------------------------------------------------------------------------
(* Retired sessions *)

\* _runner_calls
On(s) == {c \in Calls : pc[c] \in Requesting /\ on[c] = s}

\* _close_retired, with the task it starts: it sets the event when it runs, at
\* once.
CloseRetired(S) ==
    /\ retired' = retired \ S
    /\ closing' = closing \union S
    /\ closers' = closers \union S

\* The finally of _on_current_session: the last call closes a retired session.
\* Mutants: nobody does; it closes the session whether or not it is retired.
Unused_Kept(c) == {}
Unused_Any(c) == IF On(on[c]) = {c} THEN {on[c]} ELSE {}
Unused(c) == IF On(on[c]) = {c} THEN {on[c]} \intersect retired ELSE {}

\* The finally of _renew, which retired the session before the latest.
\* Mutant: it is closed under the calls that use it.
Replaced_InUse == {latest - 1} \intersect retired
Replaced == {s \in {latest - 1} \intersect retired : On(s) = {}}

CloserEnds(s) ==
    /\ s \in closers /\ phase[s] \in Over
    /\ closers' = closers \ {s}
    /\ UNCHANGED <<retired, closing, pc>>
    /\ UNCHANGED userVars /\ UNCHANGED sessionVars /\ UNCHANGED serverVars
    /\ UNCHANGED localVars

-----------------------------------------------------------------------------
(* What a call does at the end of a step that has set up the session: these *)
(* read the session as that step leaves it.                                 *)

\* The call is over: nothing of its frames is left.
Ends(c, place) ==
    /\ Goes(c, place)
    /\ on' = [on EXCEPT ![c] = 0]
    /\ using' = [using EXCEPT ![c] = 0]
    /\ seen' = [seen EXCEPT ![c] = 0]
    /\ refused' = refused \ {c}
    /\ again' = again \ {c}
    /\ served' = served \ {c}

\* The request is sent on the session and raced with the current runner.
Sends(c) ==
    /\ session' # 0
    /\ Goes(c, "asked")
    /\ on' = [on EXCEPT ![c] = runner']
    /\ using' = [using EXCEPT ![c] = session']
    /\ seen' = [seen EXCEPT ![c] = generation']
    /\ UNCHANGED <<refused, again, served>>

\* _require_session
Requires(c) == Sends(c) \/ (session' = 0 /\ Ends(c, "failed"))

AsksFor(c, place) ==
    /\ Goes(c, place)
    /\ seen' = [seen EXCEPT ![c] = generation']
    /\ UNCHANGED <<on, using, refused, again, served>>

\* _live_session after the token
Live(c) ==
    \/ (session' # 0 \/ ~active') /\ Requires(c)
    \/ session' = 0 /\ active' /\ AsksFor(c, "reopen")

\* _live_session: a provider, if there is one, is asked while the client is
\* entered.
Lives(c) ==
    \/ provided /\ active' /\ Goes(c, "token") /\ UNCHANGED localVars
    \/ ~(provided /\ active') /\ Live(c)

\* _reconnect is over: the call goes on where it came from.
Reopened(c) ==
    \/ c \notin refused /\ Requires(c)
    \/ /\ c \in refused
       /\ Goes(c, "barrier")
       /\ refused' = refused \ {c}
       /\ UNCHANGED <<on, using, seen, again, served>>

-----------------------------------------------------------------------------
(* Calls: up to the request *)

\* async with hands the client out once it is entered.
Begin(c) ==
    /\ pc[c] = "idle" /\ user \in {"in", "exiting"}
    /\ UNCHANGED userVars /\ UNCHANGED sessionVars /\ UNCHANGED closeVars
    /\ UNCHANGED serverVars
    /\ Lives(c)

\* token # auth.opened_with, which is None during the handshake
TokenChanged == stale \/ phase[latest] = "opening"

GetsToken(c) ==
    /\ pc[c] = "token"
    /\ UNCHANGED userVars /\ UNCHANGED sessionVars /\ UNCHANGED closeVars
    /\ UNCHANGED serverVars
    /\ \/ session # 0 /\ TokenChanged /\ AsksFor(c, "renew")
       \/ ~(session # 0 /\ TokenChanged) /\ Live(c)

\* _open() up to the handshake
Opens ==
    /\ latest' = latest + 1
    /\ runner' = latest + 1
    /\ phase' = [phase EXCEPT ![latest + 1] = "opening"]

\* _renew, with the lock
SkipsRenewal(c) ==
    /\ pc[c] = "renew" /\ LockFree
    /\ generation # seen[c] \/ runner = 0
    /\ UNCHANGED userVars /\ UNCHANGED sessionVars /\ UNCHANGED closeVars
    /\ UNCHANGED serverVars
    /\ Live(c)

\* Bound: the last session is never stale (TokenRenewed).
Renews(c) ==
    /\ pc[c] = "renew" /\ LockFree
    /\ generation = seen[c] /\ runner # 0 /\ latest < MaxSessions
    /\ retired' = retired \union {runner}
    /\ session' = 0
    /\ Opens
    /\ Goes(c, "renewing")
    /\ UNCHANGED <<generation, closers, closing>>
    /\ UNCHANGED userVars /\ UNCHANGED serverVars /\ UNCHANGED localVars

\* _reconnect, with the lock: nothing to do when another call has done it.
\* Mutant: the session is replaced whatever generation it is.
Shared_Never(c) == FALSE
Shared(c) == generation # seen[c] /\ session # 0

SharesReconnect(c) ==
    /\ pc[c] = "reopen" /\ LockFree /\ Shared(c)
    /\ UNCHANGED userVars /\ UNCHANGED sessionVars /\ UNCHANGED closeVars
    /\ UNCHANGED serverVars
    /\ Reopened(c)

\* _shutdown of the current session, up to the wait for its runner.
Reconnects(c) ==
    /\ pc[c] = "reopen" /\ LockFree /\ ~Shared(c) /\ runner # 0
    /\ runner' = 0
    /\ closing' = closing \union {runner}
    /\ Goes(c, "shutdown")
    /\ UNCHANGED <<session, latest, generation, phase, retired, closers>>
    /\ UNCHANGED userVars /\ UNCHANGED serverVars /\ UNCHANGED localVars

\* The runner has ended, or there was none (then the session stays as it is).
\* Bound: past MaxSessions there is no server to connect to.
OpensAgain(c) ==
    /\ \/ pc[c] = "shutdown" /\ phase[latest] \in Over /\ session' = 0
       \/ pc[c] = "reopen" /\ LockFree /\ ~Shared(c) /\ runner = 0 /\ UNCHANGED session
    /\ \/ /\ latest < MaxSessions
          /\ Opens
          /\ Goes(c, "opening")
          /\ UNCHANGED localVars
       \/ latest = MaxSessions /\ Ends(c, "failed") /\ UNCHANGED <<latest, runner, phase>>
    /\ UNCHANGED generation
    /\ UNCHANGED userVars /\ UNCHANGED closeVars /\ UNCHANGED serverVars

\* ready is set: the handshake is over.
Opened(c) ==
    /\ pc[c] \in {"renewing", "opening"} /\ phase[latest] \in {"up", "dropping", "done"}
    /\ generation' = generation + 1
    /\ CloseRetired(Replaced)
    /\ UNCHANGED <<runner, session, latest, phase>>
    /\ UNCHANGED userVars /\ UNCHANGED serverVars
    /\ \/ pc[c] = "renewing" /\ Live(c)
       \/ pc[c] = "opening" /\ Reopened(c)

\* The except of _open: the runner is cancelled and waited for.  When an
\* __aexit__ has taken it there is none to cancel, and the call fails at once.
GivesUpOpening(c) ==
    /\ \/ /\ runner # 0
          /\ runner' = 0
          /\ closing' = closing \union {runner}
          /\ phase' = [phase EXCEPT ![runner] = IF @ \in Over THEN @ ELSE "dropping"]
          /\ Goes(c, "cleanup")
          /\ UNCHANGED <<retired, closers>> /\ UNCHANGED localVars
       \/ /\ runner = 0
          /\ CloseRetired(Replaced)
          /\ Ends(c, "failed")
          /\ UNCHANGED <<runner, phase>>
    /\ UNCHANGED <<session, latest, generation>>
    /\ UNCHANGED userVars /\ UNCHANGED serverVars

OpenFails(c) ==
    /\ pc[c] \in {"renewing", "opening"} /\ phase[latest] = "refused"
    /\ GivesUpOpening(c)
OpeningCancelled(c) ==
    /\ c \in Impatient /\ pc[c] \in {"renewing", "opening"}
    /\ GivesUpOpening(c)

CleanedUp(c) ==
    /\ pc[c] = "cleanup" /\ phase[latest] \in Over
    /\ session' = 0
    /\ CloseRetired(Replaced)
    /\ Ends(c, "failed")
    /\ UNCHANGED <<runner, latest, generation, phase>>
    /\ UNCHANGED userVars /\ UNCHANGED serverVars

\* "async with self._reconnect_lock: pass", and _live_session again
Barrier(c) ==
    /\ pc[c] = "barrier" /\ LockFree
    /\ UNCHANGED userVars /\ UNCHANGED sessionVars /\ UNCHANGED closeVars
    /\ UNCHANGED serverVars
    /\ Lives(c)

-----------------------------------------------------------------------------
(* Calls: from the request to its end *)

\* The server takes the request and runs the tool, or does not know the
\* session; an answer gets through while the runner is up.
Runs(c) ==
    /\ pc[c] = "asked" /\ c \notin served
    /\ using[c] \in known /\ phase[using[c]] = "up"
    /\ served' = served \union {c}
    /\ UNCHANGED <<pc, on, using, seen, refused, again>>
    /\ UNCHANGED userVars /\ UNCHANGED sessionVars /\ UNCHANGED closeVars
    /\ UNCHANGED serverVars

\* The finally of _on_current_session.
Leaves(c) ==
    /\ CloseRetired(Unused(c))
    /\ UNCHANGED userVars /\ UNCHANGED sessionVars /\ UNCHANGED serverVars

Fails(c) == Leaves(c) /\ Ends(c, "failed")

\* The request will be sent once more.
SendsAgain(c, place) ==
    /\ Leaves(c)
    /\ Goes(c, place)
    /\ on' = [on EXCEPT ![c] = 0]
    /\ using' = [using EXCEPT ![c] = 0]
    /\ again' = again \union {c}
    /\ served' = served \ {c}
    /\ UNCHANGED seen

Returns(c) ==
    /\ pc[c] = "asked" /\ c \in served /\ phase[using[c]] = "up"
    /\ Leaves(c) /\ Ends(c, "returned")

\* 404: the session is re-opened first.
NotFound(c) ==
    /\ pc[c] = "asked" /\ c \notin served
    /\ using[c] \notin known /\ phase[using[c]] = "up"
    /\ \/ active /\ c \notin again /\ refused' = refused \union {c} /\ SendsAgain(c, "reopen")
       \/ ~(active /\ c \notin again) /\ Fails(c)

\* "Connection closed" for the request, before the runner has ended or after.
\* One that is raced with no runner fails with it.
ConnectionClosed(c) ==
    /\ pc[c] = "asked"
    /\ using[c] \in closing \/ phase[using[c]] # "up"
    /\ \/ on[c] = 0 /\ Fails(c)
       \/ /\ on[c] # 0
          /\ Goes(c, "losing")
          /\ UNCHANGED userVars /\ UNCHANGED sessionVars /\ UNCHANGED closeVars
          /\ UNCHANGED serverVars /\ UNCHANGED localVars

\* _SessionReplaced, or the connection was lost.  _lost_connection waits for the
\* runner, for a second at most.
Resends(c) == active /\ on[c] \in closing /\ c \notin again

\* The runner the request is raced with ends first.
\* Mutant: the request alone is awaited.
RunnerFirst_Never(c) == FALSE
RunnerFirst(c) == pc[c] = "asked" /\ on[c] # 0 /\ phase[on[c]] \in Over

Loses(c) ==
    /\ pc[c] = "losing" \/ RunnerFirst(c)
    /\ \/ Resends(c) /\ SendsAgain(c, "barrier") /\ UNCHANGED refused
       \/ ~Resends(c) /\ Fails(c)

\* The task of the call is cancelled (or, at "token", the provider fails).
Cancelled(c) ==
    /\ c \in Impatient
    /\ pc[c] \in {"token", "renew", "reopen", "barrier", "shutdown"}
    /\ Ends(c, "failed")
    /\ UNCHANGED userVars /\ UNCHANGED sessionVars /\ UNCHANGED closeVars
    /\ UNCHANGED serverVars

RequestCancelled(c) == c \in Impatient /\ pc[c] \in Requesting /\ Fails(c)

-----------------------------------------------------------------------------
(* Runners and the server *)

Moves(s, next) == phase' = [phase EXCEPT ![s] = next]

\* The session is opened with the token of this moment.
HandshakeDone(s) ==
    /\ phase[s] = "opening"
    /\ Moves(s, "up")
    /\ session' = s
    /\ known' = known \union {s}
    /\ stale' = FALSE
    /\ UNCHANGED <<runner, latest, generation, provided, renewals, pc>>
    /\ UNCHANGED userVars /\ UNCHANGED closeVars /\ UNCHANGED localVars

\* The finally of _run_session: only the current session's runner clears it.
Cleared(s) == IF s = latest THEN 0 ELSE session

HandshakeFails(s) ==
    /\ phase[s] = "opening"
    /\ Moves(s, "refused")
    /\ session' = Cleared(s)
    /\ UNCHANGED <<runner, latest, generation, pc>>
    /\ UNCHANGED userVars /\ UNCHANGED closeVars /\ UNCHANGED serverVars
    /\ UNCHANGED localVars

Drops(s) ==
    /\ phase[s] = "up" /\ s \notin closing
    /\ Moves(s, "dropping")
    /\ UNCHANGED <<runner, session, latest, generation, pc>>
    /\ UNCHANGED userVars /\ UNCHANGED closeVars /\ UNCHANGED serverVars
    /\ UNCHANGED localVars

\* No request reaches the server by it any more.
RunnerEnds(s) ==
    /\ phase[s] = "dropping" \/ (phase[s] = "up" /\ s \in closing)
    /\ Moves(s, "done")
    /\ session' = Cleared(s)
    /\ known' = known \ {s}
    /\ UNCHANGED <<runner, latest, generation, provided, stale, renewals, pc>>
    /\ UNCHANGED userVars /\ UNCHANGED closeVars /\ UNCHANGED localVars

\* A restart, an expiry, or a replica that does not have the session.
Forgets(s) ==
    /\ s \in known
    /\ known' = known \ {s}
    /\ UNCHANGED <<provided, stale, renewals, pc>>
    /\ UNCHANGED userVars /\ UNCHANGED sessionVars /\ UNCHANGED closeVars
    /\ UNCHANGED localVars

\* Bound: no renewal of the last session's token.
TokenRenewed ==
    /\ provided /\ renewals < MaxRenewals /\ latest < MaxSessions
    /\ renewals' = renewals + 1
    /\ stale' = TRUE
    /\ UNCHANGED <<provided, known, pc>>
    /\ UNCHANGED userVars /\ UNCHANGED sessionVars /\ UNCHANGED closeVars
    /\ UNCHANGED localVars

-----------------------------------------------------------------------------
(* __aenter__ and __aexit__ *)

Enter ==
    /\ user = "out"
    /\ user' = "entering"
    /\ Opens
    /\ UNCHANGED <<popped, active, had, session, generation, pc>>
    /\ UNCHANGED closeVars /\ UNCHANGED serverVars /\ UNCHANGED localVars

Entered ==
    /\ user = "entering" /\ phase[latest] \in {"up", "dropping", "done"}
    /\ user' = "in"
    /\ active' = TRUE
    /\ generation' = generation + 1
    /\ UNCHANGED <<popped, had, runner, session, latest, phase, pc>>
    /\ UNCHANGED closeVars /\ UNCHANGED serverVars /\ UNCHANGED localVars

EnterFails ==
    /\ user = "entering" /\ phase[latest] = "refused"
    /\ user' = "exited"
    /\ runner' = 0
    /\ session' = 0
    /\ closing' = closing \union {latest}
    /\ UNCHANGED <<popped, active, had, latest, generation, phase, retired, closers, pc>>
    /\ UNCHANGED serverVars /\ UNCHANGED localVars

\* Every retired session is closed, whoever uses it.
\* Mutant: they are left to the calls that use them.
ClosedAtExit_Unused == {s \in retired : On(s) = {}}
ClosedAtExit == retired

ExitBegins ==
    /\ user = "in"
    /\ active' = FALSE
    /\ had' = latest
    /\ popped' = runner
    /\ runner' = 0
    /\ \/ /\ runner # 0
          /\ user' = "exiting"
          /\ closing' = closing \union {runner}
          /\ UNCHANGED <<retired, closers>>
       \/ /\ runner = 0
          /\ user' = "closing"
          /\ CloseRetired(ClosedAtExit)
    /\ UNCHANGED <<session, latest, generation, phase, pc>>
    /\ UNCHANGED serverVars /\ UNCHANGED localVars

\* The runner it took has ended.
ExitCloses ==
    /\ user = "exiting" /\ phase[popped] \in Over
    /\ user' = "closing"
    /\ popped' = 0
    /\ session' = 0
    /\ CloseRetired(ClosedAtExit)
    /\ UNCHANGED <<active, had, runner, latest, generation, phase, pc>>
    /\ UNCHANGED serverVars /\ UNCHANGED localVars

Exited ==
    /\ user = "closing" /\ closers = {}
    /\ user' = "exited"
    /\ UNCHANGED <<popped, active, had, pc>>
    /\ UNCHANGED sessionVars /\ UNCHANGED closeVars /\ UNCHANGED serverVars
    /\ UNCHANGED localVars

-----------------------------------------------------------------------------

Init ==
    /\ user = "out" /\ popped = 0 /\ active = FALSE /\ had = 0
    /\ runner = 0 /\ session = 0 /\ latest = 0 /\ generation = 0
    /\ phase = [s \in Sessions |-> "none"]
    /\ retired = {} /\ closers = {} /\ closing = {}
    /\ provided \in BOOLEAN /\ known = {} /\ stale = FALSE /\ renewals = 0
    /\ pc = [c \in Calls |-> "idle"]
    /\ on = [c \in Calls |-> 0]
    /\ using = [c \in Calls |-> 0]
    /\ seen = [c \in Calls |-> 0]
    /\ refused = {} /\ again = {} /\ served = {}

\* What a call does next without the server or its caller.
Proceeds(c) ==
    \/ GetsToken(c) \/ SkipsRenewal(c) \/ Renews(c) \/ SharesReconnect(c) \/ Reconnects(c)
    \/ OpensAgain(c) \/ Opened(c) \/ OpenFails(c) \/ Barrier(c) \/ Loses(c) \/ CleanedUp(c)
Call(c) ==
    \/ Begin(c) \/ Proceeds(c)
    \/ Runs(c) \/ Returns(c) \/ NotFound(c) \/ ConnectionClosed(c)
    \/ Cancelled(c) \/ RequestCancelled(c) \/ OpeningCancelled(c)
Handshake(s) == HandshakeDone(s) \/ HandshakeFails(s)
Runner(s) == Handshake(s) \/ Drops(s) \/ RunnerEnds(s) \/ Forgets(s) \/ CloserEnds(s)
User == Enter \/ Entered \/ EnterFails \/ ExitBegins \/ ExitCloses \/ Exited

Next ==
    \/ \E c \in Calls : Call(c)
    \/ \E s \in Sessions : Runner(s)
    \/ TokenRenewed \/ User

Spec == Init /\ [][Next]_vars

\* Every task that is not waiting for the server or its caller goes on: a
\* handshake and the closing of a session have timeouts, and so has a lost
\* connection.  The event loop only never stops while one of them can.
Progress ==
    \/ \E c \in Calls : Proceeds(c)
    \/ \E s \in Sessions : Handshake(s) \/ RunnerEnds(s) \/ CloserEnds(s)
    \/ Entered \/ EnterFails \/ ExitCloses \/ Exited

FairSpec == Spec /\ WF_vars(Progress)

-----------------------------------------------------------------------------
(* Properties *)

TypeOK ==
    /\ user \in {"out", "entering", "in", "exiting", "closing", "exited"}
    /\ popped \in Numbers
    /\ active \in BOOLEAN
    /\ had \in Numbers
    /\ runner \in Numbers
    /\ session \in Numbers
    /\ latest \in Numbers
    /\ generation \in Nat
    /\ retired \subseteq Sessions /\ closers \subseteq Sessions
    /\ phase \in [Sessions -> Phases]
    /\ closing \subseteq Sessions /\ known \subseteq Sessions
    /\ provided \in BOOLEAN /\ stale \in BOOLEAN
    /\ renewals \in 0 .. MaxRenewals
    /\ pc \in [Calls -> Places]
    /\ on \in [Calls -> Numbers]
    /\ using \in [Calls -> Numbers]
    /\ seen \in [Calls -> Nat]
    /\ refused \subseteq Calls /\ again \subseteq Calls /\ served \subseteq Calls

\* No session is left open with nobody to close it: it is the client's own, or
\* was told to close, or it is retired and a call still uses it, or the call
\* that renews is about to look.
NoOrphan ==
    \A s \in Sessions :
        phase[s] \in Alive =>
            \/ s = runner \/ s \in closing
            \/ /\ s \in retired
               /\ On(s) # {} \/ \E c \in Calls : pc[c] \in {"renewing", "cleanup"}

\* When __aexit__ is over, every session that was open when it began is closed,
\* or a call that found it gone is closing it.  (A call that was re-opening the
\* session meanwhile does open one, which nobody closes.)
ExitLeavesNothing ==
    user = "exited" => \A s \in Sessions : phase[s] \in Alive /\ s <= had => s \in closing

\* A session retired for a new token is closed only when no call uses it any
\* more, and none comes to use it then: its calls finish there.  Only __aexit__
\* cuts them off.
RetiredFinishes == active => \A s \in closers : On(s) = {}

\* The calls that find the same session gone open one new session between them:
\* a re-initialisation never closes a session that is up and that the server knows.
HealthyKept ==
    [][\A c \in Calls : pc[c] # "shutdown" /\ pc'[c] = "shutdown"
        => ~active \/ phase[runner] # "up" \/ runner \notin known]_vars

Raced(c) == on[c] = using[c]

\* A call whose session ends does not wait for ever, and neither does one that
\* waits for another call's re-initialisation: again and again every call is
\* over, not begun, or waiting for the answer of a server that still has it.
\* The calls that are left pending are those raced with no runner, or with that
\* of another session.
Settled(c) ==
    \/ pc[c] \in {"idle"} \union Finished
    \/ pc[c] = "asked" /\ (phase[using[c]] \notin Over \/ ~Raced(c))
FailsFast == []<>(\A c \in Calls : Settled(c))

=============================================================================
