-------------------------------- MODULE WifiMan --------------------------------
(***************************************************************************)
(* The backend: token service, accounting and gateway integration over one *)
(* store, with handlers interleaved at every store and gateway call,       *)
(* handlers that die between two calls, and the clock.                     *)
(***************************************************************************)
EXTENDS TokenService, Accounting, Recovery

LOCAL INSTANCE FiniteSetsExt

CONSTANT MaxTime   \* bound: the clock stops there

ASSUME TimeAssumption == MaxTime \in Nat

vars == <<storeVars, requestVars, gatewayVars, granted, reported, backlog>>

Init == /\ StoreInit /\ RequestInit /\ GatewayInit
        /\ TokenInit /\ AccountingInit /\ RecoveryInit

\* A handler stops between two calls: its context was cancelled, the store
\* failed, or the process died.  Its transaction rolls back, what it committed
\* or asked for stays, and asynq redelivers a disconnect task.  The memory store
\* looks at no context, never fails, and is gone with its process.
Abort(p) ==
  /\ Backend = "postgres"
  /\ pc[p] # "idle"
  /\ Fault
  /\ Unlock(p)
  /\ Failed(p)
  /\ backlog' = [backlog EXCEPT ![p] = {}]
  /\ UNCHANGED <<token, session, ledger, now, online, granted, reported>>

Tick ==
  /\ now < MaxTime
  /\ now' = now + 1
  /\ UNCHANGED <<token, session, ledger, lock, requestVars, gatewayVars, granted,
                 reported, backlog>>

\* A request and its first store call; one that has to wait for the memory
\* store's mutex counts as arriving when it gets it
Begin(p) ==
  /\ MutexFree(p)
  /\ \/ TokenBegin(p) /\ UNCHANGED <<reported, backlog>>
     \/ AccountingBegin(p) /\ UNCHANGED <<granted, backlog>>
     \/ GatewayBegin(p) /\ UNCHANGED <<granted, reported, backlog>>
     \/ RecoverList(p) /\ UNCHANGED <<granted, reported>>

\* The next call of a handler in flight.  Only those to the controller do not
\* wait for the mutex.
Step(p) ==
  \/ /\ MutexFree(p)
     /\ \/ TokenStep(p) /\ UNCHANGED <<reported, backlog>>
        \/ AccountingStep(p) /\ UNCHANGED <<granted, backlog>>
        \/ GatewayStoreStep(p) /\ UNCHANGED <<granted, reported, backlog>>
        \/ RecoveryStep(p) /\ UNCHANGED <<granted, reported>>
  \/ ControllerStep(p) /\ UNCHANGED <<granted, reported, backlog>>

Next ==
  \/ \E t \in Tokens : /\ MutexFree(None)
                       /\ GenerateToken(t)
                       /\ UNCHANGED <<reported, backlog>>
  \/ \E p \in Procs : Begin(p) \/ Step(p) \/ Abort(p)
  \/ Tick

Spec == Init /\ [][Next]_vars

------------------------------------------------------------------------------
\* Every variable has its type
TypeOK ==
  /\ token \in [Tokens -> TokenRow]
  /\ session \in [Sessions -> SessionRow]
  /\ ledger \in [Sessions -> Nat]
  /\ lock \in [Tokens -> Procs \cup {None}]
  /\ now \in Nat
  /\ pc \in [Procs -> Labels]
  /\ loc \in [Procs -> Frame]
  /\ faults \in Nat
  /\ queue \in [Payload -> Nat]
  /\ online \subseteq Sessions
  /\ granted \in [Tokens -> SUBSET (Macs \X Sessions)]
  /\ backlog \in [Procs -> SUBSET (Sessions \X SessionRow)]
  /\ reported \in [Sessions -> Nat]

\* "Binds token to first device MAC": all the grants of a token, over any
\* history of redeems, resumes and RADIUS logins, went to one device
OneDevicePerToken ==
  \A t \in Tokens : \A g, h \in granted[t] : g[1] = h[1]

\* A token that was revoked, consumed or expired never becomes usable again,
\* although every non-transactional handler overwrites whole stale rows
TerminalIsFinal ==
  [][\A t \in Tokens : Terminal(t) => Terminal(t)']_vars

\* A device is let in only while the committed token row is active, bound to
\* that device, and not overdue at the instant its request read the clock
GrantOnlyLive ==
  [][\A t \in Tokens : \A g \in granted'[t] \ granted[t] :
       /\ token'[t].status = "active"
       /\ token'[t].mac = g[1]
       /\ \E p \in Procs : loc[p].tid = t /\ loc[p].at < token'[t].expires]_vars

\* The abstract promise of the token service, as a refinement
Phase(row) == IF row.status \in TerminalStatus THEN "over" ELSE row.status

V == INSTANCE Voucher WITH
       Devices <- Macs,
       phase   <- [t \in Tokens |-> Phase(token[t])],
       holders <- [t \in Tokens |-> {g[1] : g \in granted[t]}],
       served  <- [t \in Tokens |-> {g[2] : g \in granted[t]}]

VoucherSpec == V!Spec

\* A token has at most one active session while no accounting report writes
\* stale session rows
OneActiveSession ==
  \A t \in Tokens : \A r, s \in ActiveSessions(t) : r = s

\* README, Revocation: "Active session is marked ended".  Once nothing is in
\* flight, a revoked token has no active session.
RevocationEndsSessions ==
  Quiet => \A t \in Tokens : token[t].status = "revoked" => ActiveSessions(t) = {}

\* Once nothing is in flight, no session of a token that is over is left active:
\* revocation, sweep, an expired redeem and recovery each write the token and the
\* session one after the other, and race with each other and with resumes
OverEndsSessions ==
  Quiet => \A t \in Tokens : Terminal(t) => ActiveSessions(t) = {}

\* While no accounting report writes stale session rows, an ended session stays
\* ended.  A resume writes back the row it read: only the memory store, whose
\* WithTx keeps every other store call out, guarantees this.
EndedStaysEnded ==
  [][\A s \in Sessions : session[s].status = "ended" => session'[s].status = "ended"]_vars

\* Recovery decides on a token row and a list of sessions read earlier, and yet
\* closes no session whose token could still be used
RecoveredIsOver ==
  \A s \in Sessions :
    session[s].reason = "recovered_closed" =>
      LET t == session[s].tok IN Terminal(t) \/ Overdue(token[t], now)

\* A recovery that runs to its end, whatever the controller answers it, leaves no
\* session active whose token had expired before it read the clock
RecoveryEndsOverdue ==
  [][\A p \in Procs : loc[p].op = "recover" /\ pc'[p] = "idle" =>
       \A s \in Sessions :
         session[s].status = "active" =>
           LET until == token[session[s].tok].expires IN until = 0 \/ loc[p].at <= until]_vars

\* Some handler is still working on s, or a retry task for it is queued
Tracked(s) ==
  \/ \E p \in Procs : loc[p].sid = s
  \/ \E why \in EndReason : queue[<<s, why>>] > 0

\* s ended because the time of its token is up.  A revocation that read the row
\* before its activation may have taken the expiry away since.
Lapsed(s) ==
  /\ session[s].reason \in {"expired", "recovered_closed"}
  /\ token[session[s].tok].expires <= now

\* With asynq on, an ended session the gateway still forwards is never forgotten,
\* unless it lapsed: a redeem that finds the token overdue rolls back the end it
\* queued a retry for, and a resume that read the clock earlier can then let the
\* session in after that retry was answered and before it clears the row.  A revoked
\* session is never forgotten.
EndedIsTracked ==
  \A s \in online : session[s].status = "ended" => Tracked(s) \/ Lapsed(s)

\* disconnect_pending is never left behind in a row nobody will look at again
PendingIsTracked ==
  \A s \in Sessions : session[s].pending => Tracked(s)

\* Quota exhaustion is reported in two places that are written one after the
\* other; once nothing is in flight they agree: the token of a session that
\* ended with data_limit_reached is over
QuotaEndConsumesToken ==
  Quiet => \A s \in Sessions :
             session[s].reason = "data_limit_reached" => Terminal(session[s].tok)

\* usage_records account for at least every byte a session's counter shows
LedgerCoversCounter ==
  Quiet => \A s \in Sessions : session[s].bytes <= ledger[s]

\* "Quota logic compares cumulative bytes with plan data_limit_mb": once nothing is
\* in flight, a token whose usage records reach its plan's limit is over
QuotaSeesAllUsage ==
  Quiet => \A t \in Tokens :
             LET usage == MapThenSumSet(LAMBDA s : ledger[s],
                                        {s \in Sessions : session[s].tok = t})
             IN DataLimit[t] > 0 /\ usage >= DataLimit[t] => Terminal(t)

\* RADIUS counters are absolute: a session is never charged more than the
\* network access server ever reported for it
RadiusCountedOnce ==
  \A s \in Sessions : session[s].bytes <= reported[s]

------------------------------------------------------------------------------
(* Every store call, gateway call and lock wait ends (pgx and HTTP calls have
   deadlines, Postgres queues the waiters of a row lock in order), so a handler
   is not stuck for ever between two calls; asynq keeps starting sweeps and
   retry tasks. *)
Scheduling ==
  /\ \A p \in Procs : SF_vars(Step(p))
  /\ \A w \in Workers :
       /\ SF_vars(SweepList(w) /\ MutexFree(w) /\ UNCHANGED <<reported, backlog>>)
       /\ SF_vars(BeginRetry(w) /\ MutexFree(w) /\ UNCHANGED <<granted, reported, backlog>>)

FairSpec == Spec /\ Scheduling

\* The gateway answers a retry task if it is asked again and again
GatewayAnswers ==
  \A w \in Workers : SF_vars(GatewayAck(w) /\ UNCHANGED <<granted, reported, backlog>>)

\* No request waits for ever, on a row lock in particular
RequestsFinish ==
  \A p \in Procs : pc[p] # "idle" ~> pc[p] = "idle"

\* Every overdue token is swept, even if every disconnect fails and so stops the
\* sweep that asked for it
OverdueIsSwept ==
  \A t \in Tokens : token[t].status = "active" /\ Overdue(token[t], now) ~> Terminal(t)

\* The gateway stops forwarding the sessions of a token that is over, if it
\* answers in the end and no handler died or lost a call on the way
OverGoesOffline ==
  GatewayAnswers =>
    \A t \in Tokens, s \in Sessions :
      Terminal(t) /\ session[s].tok = t /\ s \in online ~> s \notin online \/ faults > 0
==============================================================================
