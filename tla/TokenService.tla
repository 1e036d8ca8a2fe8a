----------------------------- MODULE TokenService -----------------------------
(***************************************************************************)
(* service/token_service.go, and the entry points that call it: the portal *)
(* (redeem, resume), RADIUS Access-Request (auth), the admin's revocation  *)
(* and the expiry sweep task.  A redeem runs in one transaction that holds *)
(* the token row FOR UPDATE (the memory store's mutex); the other handlers *)
(* run without a transaction.                                              *)
(***************************************************************************)
EXTENDS GatewayIntegration

VARIABLE
  granted    \* by token, the pairs (device, session) a redeem or resume let in

TokenInit == granted = [t \in Tokens |-> {}]

\* One iteration of GenerateTokens: a fresh row
GenerateToken(t) ==
  /\ token[t].status = "absent"
  /\ token' = [token EXCEPT ![t] = UnusedToken]
  /\ UNCHANGED <<session, ledger, lock, now, requestVars, gatewayVars, granted>>

------------------------------------------------------------------------------
(* RedeemToken, ResumeToken and Authenticate *)

\* redeemUnsafe is entered with its clock read; strict is requireActive
Enter(p, op, r, strict) ==
  /\ Room
  /\ Arrives(p, op)
  /\ \E t \in Tokens, m \in Macs :
       Goto(p, "redeem", [NoFrame EXCEPT !.op = op, !.tid = t, !.mac = m, !.rid = r,
                                         !.at = now, !.strict = strict])
  /\ UNCHANGED <<storeVars, faults, gatewayVars, granted>>

\* The portal's two requests know no RADIUS session
BeginPortal(p) ==
  \E op \in {"redeem", "resume"} : Enter(p, op, None, op = "resume")

\* An Access-Request; Authenticate resumes first
BeginAuth(p) == \E r \in RadiusIds \cup {None} : Enter(p, "auth", r, TRUE)

BeginRedeem(p) == BeginPortal(p) \/ BeginAuth(p)

\* ErrInvalidToken: Authenticate tries again with RedeemToken
InvalidToken(p) ==
  IF loc[p].op = "auth" /\ loc[p].strict
  THEN Goto(p, "redeem", [loc[p] EXCEPT !.strict = FALSE, !.at = now, !.tok = AbsentToken])
  ELSE Finish(p)

RedeemUnknown(p) ==
  /\ pc[p] = "redeem"
  /\ token[loc[p].tid].status = "absent"
  /\ InvalidToken(p)
  /\ UNCHANGED <<storeVars, faults, gatewayVars, granted>>

\* The clock is read inside WithTx: after the memory store's mutex is taken, but
\* before the wait for a row lock
LockedAt(p) == IF Backend = "memory" THEN now ELSE loc[p].at

\* Mutant: a SELECT without FOR UPDATE
RedeemLockNot(p) ==
  /\ pc[p] = "redeem"
  /\ LET t == loc[p].tid IN
       /\ token[t].status # "absent"
       /\ Goto(p, "locked", [loc[p] EXCEPT !.tok = token[t]])
  /\ UNCHANGED <<storeVars, faults, gatewayVars, granted>>

\* Mutant: the memory store's WithTx does not take the mutex
RedeemLockShared(p) ==
  /\ pc[p] = "redeem"
  /\ LET t == loc[p].tid IN
       /\ token[t].status # "absent" /\ lock[t] = None
       /\ lock' = [lock EXCEPT ![t] = IF Backend = "memory" THEN None ELSE p]
       /\ Goto(p, "locked", [loc[p] EXCEPT !.tok = token[t], !.at = LockedAt(p)])
  /\ UNCHANGED <<token, session, ledger, now, faults, gatewayVars, granted>>

\* SELECT ... FOR UPDATE
RedeemLock(p) ==
  /\ pc[p] = "redeem"
  /\ LET t == loc[p].tid IN
       /\ token[t].status # "absent" /\ lock[t] = None
       /\ lock' = [lock EXCEPT ![t] = p]
       /\ Goto(p, "locked", [loc[p] EXCEPT !.tok = token[t], !.at = LockedAt(p)])
  /\ UNCHANGED <<token, session, ledger, now, faults, gatewayVars, granted>>

\* Mutant: the expiry is not tested
HoldsAnyTime(p) == pc[p] = "locked"

\* A locked row that ensureNotExpired lets pass
Holds(p) == pc[p] = "locked" /\ ~Overdue(loc[p].tok, loc[p].at)

\* An unused token cannot be resumed; the transaction rolls back
ResumeUnused(p) ==
  /\ Holds(p)
  /\ loc[p].tok.status = "unused" /\ loc[p].strict
  /\ Unlock(p)
  /\ InvalidToken(p)
  /\ UNCHANGED <<token, session, ledger, now, faults, gatewayVars, granted>>

\* Mutant: the refusal returns without a rollback
RedeemRefusedOpen(p) ==
  /\ Holds(p)
  /\ \/ loc[p].tok.status \in TerminalStatus
     \/ loc[p].tok.status = "active" /\ loc[p].tok.mac # loc[p].mac
  /\ Finish(p)
  /\ UNCHANGED <<storeVars, faults, gatewayVars, granted>>

\* ErrTokenDeviceBound, ErrTokenRevoked, ErrTokenConsumed, ErrTokenExpired
RedeemRefused(p) ==
  /\ Holds(p)
  /\ \/ loc[p].tok.status \in TerminalStatus
     \/ loc[p].tok.status = "active" /\ loc[p].tok.mac # loc[p].mac
  /\ Unlock(p)
  /\ Finish(p)
  /\ UNCHANGED <<token, session, ledger, now, faults, gatewayVars, granted>>

\* ensureNotExpired finds the locked row overdue
Expires(p) == pc[p] = "locked" /\ Overdue(loc[p].tok, loc[p].at)

\* DisconnectSession inside the transaction: what it asks of the gateway and of
\* the task queue stays, whatever becomes of the transaction
CutsExpired(s, ok) ==
  /\ \E cut \in BOOLEAN : Disconnects(ok, cut) /\ Cut(s, cut)
  /\ IF ok THEN UNCHANGED <<queue, faults>> ELSE QueueRetry(s, "expired", 0)

\* ensureNotExpired marks the token expired, ends its session and has it
\* disconnected, and then returns an error: Postgres rolls the rows back
RedeemExpired(p) ==
  /\ Backend = "postgres"
  /\ Expires(p)
  /\ LET S == GetActiveSessionByToken(loc[p].tid) IN
       \/ S = {} /\ UNCHANGED <<faults, gatewayVars>>
       \/ \E s \in S, ok \in BOOLEAN : CutsExpired(s, ok)
  /\ Unlock(p)
  /\ Finish(p)
  /\ UNCHANGED <<token, session, ledger, now, granted>>

\* Mutant: the session is left to the sweep
RedeemExpiredOpen(p) ==
  /\ Backend = "memory"
  /\ Expires(p)
  /\ token' = [token EXCEPT ![loc[p].tid] = Closed(loc[p].tok, "expired")]
  /\ Unlock(p)
  /\ Finish(p)
  /\ UNCHANGED <<session, ledger, now, faults, gatewayVars, granted>>

\* The memory store has no rollback: the rows stay written.  disconnect_pending
\* is cleared if the controller answered.
RedeemExpiredKept(p) ==
  /\ Backend = "memory"
  /\ Expires(p)
  /\ token' = [token EXCEPT ![loc[p].tid] = Closed(loc[p].tok, "expired")]
  /\ LET S == GetActiveSessionByToken(loc[p].tid) IN
       \/ S = {} /\ UNCHANGED <<session, faults, gatewayVars>>
       \/ \E s \in S, ok \in BOOLEAN :
            /\ CutsExpired(s, ok)
            /\ UpdateSession(s, EndedSession(session[s], "expired", ~ok))
  /\ Unlock(p)
  /\ Finish(p)
  /\ UNCHANGED <<ledger, now, granted>>

\* The response of a redeem: the device is let in with a session
Grant(p, s) ==
  /\ granted' = [granted EXCEPT ![loc[p].tid] = @ \cup {<<loc[p].mac, s>>}]
  /\ online' = online \cup {s}

\* Mutant: the token stays unused
ActivatedUnmarked(p) ==
  [status |-> "unused", mac |-> loc[p].mac,
   expires |-> loc[p].at + Duration[loc[p].tid]]

Activated(p) ==
  [status |-> "active", mac |-> loc[p].mac,
   expires |-> loc[p].at + Duration[loc[p].tid]]

\* The session row a request opens
Opened(p) == NewSession(loc[p].tid, loc[p].mac, loc[p].rid, loc[p].at, FALSE)

\* First redemption: the token and its session are written and commit together
RedeemActivate(p) ==
  /\ Holds(p)
  /\ loc[p].tok.status = "unused" /\ ~loc[p].strict
  /\ token' = [token EXCEPT ![loc[p].tid] = Activated(p)]
  /\ \E s \in Sessions :
       /\ CreateSession(p, s, Opened(p))
       /\ Grant(p, s)
  /\ Unlock(p)
  /\ Finish(p)
  /\ UNCHANGED <<ledger, now, faults, queue>>

\* Mutant: the device is not compared
ResumeFindAnyDevice(p) ==
  /\ Holds(p)
  /\ loc[p].tok.status = "active"
  /\ LET S == GetActiveSessionByToken(loc[p].tid) IN
       \/ S = {} /\ Goto(p, "found", loc[p])
       \/ \E s \in S :
            Goto(p, "found", [loc[p] EXCEPT !.sid = s, !.ses = session[s]])
  /\ UNCHANGED <<storeVars, faults, gatewayVars, granted>>

\* Mutant: the active session is not looked up
ResumeFindNone(p) ==
  /\ Holds(p)
  /\ loc[p].tok.status = "active" /\ loc[p].tok.mac = loc[p].mac
  /\ Goto(p, "found", loc[p])
  /\ UNCHANGED <<storeVars, faults, gatewayVars, granted>>

\* The bound device comes back: look up the active session inside the transaction
ResumeFind(p) ==
  /\ Holds(p)
  /\ loc[p].tok.status = "active" /\ loc[p].tok.mac = loc[p].mac
  /\ LET S == GetActiveSessionByToken(loc[p].tid) IN
       \/ S = {} /\ Goto(p, "found", loc[p])
       \/ \E s \in S :
            Goto(p, "found", [loc[p] EXCEPT !.sid = s, !.ses = session[s]])
  /\ UNCHANGED <<storeVars, faults, gatewayVars, granted>>

\* Mutant: "no active session" is not tested
ResumeAttachAny(p) ==
  /\ pc[p] = "found"
  /\ UpdateSession(loc[p].sid, Attached(loc[p].ses, loc[p].rid))
  /\ Grant(p, loc[p].sid)
  /\ Unlock(p)
  /\ Finish(p)
  /\ UNCHANGED <<token, ledger, now, faults, queue>>

\* Write the session row read by ResumeFind back with the caller's network data
ResumeAttach(p) ==
  /\ pc[p] = "found"
  /\ loc[p].sid # None
  /\ UpdateSession(loc[p].sid, Attached(loc[p].ses, loc[p].rid))
  /\ Grant(p, loc[p].sid)
  /\ Unlock(p)
  /\ Finish(p)
  /\ UNCHANGED <<token, ledger, now, faults, queue>>

\* No active session is left: open another one on the same token
ResumeReopen(p) ==
  /\ pc[p] = "found"
  /\ loc[p].sid = None
  /\ \E s \in Sessions :
       /\ CreateSession(p, s, Opened(p))
       /\ Grant(p, s)
  /\ Unlock(p)
  /\ Finish(p)
  /\ UNCHANGED <<token, ledger, now, faults, queue>>

------------------------------------------------------------------------------
(* RevokeToken *)

RevokeRead(p) ==
  /\ Arrives(p, "revoke")
  /\ \E t \in Tokens :
       /\ token[t].status # "absent"
       /\ Goto(p, "revoke_write",
               [NoFrame EXCEPT !.op = "revoke", !.tid = t,
                               !.tok = Closed(token[t], "revoked")])
  /\ UNCHANGED <<storeVars, faults, gatewayVars, granted>>

RevokeWrite(p) ==
  /\ pc[p] = "revoke_write"
  /\ UpdateToken(loc[p].tid, loc[p].tok)
  /\ Goto(p, "revoke_find", [loc[p] EXCEPT !.tok = AbsentToken])
  /\ UNCHANGED <<session, ledger, lock, now, faults, gatewayVars, granted>>

\* Mutant: the test for "no active session" is inverted
RevokeFindInverted(p) ==
  /\ pc[p] = "revoke_find"
  /\ GetActiveSessionByToken(loc[p].tid) # {}
  /\ Finish(p)
  /\ UNCHANGED <<storeVars, faults, gatewayVars, granted>>

\* A failing lookup counts as no session found
RevokeFind(p) ==
  /\ pc[p] = "revoke_find"
  /\ LET S == GetActiveSessionByToken(loc[p].tid) IN
       \/ S = {} /\ Finish(p) /\ UNCHANGED faults
       \/ S # {} /\ StoreFails /\ Finish(p)
       \/ \E s \in S :
            /\ Goto(p, "revoke_end",
                    [loc[p] EXCEPT !.sid = s,
                                   !.ses = EndedSession(session[s], "revoked", TRUE)])
            /\ UNCHANGED faults
  /\ UNCHANGED <<storeVars, gatewayVars, granted>>

RevokeEnd(p) ==
  /\ pc[p] = "revoke_end"
  /\ UpdateSession(loc[p].sid, loc[p].ses)
  /\ CallDisconnect(p, loc[p].sid, "revoked")
  /\ UNCHANGED <<token, ledger, lock, now, faults, gatewayVars, granted>>

------------------------------------------------------------------------------
(* SweepExpiredTokens, run by the sweep task *)

\* Read the clock and every token row; keep the active rows that are overdue.
\* A sweep that finds none changes nothing.
SweepList(p) ==
  /\ Dequeues(p, "sweep")
  /\ LET due == {t \in Tokens : token[t].status = "active" /\ Overdue(token[t], now)} IN
       /\ due # {}
       /\ Goto(p, "sweep", [NoFrame EXCEPT !.op = "sweep",
                                           !.todo = {<<t, token[t]>> : t \in due}])
  /\ UNCHANGED <<storeVars, faults, gatewayVars, granted>>

\* Mutant: the expired row is not saved
SweepExpireUnsaved(p) ==
  /\ pc[p] = "sweep"
  /\ \E d \in loc[p].todo :
       Goto(p, "sweep_find", [loc[p] EXCEPT !.tid = d[1], !.todo = @ \ {d}])
  /\ UNCHANGED <<storeVars, faults, gatewayVars, granted>>

SweepExpire(p) ==
  /\ pc[p] = "sweep"
  /\ \E d \in loc[p].todo :
       /\ UpdateToken(d[1], Closed(d[2], "expired"))
       /\ Goto(p, "sweep_find", [loc[p] EXCEPT !.tid = d[1], !.todo = @ \ {d}])
  /\ UNCHANGED <<session, ledger, lock, now, faults, gatewayVars, granted>>

\* A failing lookup counts as no session found
SweepFind(p) ==
  /\ pc[p] = "sweep_find"
  /\ LET S == GetActiveSessionByToken(loc[p].tid) IN
       \/ S = {} /\ Returned(p) /\ UNCHANGED faults
       \/ S # {} /\ StoreFails /\ Returned(p)
       \/ \E s \in S :
            /\ Goto(p, "sweep_end",
                    [loc[p] EXCEPT !.sid = s,
                                   !.ses = EndedSession(session[s], "expired", TRUE)])
            /\ UNCHANGED faults
  /\ UNCHANGED <<storeVars, gatewayVars, granted>>

SweepEnd(p) ==
  /\ pc[p] = "sweep_end"
  /\ UpdateSession(loc[p].sid, loc[p].ses)
  /\ CallDisconnect(p, loc[p].sid, "expired")
  /\ UNCHANGED <<token, ledger, lock, now, faults, gatewayVars, granted>>

------------------------------------------------------------------------------
TokenBegin(p) == BeginRedeem(p) \/ RevokeRead(p) \/ SweepList(p)

RedeemStep(p) ==
  \/ RedeemUnknown(p) \/ RedeemLock(p) \/ ResumeUnused(p) \/ RedeemRefused(p)
  \/ RedeemExpired(p) \/ RedeemExpiredKept(p) \/ RedeemActivate(p)
  \/ ResumeFind(p) \/ ResumeAttach(p) \/ ResumeReopen(p)

TokenStep(p) ==
  \/ RedeemStep(p)
  \/ RevokeWrite(p) \/ RevokeFind(p) \/ RevokeEnd(p)
  \/ SweepExpire(p) \/ SweepFind(p) \/ SweepEnd(p)
==============================================================================
