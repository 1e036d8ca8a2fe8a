----------------------------- MODULE SessionProofs -----------------------------
(***************************************************************************)
(* For every instance in which no accounting report writes stale session   *)
(* rows (TLC shows that they fail otherwise): a token's sessions exclude   *)
(* one another, with the memory store an ended session stays ended, and a  *)
(* token that is over leaves no session active.  For every instance in     *)
(* which no caller supplies the row: disconnect_pending is never set       *)
(* without somebody working on it.                                         *)
(***************************************************************************)
EXTENDS WifiManProofs

\* A handler about to make call l carries no row that could reopen a session
Harmless(l, f) ==
  /\ l \notin StaleLabels \cup {"found"}
  /\ l \in EndingLabels => f.ses.status = "ended"
  /\ l \in {"redeem", "locked"} => f.sid = None

\* The step of a handler that ends sessions, if it writes any
Moves(p) == \E l, f : Goto(p, l, f) /\ Harmless(l, f)
Ends     == \A s \in Sessions : session'[s] = session[s] \/ session'[s].status = "ended"
Ending(p) == Moves(p) /\ Ends

\* Labels at which a frame does not matter
LEMMA FreeLabels ==
  \A l \in {"idle", "recover", "sweep", "dc_read", "revoke_write", "revoke_find",
            "sweep_find", "stop_read"} : \A f : Harmless(l, f)
BY DEF Harmless, StaleLabels, UsageLabels, EndingLabels

\* Every row a handler closes is ended
LEMMA EndedRows ==
  ASSUME NEW row \in SessionRow, NEW why, NEW b
  PROVE  /\ EndedSession(row, why, b).status = "ended"
         /\ Marked(row, why).status = "ended"
         /\ Pending(row, b).status = row.status
<1>1. EndedSession(row, why, b).status = "ended" /\ EndedSession(row, why, TRUE).status = "ended"
  BY DEF EndedSession, SessionRow
<1>2. Pending(row, b).status = row.status /\ Pending(row, TRUE).status = row.status
  BY DEF Pending, SessionRow
<1>3. QED
  BY <1>1, <1>2 DEF Marked

\* A handler that carries such a row
LEMMA EndedFrame ==
  ASSUME NEW f \in Frame, NEW s, NEW row, row.status = "ended", NEW l \in EndingLabels
  PROVE  /\ Harmless(l, [f EXCEPT !.sid = s, !.ses = row])
         /\ Harmless(l, [f EXCEPT !.ses = row])
<1>1. /\ [f EXCEPT !.sid = s, !.ses = row].ses = row
      /\ [f EXCEPT !.ses = row].ses = row
  BY DEF Frame
<1>2. QED
  BY <1>1 DEF Harmless, EndingLabels, StaleLabels, UsageLabels

------------------------------------------------------------------------------
(* How a step changes sessions *)

LEMMA ReturnedMoves ==
  ASSUME NEW p \in Procs, Returned(p) \/ GaveUp(p) \/ Failed(p) \/ Finish(p)
  PROVE  Moves(p)
BY FreeLabels DEF Returned, GaveUp, Failed, Finish, RecoverNext, Moves

LEMMA UpdateEnds ==
  ASSUME TokenInv, NEW s, NEW row, UpdateSession(s, row), row.status = "ended"
  PROVE  Ends
BY DEF Ends, UpdateSession, TokenInv, TypeOK

LEMMA InvalidTokenMoves ==
  ASSUME TokenInv, SessionInv, NEW p \in Procs, InvalidToken(p),
         pc[p] \in {"redeem", "locked"}
  PROVE  Moves(p)
<1>1. CASE Finish(p)
  BY <1>1, ReturnedMoves
<1>2. CASE Goto(p, "redeem", [loc[p] EXCEPT !.strict = FALSE, !.at = now, !.tok = AbsentToken])
  <2> DEFINE f == [loc[p] EXCEPT !.strict = FALSE, !.at = now, !.tok = AbsentToken]
  <2>1. f.sid = None
    <3>1. loc[p] \in Frame /\ loc[p].sid = None
      BY Known DEF SessionInv, FramesEnd
    <3>2. f.sid = loc[p].sid
      BY <3>1 DEF Frame
    <3>3. QED
      BY <3>1, <3>2
  <2>2. Harmless("redeem", f)
    BY <2>1 DEF Harmless, StaleLabels, UsageLabels, EndingLabels
  <2>3. QED
    BY <1>2, <2>2 DEF Moves
<1>3. QED
  BY <1>1, <1>2 DEF InvalidToken

LEMMA RedeemEnding ==
  ASSUME TokenInv, SessionInv, NEW p \in Procs,
         \/ BeginRedeem(p) \/ RedeemUnknown(p) \/ RedeemLock(p) \/ ResumeUnused(p)
         \/ RedeemRefused(p) \/ RedeemExpired(p) \/ RedeemExpiredKept(p)
  PROVE  Ending(p)
<1>1. CASE BeginRedeem(p)
  <2>0. PICK op \in {"redeem", "resume", "auth"}, r \in RadiusIds \cup {None},
             strict \in BOOLEAN : Enter(p, op, r, strict)
    BY <1>1 DEF BeginRedeem, BeginPortal, BeginAuth
  <2>1. PICK t \in Tokens, m \in Macs :
          /\ Goto(p, "redeem", [NoFrame EXCEPT !.op = op, !.tid = t, !.mac = m, !.rid = r,
                                               !.at = now, !.strict = strict])
          /\ session' = session
    BY <2>0 DEF Enter, storeVars
  <2> DEFINE f == [NoFrame EXCEPT !.op = op, !.tid = t, !.mac = m, !.rid = r,
                                  !.at = now, !.strict = strict]
  <2>2. f.sid = None
    BY DEF NoFrame
  <2>3. Harmless("redeem", f)
    BY <2>2 DEF Harmless, StaleLabels, UsageLabels, EndingLabels
  <2>4. QED
    BY <2>1, <2>3 DEF Ending, Moves, Ends
<1>2. CASE RedeemUnknown(p)
  BY <1>2, InvalidTokenMoves DEF RedeemUnknown, storeVars, Ending, Ends
<1>3. CASE RedeemLock(p)
  <2> DEFINE f == [loc[p] EXCEPT !.tok = token[loc[p].tid], !.at = LockedAt(p)]
  <2>1. Goto(p, "locked", f) /\ session' = session /\ pc[p] = "redeem"
    BY <1>3 DEF RedeemLock
  <2>2. f.sid = None
    BY <2>1, Known DEF SessionInv, FramesEnd, Frame
  <2>3. Harmless("locked", f)
    BY <2>2 DEF Harmless, StaleLabels, UsageLabels, EndingLabels
  <2>4. QED
    BY <2>1, <2>3 DEF Ending, Moves, Ends
<1>4. CASE ResumeUnused(p)
  BY <1>4, InvalidTokenMoves DEF ResumeUnused, Holds, Ending, Ends
<1>5. CASE RedeemRefused(p) \/ RedeemExpired(p)
  BY <1>5, ReturnedMoves DEF RedeemRefused, RedeemExpired, Ending, Ends
<1>6. CASE RedeemExpiredKept(p)
  <2>1. Moves(p)
    BY <1>6, ReturnedMoves DEF RedeemExpiredKept
  <2>2. CASE session' = session
    BY <2>1, <2>2 DEF Ending, Ends
  <2>3. ASSUME NEW s \in GetActiveSessionByToken(loc[p].tid), NEW ok \in BOOLEAN,
               UpdateSession(s, EndedSession(session[s], "expired", ~ok))
        PROVE  Ends
    <3>1. loc[p].tid \in Tokens
      BY <1>6, InTx DEF RedeemExpiredKept, Expires, TxLabels
    <3>2. EndedSession(session[s], "expired", ~ok).status = "ended"
      BY <3>1, ActiveFound, EndedRows
    <3>3. QED
      BY <2>3, <3>2, UpdateEnds
  <2>4. QED
    BY <1>6, <2>1, <2>2, <2>3 DEF RedeemExpiredKept, Ending
<1>7. QED
  BY <1>1, <1>2, <1>3, <1>4, <1>5, <1>6

\* The look-up that a revocation or a sweep ends a session with
LEMMA FindMoves ==
  ASSUME TokenInv, NEW p \in Procs, NEW t \in Tokens, NEW s \in GetActiveSessionByToken(t),
         NEW l \in {"revoke_end", "sweep_end"}, NEW why,
         Goto(p, l, [loc[p] EXCEPT !.sid = s, !.ses = EndedSession(session[s], why, TRUE)])
  PROVE  Moves(p)
<1> DEFINE row == EndedSession(session[s], why, TRUE)
<1>1. row.status = "ended"
  <2>1. session[s] \in SessionRow
    BY ActiveFound
  <2>2. QED
    BY <2>1 DEF EndedSession, SessionRow
<1>2. l \in EndingLabels /\ loc[p] \in Frame
  BY Known DEF EndingLabels
<1> HIDE DEF row
<1>3. Harmless(l, [loc[p] EXCEPT !.sid = s, !.ses = row])
  BY <1>1, <1>2, EndedFrame
<1>4. QED
  BY <1>3 DEF Moves, row

LEMMA CloseEnding ==
  ASSUME TokenInv, SessionInv, NEW p \in Procs,
         \/ RevokeRead(p) \/ RevokeWrite(p) \/ RevokeFind(p) \/ RevokeEnd(p)
         \/ SweepList(p) \/ SweepExpire(p) \/ SweepFind(p) \/ SweepEnd(p)
  PROVE  Ending(p)
<1>1. CASE RevokeRead(p) \/ SweepList(p)
  BY <1>1, FreeLabels DEF RevokeRead, SweepList, storeVars, Ending, Moves, Ends
<1>2. CASE RevokeWrite(p) \/ SweepExpire(p)
  BY <1>2, FreeLabels DEF RevokeWrite, SweepExpire, Ending, Moves, Ends
<1>3. CASE RevokeFind(p) \/ SweepFind(p)
  <2>1. session' = session /\ loc[p].tid \in Tokens
    BY <1>3, Known DEF RevokeFind, SweepFind, storeVars, FrameOK, TokenLabels
  <2>2. Moves(p)
    BY <1>3, <2>1, FindMoves, ReturnedMoves DEF RevokeFind, SweepFind
  <2>3. QED
    BY <2>1, <2>2 DEF Ending, Ends
<1>4. CASE RevokeEnd(p) \/ SweepEnd(p)
  <2>1. UpdateSession(loc[p].sid, loc[p].ses) /\ loc[p].ses.status = "ended"
    BY <1>4 DEF RevokeEnd, SweepEnd, SessionInv, FramesEnd, EndingLabels
  <2>2. Moves(p)
    BY <1>4, FreeLabels DEF RevokeEnd, SweepEnd, CallDisconnect, Moves
  <2>3. QED
    BY <2>1, <2>2, UpdateEnds DEF Ending
<1>5. QED
  BY <1>1, <1>2, <1>3, <1>4

LEMMA GatewayEnding ==
  ASSUME TokenInv, SessionInv, NEW p \in Procs,
         GatewayBegin(p) \/ GatewayStoreStep(p) \/ ControllerStep(p)
  PROVE  Ending(p)
<1>1. CASE BeginDisconnect(p) \/ BeginRetry(p)
  BY <1>1, FreeLabels DEF BeginDisconnect, BeginRetry, storeVars, Ending, Moves, Ends
<1>2. CASE DisconnectRead(p)
  <2> DEFINE row == session[loc[p].sid]
             f   == [loc[p] EXCEPT !.ses = Marked(row, loc[p].reason)]
  <2>1. session' = session /\ row \in SessionRow
    BY <1>2, Known DEF DisconnectRead, storeVars, SessionLabels
  <2>2. CASE Goto(p, "dc_mark", f)
    <3>1. Marked(row, loc[p].reason).status = "ended"
      BY <2>1, EndedRows
    <3>2. Harmless("dc_mark", f)
      BY <3>1, Known, EndedFrame DEF EndingLabels
    <3>3. QED
      BY <2>1, <2>2, <3>2 DEF Ending, Moves, Ends
  <2>3. QED
    BY <1>2, <2>1, <2>2, ReturnedMoves DEF DisconnectRead, Ending, Ends
<1>3. CASE DisconnectMark(p)
  <2>1. /\ UpdateSession(loc[p].sid, loc[p].ses) /\ loc[p].ses.status = "ended"
        /\ Goto(p, "dc_call", loc[p])
    BY <1>3 DEF DisconnectMark, SessionInv, FramesEnd, EndingLabels
  <2>2. Harmless("dc_call", loc[p])
    BY <2>1 DEF Harmless, StaleLabels, UsageLabels
  <2>3. QED
    BY <2>1, <2>2, UpdateEnds DEF Ending, Moves
<1>4. CASE GatewayAck(p)
  <2> DEFINE f == [loc[p] EXCEPT !.ses = Pending(loc[p].ses, FALSE)]
  <2>1. session' = session /\ loc[p].ses.status = "ended" /\ Goto(p, "dc_clear", f)
    BY <1>4 DEF GatewayAck, SessionInv, FramesEnd, EndingLabels, storeVars
  <2>2. Pending(loc[p].ses, FALSE).status = "ended"
    BY <2>1, Known, EndedRows
  <2>3. Harmless("dc_clear", f)
    BY <2>2, Known, EndedFrame DEF EndingLabels
  <2>4. QED
    BY <2>1, <2>3 DEF Ending, Moves, Ends
<1>5. CASE GatewayFail(p)
  BY <1>5, ReturnedMoves DEF GatewayFail, storeVars, Ending, Ends
<1>6. CASE DisconnectClear(p)
  <2>1. UpdateSession(loc[p].sid, loc[p].ses) /\ loc[p].ses.status = "ended"
    BY <1>6 DEF DisconnectClear, SessionInv, FramesEnd, EndingLabels
  <2>2. QED
    BY <1>6, <2>1, UpdateEnds, ReturnedMoves DEF DisconnectClear, Ending
<1>7. QED
  BY <1>1, <1>2, <1>3, <1>4, <1>5, <1>6 DEF GatewayBegin, GatewayStoreStep, ControllerStep

LEMMA RecoveryEnding ==
  ASSUME TokenInv, SessionInv, NEW p \in Procs, RecoverList(p) \/ RecoveryStep(p)
  PROVE  Ending(p)
<1>1. CASE RecoverList(p)
  BY <1>1, FreeLabels DEF RecoverList, storeVars, Ending, Moves, Ends
<1>2. CASE RecoverRead(p)
  <2>1. session' = session
    BY <1>2 DEF RecoverRead, storeVars
  <2>2. ASSUME NEW d \in backlog[p],
               Goto(p, "recover_end",
                    [loc[p] EXCEPT !.sid = d[1],
                                   !.ses = EndedSession(d[2], "recovered_closed", TRUE)])
        PROVE  Moves(p)
    <3> DEFINE row == EndedSession(d[2], "recovered_closed", TRUE)
    <3>1. d[2] \in SessionRow
      BY DEF TokenInv, TypeOK
    <3>2. row.status = "ended"
      BY <3>1 DEF EndedSession, SessionRow
    <3> HIDE DEF row
    <3>3. loc[p] \in Frame /\ "recover_end" \in EndingLabels
      BY Known DEF EndingLabels
    <3> DEFINE s == d[1]
    <3> HIDE DEF s
    <3>4. Harmless("recover_end", [loc[p] EXCEPT !.sid = s, !.ses = row])
      BY <3>2, <3>3, EndedFrame
    <3>5. QED
      BY <2>2, <3>4 DEF Moves, row, s
  <2>3. CASE RecoverNext(p)
    BY <2>1, <2>3, FreeLabels DEF RecoverNext, Ending, Moves, Ends
  <2>4. QED
    BY <1>2, <2>1, <2>2, <2>3 DEF RecoverRead, Ending, Ends
<1>3. CASE RecoverEnd(p)
  <2>1. UpdateSession(loc[p].sid, loc[p].ses) /\ loc[p].ses.status = "ended"
    BY <1>3 DEF RecoverEnd, SessionInv, FramesEnd, EndingLabels
  <2>2. Moves(p)
    BY <1>3, FreeLabels DEF RecoverEnd, CallDisconnect, Moves
  <2>3. QED
    BY <2>1, <2>2, UpdateEnds DEF Ending
<1>4. CASE RecoverDone(p)
  BY <1>4, ReturnedMoves DEF RecoverDone, storeVars, Ending, Ends
<1>5. QED
  BY <1>1, <1>2, <1>3, <1>4 DEF RecoveryStep

\* Of the accounting handlers only a stop report is left
LEMMA StopsOnly ==
  ASSUME SessionInv, Ops \cap StaleWriters = {}, NEW p \in Procs,
         AccountingBegin(p) \/ AccountingStep(p)
  PROVE  BeginStop(p) \/ StopRead(p) \/ StopWrite(p)
<1>1. ~StartFind(p) /\ ~BeginInterim(p) /\ ~AcctStart(p) /\ ~AcctUpdate(p)
  BY DEF StartFind, BeginInterim, AcctStart, AcctUpdate, Arrives, StaleWriters, PacketOps
<1>2. /\ ~StartSave(p) /\ ~StartCreate(p) /\ ~UsageRead(p) /\ ~UsageWrite(p)
      /\ ~UsageRecord(p) /\ ~QuotaCheck(p) /\ ~QuotaEnd(p) /\ ~QuotaConsume(p)
      /\ ~AcctTouch(p)
  BY DEF StartSave, StartCreate, UsageRead, UsageWrite, UsageRecord, QuotaCheck, QuotaEnd,
         QuotaConsume, AcctTouch, SessionInv, FramesEnd, StaleLabels, UsageLabels
<1>3. QED
  BY <1>1, <1>2 DEF AccountingBegin, AccountingStep

LEMMA AccountingEnding ==
  ASSUME TokenInv, SessionInv, Ops \cap StaleWriters = {}, NEW p \in Procs,
         AccountingBegin(p) \/ AccountingStep(p)
  PROVE  Ending(p)
<1>1. CASE BeginStop(p)
  BY <1>1, FreeLabels DEF BeginStop, storeVars, Ending, Moves, Ends
<1>2. CASE StopRead(p)
  <2> DEFINE row == session[loc[p].sid]
             f   == [loc[p] EXCEPT !.ses = EndedSession(row, "stop", FALSE)]
  <2>1. session' = session /\ row \in SessionRow
    BY <1>2, Known DEF StopRead, storeVars, SessionLabels
  <2>2. CASE Goto(p, "stop_write", f)
    <3>1. EndedSession(row, "stop", FALSE).status = "ended"
      BY <2>1 DEF EndedSession, SessionRow
    <3>2. Harmless("stop_write", f)
      BY <3>1, Known, EndedFrame DEF EndingLabels
    <3>3. QED
      BY <2>1, <2>2, <3>2 DEF Ending, Moves, Ends
  <2>3. QED
    BY <1>2, <2>1, <2>2, ReturnedMoves DEF StopRead, Ending, Ends
<1>3. CASE StopWrite(p)
  <2>1. UpdateSession(loc[p].sid, loc[p].ses) /\ loc[p].ses.status = "ended"
    BY <1>3 DEF StopWrite, SessionInv, FramesEnd, EndingLabels
  <2>2. QED
    BY <1>3, <2>1, UpdateEnds, ReturnedMoves DEF StopWrite, Ending
<1>4. QED
  BY <1>1, <1>2, <1>3, StopsOnly

\* The steps that are more than the end of sessions
Admits(p) == ResumeFind(p) \/ RedeemActivate(p) \/ ResumeAttach(p) \/ ResumeReopen(p)

\* Of all the steps of handlers, three let a device in, one decides which session it
\* gets, and the others only end sessions, if they write any
LEMMA HandlerKinds ==
  ASSUME TokenInv, SessionInv, Ops \cap StaleWriters = {}, NEW p \in Procs,
         Begin(p) \/ Step(p)
  PROVE  \/ Ending(p) /\ (session' = session \/ MutexFree(p))
         \/ Admits(p) /\ MutexFree(p)
<1>1. TokenBegin(p) \/ TokenStep(p) => Ending(p) \/ Admits(p)
  BY RedeemEnding, CloseEnding DEF TokenBegin, TokenStep, RedeemStep, Admits
<1>2. CASE Begin(p)
  BY <1>1, <1>2, AccountingEnding, GatewayEnding, RecoveryEnding DEF Begin
<1>3. CASE ControllerStep(p)
  BY <1>3, GatewayEnding DEF ControllerStep, GatewayAck, GatewayFail, storeVars
<1>4. CASE Step(p) /\ ~ControllerStep(p)
  BY <1>1, <1>4, AccountingEnding, GatewayEnding, RecoveryEnding DEF Step
<1>5. QED
  BY <1>2, <1>3, <1>4

LEMMA SessionKinds ==
  ASSUME TokenInv, SessionInv, Ops \cap StaleWriters = {}, [Next]_vars
  PROVE  \/ UNCHANGED <<pc, loc, session>>
         \/ \E p \in Procs : Ending(p) /\ (session' = session \/ MutexFree(p))
         \/ \E p \in Procs : Admits(p) /\ MutexFree(p)
<1>1. ASSUME NEW p \in Procs, Abort(p)
      PROVE  Ending(p) /\ session' = session
  BY <1>1, ReturnedMoves DEF Abort, Ending, Ends
<1>2. ASSUME NEW t \in Tokens, GenerateToken(t)
      PROVE  UNCHANGED <<pc, loc, session>>
  BY <1>2 DEF GenerateToken, requestVars
<1>3. CASE Tick \/ UNCHANGED vars
  BY <1>3 DEF Tick, vars, storeVars, requestVars
<1>4. QED
  BY <1>1, <1>2, <1>3, HandlerKinds DEF Next

------------------------------------------------------------------------------
(* The invariant *)

\* A step that ends sessions, if it writes any, keeps them exclusive
LEMMA EndingInv ==
  ASSUME TokenInv, SessionInv, NEW p \in Procs, Ending(p),
         session' = session \/ MutexFree(p),
         \A t \in Tokens : Begun(t) => Begun(t)'
  PROVE  SessionInv'
<1>1. PICK l, f : Goto(p, l, f) /\ Harmless(l, f)
  BY DEF Ending, Moves
<1>2. pc'[p] = l /\ loc'[p] = f
  BY <1>1 DEF Goto, TokenInv, TypeOK
<1>3. ASSUME NEW q \in Procs, q # p
      PROVE  pc'[q] = pc[q] /\ loc'[q] = loc[q]
  BY <1>1, <1>3 DEF Goto, TokenInv, TypeOK
<1>4. ASSUME NEW t \in Tokens
      PROVE  ActiveSessions(t)' \subseteq ActiveSessions(t)
  BY DEF Ending, Ends, ActiveSessions
<1>5. FoundAllOnly'
  <2> SUFFICES ASSUME NEW q \in Procs, pc'[q] = "found" PROVE FoundOnly(q)'
    BY DEF FoundAllOnly
  <2>1. q # p /\ pc[q] = "found" /\ loc'[q] = loc[q] /\ FoundOnly(q)
    BY <1>1, <1>2, <1>3 DEF Harmless, SessionInv, FoundAllOnly
  <2>2. loc[q].tid \in Tokens /\ lock[loc[q].tid] = q
    BY <2>1, InTx DEF TxLabels
  <2>3. Backend = "memory" => session' = session
    BY <2>1, <2>2, ProcAssumption DEF MutexFree
  <2>4. QED
    BY <1>4, <2>1, <2>2, <2>3 DEF FoundOnly
<1>6. FramesEnd'
  BY <1>1, <1>2, <1>3 DEF Harmless, SessionInv, FramesEnd
<1>7. UnbegunUnserved'
  BY <1>4 DEF SessionInv, UnbegunUnserved, Begun
<1>8. OneActiveSession'
  BY <1>4 DEF SessionInv, OneActiveSession
<1>9. QED
  BY <1>5, <1>6, <1>7, <1>8 DEF SessionInv

\* The end of a transaction that leaves its session, old or new, the only one
LEMMA AdmitInv ==
  ASSUME TokenInv, SessionInv, NEW p \in Procs, pc[p] \in TxLabels, MutexFree(p),
         Finish(p), NEW s \in Sessions, NEW row \in SessionRow, UpdateSession(s, row),
         NEW t, t = loc[p].tid, row.tok = t, ActiveSessions(t) \subseteq {s},
         Begun(t)', \A u \in Tokens : Begun(u) => Begun(u)'
  PROVE  SessionInv'
<1>1. t \in Tokens /\ lock[t] = p
  BY InTx
<1>2. pc'[p] = "idle" /\ loc'[p] = NoFrame
  BY DEF Finish, Goto, TokenInv, TypeOK
<1>3. ASSUME NEW q \in Procs, q # p
      PROVE  pc'[q] = pc[q] /\ loc'[q] = loc[q]
  BY <1>3 DEF Finish, Goto, TokenInv, TypeOK
<1>4. ActiveSessions(t)' \subseteq {s}
  BY DEF UpdateSession, ActiveSessions, TokenInv, TypeOK
<1>5. ASSUME NEW u \in Tokens, u # t
      PROVE  ActiveSessions(u)' \subseteq ActiveSessions(u)
  BY <1>5 DEF UpdateSession, ActiveSessions, TokenInv, TypeOK
<1>6. FoundAllOnly'
  <2> SUFFICES ASSUME NEW q \in Procs, pc'[q] = "found" PROVE FoundOnly(q)'
    BY DEF FoundAllOnly
  <2>1. q # p /\ pc[q] = "found" /\ loc'[q] = loc[q] /\ FoundOnly(q)
    BY <1>2, <1>3 DEF SessionInv, FoundAllOnly
  <2>2. loc[q].tid \in Tokens /\ lock[loc[q].tid] = q
    BY <2>1, InTx DEF TxLabels
  <2>3. Backend # "memory" /\ loc[q].tid # t
    BY <1>1, <2>1, <2>2, ProcAssumption DEF MutexFree
  <2>4. QED
    BY <1>5, <2>1, <2>2, <2>3 DEF FoundOnly
<1>7. FramesEnd'
  BY <1>2, <1>3 DEF SessionInv, FramesEnd, StaleLabels, UsageLabels, EndingLabels
<1>8. UnbegunUnserved'
  BY <1>5 DEF SessionInv, UnbegunUnserved, Begun
<1>9. OneActiveSession'
  BY <1>4, <1>5 DEF SessionInv, OneActiveSession
<1>10. QED
  BY <1>6, <1>7, <1>8, <1>9 DEF SessionInv

\* The look-up of a resume sees every active session of its token: a latest one
\* exists, since there is at most one
LEMMA LookupOnly ==
  ASSUME TokenInv, SessionInv, NEW t \in Tokens
  PROVE  /\ GetActiveSessionByToken(t) = {} => ActiveSessions(t) = {}
         /\ \A s \in GetActiveSessionByToken(t) : ActiveSessions(t) = {s}
<1>1. \A r, s \in ActiveSessions(t) : r = s
  BY DEF SessionInv, OneActiveSession
<1>2. \A s \in ActiveSessions(t) : session[s].started \in Nat
  BY DEF ActiveSessions, TokenInv, TypeOK, SessionRow
<1>3. \A s \in ActiveSessions(t) : s \in Latest(ActiveSessions(t))
  BY <1>1, <1>2 DEF Latest
<1>4. QED
  BY <1>1, <1>3 DEF GetActiveSessionByToken, Picked, Latest

LEMMA ResumeFindSession ==
  ASSUME TokenInv, SessionInv, NEW p \in Procs, ResumeFind(p)
  PROVE  SessionInv'
<1> DEFINE t == loc[p].tid
<1>1. pc[p] = "locked" /\ session' = session /\ token' = token
  BY DEF ResumeFind, Holds, storeVars
<1>2. t \in Tokens /\ loc[p].sid = None /\ loc[p] \in Frame
  BY <1>1, InTx, Known DEF TxLabels, SessionInv, FramesEnd
<1>3. PICK f : /\ Goto(p, "found", f) /\ f.tid = t /\ ActiveSessions(t) \subseteq {f.sid}
               /\ f.sid # None => /\ f.ses.tok = t
                                  /\ session[f.sid].status = "active"
  <2>1. CASE GetActiveSessionByToken(t) = {} /\ Goto(p, "found", loc[p])
    BY <1>2, <2>1, LookupOnly
  <2>2. ASSUME NEW s \in GetActiveSessionByToken(t),
               Goto(p, "found", [loc[p] EXCEPT !.sid = s, !.ses = session[s]])
        PROVE  \E f : /\ Goto(p, "found", f) /\ f.tid = t
                      /\ ActiveSessions(t) \subseteq {f.sid}
                      /\ f.sid # None => /\ f.ses.tok = t
                                         /\ session[f.sid].status = "active"
    <3> DEFINE f == [loc[p] EXCEPT !.sid = s, !.ses = session[s]]
    <3>1. f.sid = s /\ f.ses = session[s] /\ f.tid = t
      BY <1>2 DEF Frame
    <3>2. ActiveSessions(t) = {s} /\ session[s].status = "active" /\ session[s].tok = t
      BY <1>2, LookupOnly DEF ActiveSessions
    <3>3. QED
      BY <2>2, <3>1, <3>2
  <2>3. QED
    BY <2>1, <2>2 DEF ResumeFind
<1>4. pc'[p] = "found" /\ loc'[p] = f
  BY <1>3 DEF Goto, TokenInv, TypeOK
<1>5. ASSUME NEW q \in Procs, q # p
      PROVE  pc'[q] = pc[q] /\ loc'[q] = loc[q]
  BY <1>3, <1>5 DEF Goto, TokenInv, TypeOK
<1>6. \A u \in Tokens : ActiveSessions(u)' = ActiveSessions(u)
  BY <1>1 DEF ActiveSessions
<1>7. FoundAllOnly'
  <2> SUFFICES ASSUME NEW q \in Procs, pc'[q] = "found" PROVE FoundOnly(q)'
    BY DEF FoundAllOnly
  <2>1. CASE q = p
    BY <1>1, <1>2, <1>3, <1>4, <1>6, <2>1 DEF FoundOnly
  <2>2. CASE q # p
    <3>1. loc[q].tid \in Tokens /\ FoundOnly(q)
      BY <1>5, <2>2, InTx DEF TxLabels, SessionInv, FoundAllOnly
    <3>2. QED
      BY <1>1, <1>5, <1>6, <2>2, <3>1 DEF FoundOnly
  <2>3. QED
    BY <2>1, <2>2
<1>8. FramesEnd'
  BY <1>4, <1>5 DEF SessionInv, FramesEnd, StaleLabels, UsageLabels, EndingLabels
<1>9. UnbegunUnserved' /\ OneActiveSession'
  BY <1>1, <1>6 DEF SessionInv, UnbegunUnserved, OneActiveSession
<1>10. QED
  BY <1>7, <1>8, <1>9 DEF SessionInv

\* What a new session of a redeem or resume looks like
LEMMA OpenedSession ==
  ASSUME TokenInv, NEW p \in Procs, pc[p] \in TxLabels
  PROVE  Opened(p) \in SessionRow /\ Opened(p).tok = loc[p].tid
<1>1. loc[p].rid \in RadiusIds \cup {None} /\ loc[p].at \in Nat
  BY Known DEF Frame
<1>2. /\ loc[p].tid \in Tokens /\ token[loc[p].tid].status # "absent"
      /\ loc[p].mac \in Macs \cup {None}
  BY InTx
<1>3. \A at \in Nat : /\ NewSession(loc[p].tid, loc[p].mac, loc[p].rid, at, FALSE) \in SessionRow
                      /\ NewSession(loc[p].tid, loc[p].mac, loc[p].rid, at, FALSE).tok = loc[p].tid
  BY <1>1, <1>2, NewRow
<1>4. QED
  BY <1>1, <1>3 DEF Opened

LEMMA RedeemActivateSession ==
  ASSUME TokenInv, SessionInv, NEW p \in Procs, RedeemActivate(p), MutexFree(p),
         \A u \in Tokens : Begun(u) => Begun(u)'
  PROVE  SessionInv'
<1>0. PICK t : t = loc[p].tid
  OBVIOUS
<1>1. pc[p] \in TxLabels /\ Finish(p) /\ Begun(t)'
  BY <1>0, Activation DEF RedeemActivate, Holds, TxLabels, Begun
<1>2. ActiveSessions(t) = {}
  BY <1>0, Activation DEF SessionInv, UnbegunUnserved
<1>3. PICK s \in Sessions : UpdateSession(s, Opened(p))
  BY DEF RedeemActivate, CreateSession, UpdateSession
<1>4. QED
  BY <1>0, <1>1, <1>2, <1>3, OpenedSession, AdmitInv

LEMMA ResumeSession ==
  ASSUME TokenInv, SessionInv, NEW p \in Procs, ResumeAttach(p) \/ ResumeReopen(p),
         MutexFree(p), \A u \in Tokens : Begun(u) => Begun(u)'
  PROVE  SessionInv'
<1>0. PICK t : t = loc[p].tid
  OBVIOUS
<1>1. pc[p] = "found" /\ pc[p] \in TxLabels /\ Finish(p) /\ FoundOnly(p)
  BY DEF ResumeAttach, ResumeReopen, TxLabels, SessionInv, FoundAllOnly
<1>2. t \in Tokens /\ Begun(t)'
  BY <1>0, Resumption DEF Begun
<1>3. CASE ResumeAttach(p)
  <2> DEFINE row == Attached(loc[p].ses, loc[p].rid)
  <2>1. loc[p].sid \in Sessions /\ UpdateSession(loc[p].sid, row)
    BY <1>3, Known DEF ResumeAttach, Frame
  <2>2. row \in SessionRow /\ row.tok = t
    <3>1. loc[p].ses \in SessionRow /\ loc[p].ses.tok = t
      BY <1>0, <1>1, <2>1, Known, NullAssumption DEF FoundOnly
    <3>2. loc[p].rid \in RadiusIds \cup {None}
      BY Known DEF Frame
    <3>3. row \in SessionRow
      BY <3>1, <3>2, SessionRows
    <3>4. row.tok = loc[p].ses.tok
      BY <3>1 DEF Attached, SessionRow
    <3>5. QED
      BY <3>1, <3>3, <3>4
  <2>3. ActiveSessions(t) \subseteq {loc[p].sid}
    BY <1>0, <1>1 DEF FoundOnly
  <2>4. QED
    BY <1>0, <1>1, <1>2, <2>1, <2>2, <2>3, AdmitInv
<1>4. CASE ResumeReopen(p)
  <2>1. PICK s \in Sessions : UpdateSession(s, Opened(p))
    BY <1>4 DEF ResumeReopen, CreateSession, UpdateSession
  <2>2. ActiveSessions(t) = {}
    BY <1>0, <1>1, <1>4, NullAssumption DEF ResumeReopen, FoundOnly, ActiveSessions
  <2>3. QED
    BY <1>0, <1>1, <1>2, <2>1, <2>2, OpenedSession, AdmitInv
<1>5. QED
  BY <1>3, <1>4

\* A step that leaves handlers and sessions alone
LEMMA OthersInv ==
  ASSUME TokenInv, SessionInv, UNCHANGED <<pc, loc, session>>,
         \A u \in Tokens : Begun(u) => Begun(u)'
  PROVE  SessionInv'
<1>1. \A u \in Tokens : ActiveSessions(u)' = ActiveSessions(u)
  BY DEF ActiveSessions
<1>2. FoundAllOnly'
  <2> SUFFICES ASSUME NEW q \in Procs, pc'[q] = "found" PROVE FoundOnly(q)'
    BY DEF FoundAllOnly
  <2>1. loc[q].tid \in Tokens /\ FoundOnly(q)
    BY InTx DEF TxLabels, SessionInv, FoundAllOnly
  <2>2. QED
    BY <1>1, <2>1 DEF FoundOnly
<1>3. FramesEnd' /\ UnbegunUnserved' /\ OneActiveSession'
  BY <1>1 DEF SessionInv, FramesEnd, UnbegunUnserved, OneActiveSession, Begun
<1>4. QED
  BY <1>2, <1>3 DEF SessionInv

\* No step makes a token that was activated look unused
LEMMA BegunStep ==
  ASSUME TokenInv, [Next]_vars, NEW t \in Tokens, Begun(t)
  PROVE  Begun(t)'
<1>1. CASE UNCHANGED <<token, granted>>
  BY <1>1 DEF Begun
<1>2. ASSUME NEW u \in Tokens, GenerateToken(u) \/ Closes(u)
      PROVE  Begun(t)'
  BY <1>2, Closing, Issuing DEF Begun, TerminalStatus
<1>3. ASSUME NEW p \in Procs, RedeemActivate(p)
      PROVE  Begun(t)'
  <2>1. t # loc[p].tid
    BY <1>3, Activation DEF Begun
  <2>2. token'[t] = token[t]
    BY <1>3, <2>1 DEF RedeemActivate, TokenInv, TypeOK
  <2>3. QED
    BY <2>2 DEF Begun
<1>4. ASSUME NEW p \in Procs, ResumeAttach(p) \/ ResumeReopen(p)
      PROVE  Begun(t)'
  BY <1>4, Resumption DEF Begun
<1>5. QED
  BY <1>1, <1>2, <1>3, <1>4, StepKinds

LEMMA InitSession == Init => SessionInv
<1> SUFFICES ASSUME Init PROVE SessionInv
  OBVIOUS
<1>1. AbsentSession.status = "absent"
  BY DEF AbsentSession
<1>2. \A u \in Tokens : ActiveSessions(u) = {}
  BY <1>1 DEF Init, StoreInit, ActiveSessions
<1>3. FramesEnd /\ FoundAllOnly
  BY DEF Init, RequestInit, FramesEnd, FoundAllOnly, StaleLabels, UsageLabels, EndingLabels
<1>4. QED
  BY <1>2, <1>3 DEF SessionInv, UnbegunUnserved, OneActiveSession

LEMMA NextSession ==
  ASSUME TokenInv, SessionInv, Ops \cap StaleWriters = {}, [Next]_vars
  PROVE  SessionInv'
<1>1. \A u \in Tokens : Begun(u) => Begun(u)'
  BY BegunStep
<1>2. CASE UNCHANGED <<pc, loc, session>>
  BY <1>1, <1>2, OthersInv
<1>3. ASSUME NEW p \in Procs, Ending(p), session' = session \/ MutexFree(p)
      PROVE  SessionInv'
  BY <1>1, <1>3, EndingInv
<1>4. ASSUME NEW p \in Procs, Admits(p), MutexFree(p)
      PROVE  SessionInv'
  BY <1>1, <1>4, ResumeFindSession, RedeemActivateSession, ResumeSession DEF Admits
<1>5. QED
  BY <1>2, <1>3, <1>4, SessionKinds

\* While no accounting report writes stale session rows, no handler in flight can
\* reopen a session or open a second one, and a transaction that looked for an
\* active session still knows the only one
THEOREM SessionInvariant ==
  ASSUME Ops \cap StaleWriters = {}
  PROVE  Spec => []SessionInv
<1>1. Init => TokenInv /\ SessionInv
  BY InitInv, InitSession
<1>2. TokenInv /\ SessionInv /\ [Next]_vars => TokenInv' /\ SessionInv'
  BY NextInv, NextSession
<1>3. QED
  BY <1>1, <1>2, PTL DEF Spec

\* Two devices, or one device twice, redeeming and resuming one code next to
\* revocations, sweeps, disconnects, stop reports, recoveries and handlers that
\* die never leave it with two active sessions, with either store
THEOREM ExclusiveSessions ==
  ASSUME Ops \cap StaleWriters = {}
  PROVE  Spec => []OneActiveSession
<1>1. Spec => []SessionInv
  BY SessionInvariant
<1>2. SessionInv => OneActiveSession
  BY DEF SessionInv
<1>3. QED
  BY <1>1, <1>2, PTL

\* The one step that could undo an end writes back a row that the mutex kept active
LEMMA EndedStep ==
  ASSUME TokenInv, SessionInv, Ops \cap StaleWriters = {}, Backend = "memory",
         [Next]_vars, NEW s \in Sessions, session[s].status = "ended"
  PROVE  session'[s].status = "ended"
<1>1. CASE UNCHANGED <<pc, loc, session>>
  BY <1>1
<1>2. ASSUME NEW p \in Procs, Ending(p)
      PROVE  session'[s].status = "ended"
  BY <1>2 DEF Ending, Ends
<1>3. ASSUME NEW p \in Procs, Admits(p)
      PROVE  session'[s].status = "ended"
  <2>1. CASE ResumeFind(p)
    BY <2>1 DEF ResumeFind, storeVars
  <2>2. CASE ResumeAttach(p)
    <3>1. s # loc[p].sid
      BY <2>2 DEF ResumeAttach, SessionInv, FoundAllOnly, FoundOnly
    <3>2. QED
      BY <2>2, <3>1 DEF ResumeAttach, UpdateSession, TokenInv, TypeOK
  <2>3. CASE RedeemActivate(p) \/ ResumeReopen(p)
    BY <2>3 DEF RedeemActivate, ResumeReopen, CreateSession, TokenInv, TypeOK
  <2>4. QED
    BY <1>3, <2>1, <2>2, <2>3 DEF Admits
<1>4. QED
  BY <1>1, <1>2, <1>3, SessionKinds

\* The mutex of the memory store keeps a resume from undoing a disconnect
THEOREM EndedForEver ==
  ASSUME Ops \cap StaleWriters = {}, Backend = "memory"
  PROVE  Spec => EndedStaysEnded
<1>1. Spec => []SessionInv
  BY SessionInvariant
<1>2. TokenInv /\ SessionInv /\ [Next]_vars =>
        [\A s \in Sessions : session[s].status = "ended" => session'[s].status = "ended"]_vars
  BY EndedStep
<1>3. QED
  BY <1>1, <1>2, TokenInvariant, PTL DEF Spec, EndedStaysEnded
------------------------------------------------------------------------------
(* What no step takes back, and whom it moves *)

\* Faults are counted, time passes, and what was reported or recorded stays so
Meters ==
  /\ faults' \in {faults, faults + 1}
  /\ now' \in {now, now + 1}
  /\ \A s \in Sessions : reported[s] <= reported'[s] /\ ledger[s] <= ledger'[s]

LEMMA TokenMeters ==
  ASSUME TypeOK, NEW p \in Procs, TokenBegin(p) \/ TokenStep(p), reported' = reported
  PROVE  Meters
<1>0. ledger' = ledger /\ now' = now /\ faults' \in {faults, faults + 1} => Meters
  BY DEF Meters, TypeOK
<1>1. CASE BeginRedeem(p) \/ RevokeRead(p) \/ SweepList(p)
  BY <1>0, <1>1 DEF BeginRedeem, BeginPortal, BeginAuth, Enter, RevokeRead, SweepList, storeVars
<1>2. CASE RedeemUnknown(p) \/ RedeemLock(p) \/ ResumeUnused(p) \/ RedeemRefused(p)
  BY <1>0, <1>2 DEF RedeemUnknown, RedeemLock, ResumeUnused, RedeemRefused, storeVars
<1>3. CASE RedeemExpired(p) \/ RedeemExpiredKept(p)
  BY <1>0, <1>3 DEF RedeemExpired, RedeemExpiredKept, CutsExpired, QueueRetry, Fault, gatewayVars
<1>4. CASE RedeemActivate(p) \/ ResumeFind(p) \/ ResumeAttach(p) \/ ResumeReopen(p)
  BY <1>0, <1>4 DEF RedeemActivate, ResumeFind, ResumeAttach, ResumeReopen, storeVars
<1>5. CASE RevokeWrite(p) \/ RevokeFind(p) \/ RevokeEnd(p)
  BY <1>0, <1>5 DEF RevokeWrite, RevokeFind, RevokeEnd, StoreFails, Fault, storeVars
<1>6. CASE SweepExpire(p) \/ SweepFind(p) \/ SweepEnd(p)
  BY <1>0, <1>6 DEF SweepExpire, SweepFind, SweepEnd, StoreFails, Fault, storeVars
<1>7. QED
  BY <1>1, <1>2, <1>3, <1>4, <1>5, <1>6 DEF TokenBegin, TokenStep, RedeemStep

LEMMA AccountingMeters ==
  ASSUME TypeOK, NEW p \in Procs, AccountingBegin(p) \/ AccountingStep(p)
  PROVE  Meters
<1>0. ledger' = ledger /\ now' = now /\ faults' \in {faults, faults + 1}
        /\ reported' = reported => Meters
  BY DEF Meters, TypeOK
<1>1. CASE StartFind(p)
  BY <1>0, <1>1 DEF StartFind, StoreFails, Fault, storeVars
<1>2. CASE BeginInterim(p) \/ BeginStop(p) \/ AcctStart(p)
  BY <1>0, <1>2 DEF BeginInterim, BeginStop, AcctStart, storeVars
<1>3. CASE AcctUpdate(p)
  <2>1. PICK s \in Sessions, total \in Totals : Report(s, total)
    BY <1>3 DEF AcctUpdate, GetSessionByRadius, Picked, Latest
  <2>2. \A r \in Sessions : reported[r] \in Nat /\ reported[r] <= reported'[r]
    BY <2>1, ByteAssumption DEF Report, TypeOK
  <2>3. QED
    BY <1>3, <2>2 DEF AcctUpdate, Meters, TypeOK, storeVars
<1>4. CASE StartSave(p) \/ StartCreate(p) \/ AcctTouch(p) \/ StopRead(p) \/ StopWrite(p)
  BY <1>0, <1>4 DEF StartSave, StartCreate, AcctTouch, StopRead, StopWrite, storeVars
<1>5. CASE UsageRead(p) \/ UsageWrite(p) \/ QuotaCheck(p) \/ QuotaEnd(p) \/ QuotaConsume(p)
  BY <1>0, <1>5 DEF UsageRead, UsageWrite, QuotaCheck, QuotaEnd, QuotaConsume, storeVars
<1>6. CASE UsageRecord(p)
  <2>1. loc[p].add \in Nat
    BY DEF TypeOK, Frame
  <2>2. \A s \in Sessions : ledger[s] \in Nat /\ ledger[s] <= ledger'[s]
    BY <1>6, <2>1 DEF UsageRecord, CreateUsageRecord, TypeOK
  <2>3. QED
    BY <1>6, <2>2 DEF UsageRecord, Meters, TypeOK
<1>7. QED
  BY <1>1, <1>2, <1>3, <1>4, <1>5, <1>6 DEF AccountingBegin, AccountingStep

LEMMA GatewayMeters ==
  ASSUME TypeOK, NEW p \in Procs, reported' = reported,
         \/ GatewayBegin(p) \/ GatewayStoreStep(p) \/ ControllerStep(p)
         \/ RecoverList(p) \/ RecoveryStep(p)
  PROVE  Meters
<1>0. ledger' = ledger /\ now' = now /\ faults' \in {faults, faults + 1} => Meters
  BY DEF Meters, TypeOK
<1>1. CASE GatewayBegin(p) \/ GatewayStoreStep(p)
  BY <1>0, <1>1 DEF GatewayBegin, GatewayStoreStep, BeginDisconnect, BeginRetry,
                    DisconnectRead, DisconnectMark, DisconnectClear, storeVars
<1>2. CASE ControllerStep(p)
  BY <1>0, <1>2 DEF ControllerStep, GatewayAck, GatewayFail, QueueRetry, Fault, storeVars
<1>3. CASE RecoverList(p) \/ RecoveryStep(p)
  BY <1>0, <1>3 DEF RecoverList, RecoveryStep, RecoverRead, RecoverEnd, RecoverDone, storeVars
<1>4. QED
  BY <1>1, <1>2, <1>3

LEMMA MetersStep ==
  ASSUME TypeOK, [Next]_vars
  PROVE  Meters
<1>0. ledger' = ledger /\ reported' = reported /\ now' \in {now, now + 1}
        /\ faults' \in {faults, faults + 1} => Meters
  BY DEF Meters, TypeOK
<1>1. ASSUME NEW p \in Procs, Begin(p) \/ Step(p)
      PROVE  Meters
  BY <1>1, TokenMeters, AccountingMeters, GatewayMeters DEF Begin, Step
<1>2. ASSUME NEW p \in Procs, Abort(p)
      PROVE  Meters
  BY <1>0, <1>2 DEF Abort, Fault
<1>3. CASE \E t \in Tokens : GenerateToken(t) /\ UNCHANGED <<reported, backlog>>
  BY <1>0, <1>3 DEF GenerateToken, requestVars
<1>4. CASE Tick \/ UNCHANGED vars
  BY <1>0, <1>4 DEF Tick, vars, storeVars, requestVars
<1>5. QED
  BY <1>1, <1>2, <1>3, <1>4 DEF Next

\* A handler makes a step of its own
Moved(p) == \E l, f : Goto(p, l, f)

LEMMA EndMoved ==
  ASSUME NEW p \in Procs,
         \/ Finish(p) \/ Returned(p) \/ GaveUp(p) \/ Failed(p) \/ RecoverNext(p)
         \/ InvalidToken(p) \/ \E s, why : CallDisconnect(p, s, why)
  PROVE  Moved(p)
<1>1. CASE Finish(p) \/ RecoverNext(p)
  BY <1>1 DEF Finish, RecoverNext, Moved
<1>2. CASE \E s, why : CallDisconnect(p, s, why)
  BY <1>2 DEF CallDisconnect, Moved
<1>3. CASE Returned(p) \/ GaveUp(p) \/ Failed(p) \/ InvalidToken(p)
  BY <1>3 DEF Returned, GaveUp, Failed, InvalidToken, Finish, RecoverNext, Moved
<1>4. QED
  BY <1>1, <1>2, <1>3

LEMMA TokenMoved ==
  ASSUME NEW p \in Procs, TokenBegin(p) \/ TokenStep(p)
  PROVE  Moved(p)
<1>1. CASE BeginRedeem(p) \/ RevokeRead(p) \/ SweepList(p)
  BY <1>1 DEF BeginRedeem, BeginPortal, BeginAuth, Enter, RevokeRead, SweepList, Moved
<1>2. CASE RedeemUnknown(p) \/ ResumeUnused(p) \/ RedeemRefused(p) \/ RedeemExpired(p)
           \/ RedeemExpiredKept(p) \/ RedeemActivate(p) \/ ResumeAttach(p) \/ ResumeReopen(p)
  BY <1>2, EndMoved DEF RedeemUnknown, ResumeUnused, RedeemRefused, RedeemExpired,
                        RedeemExpiredKept, RedeemActivate, ResumeAttach, ResumeReopen
<1>3. CASE RedeemLock(p) \/ ResumeFind(p)
  BY <1>3 DEF RedeemLock, ResumeFind, Moved
<1>4. CASE RevokeWrite(p) \/ SweepExpire(p)
  BY <1>4 DEF RevokeWrite, SweepExpire, Moved
<1>5. CASE RevokeFind(p) \/ SweepFind(p)
  BY <1>5, EndMoved DEF RevokeFind, SweepFind, Moved
<1>6. CASE RevokeEnd(p) \/ SweepEnd(p)
  BY <1>6, EndMoved DEF RevokeEnd, SweepEnd
<1>7. QED
  BY <1>1, <1>2, <1>3, <1>4, <1>5, <1>6 DEF TokenBegin, TokenStep, RedeemStep

LEMMA AccountingMoved ==
  ASSUME NEW p \in Procs, AccountingBegin(p) \/ AccountingStep(p)
  PROVE  Moved(p)
<1>0. CASE AcctStart(p) \/ StartFind(p)
  <2>1. AcctStart(p) => Moved(p)
    BY Zenon DEF AcctStart, Moved
  <2>2. CASE StartFind(p)
    <3>1. PICK t \in Tokens, m \in Macs, r \in RadiusIds \cup {None}, flag \in BOOLEAN :
            LET f == [NoFrame EXCEPT !.op = "start", !.tid = t, !.mac = m, !.rid = r,
                                     !.at = now, !.flag = flag]
                S == GetActiveSessionByToken(t)
            IN /\ token[t].status # "absent"
               /\ \/ S = {} /\ Goto(p, "start_create", f) /\ UNCHANGED faults
                  \/ S # {} /\ StoreFails /\ Goto(p, "start_create", f)
                  \/ \E s \in S :
                       /\ Goto(p, "start_save",
                               [f EXCEPT !.sid = s,
                                         !.ses = Pending(Attached(session[s], r), flag)])
                       /\ UNCHANGED faults
      BY <2>2 DEF StartFind
    <3> DEFINE f == [NoFrame EXCEPT !.op = "start", !.tid = t, !.mac = m, !.rid = r,
                                    !.at = now, !.flag = flag]
    <3>2. Goto(p, "start_create", f) => Moved(p)
      BY Zenon DEF Moved
    <3>3. ASSUME NEW s, Goto(p, "start_save",
                             [f EXCEPT !.sid = s,
                                       !.ses = Pending(Attached(session[s], r), flag)])
          PROVE  Moved(p)
      BY <3>3, Zenon DEF Moved
    <3>4. QED
      BY <3>1, <3>2, <3>3, Zenon
  <2>3. QED
    BY <1>0, <2>1, <2>2
<1>1. CASE BeginInterim(p) \/ BeginStop(p)
  BY <1>1 DEF BeginInterim, BeginStop, Moved
<1>2. CASE AcctUpdate(p)
  BY <1>2 DEF AcctUpdate, Moved
<1>3. CASE StartSave(p) \/ StartCreate(p) \/ StopWrite(p) \/ AcctTouch(p)
  BY <1>3, EndMoved DEF StartSave, StartCreate, StopWrite, AcctTouch
<1>4. CASE UsageRead(p) \/ QuotaCheck(p) \/ StopRead(p)
  BY <1>4, EndMoved DEF UsageRead, QuotaCheck, StopRead, Moved
<1>5. CASE UsageWrite(p) \/ UsageRecord(p) \/ QuotaEnd(p) \/ QuotaConsume(p)
  BY <1>5, EndMoved DEF UsageWrite, UsageRecord, QuotaEnd, QuotaConsume, Moved
<1>6. QED
  BY <1>0, <1>1, <1>2, <1>3, <1>4, <1>5 DEF AccountingBegin, AccountingStep

LEMMA GatewayMoved ==
  ASSUME NEW p \in Procs,
         \/ GatewayBegin(p) \/ GatewayStoreStep(p) \/ ControllerStep(p)
         \/ RecoverList(p) \/ RecoveryStep(p)
  PROVE  Moved(p)
<1>1. CASE BeginDisconnect(p) \/ BeginRetry(p) \/ DisconnectMark(p) \/ GatewayAck(p)
  BY <1>1 DEF BeginDisconnect, BeginRetry, DisconnectMark, GatewayAck, Moved
<1>2. CASE DisconnectRead(p) \/ DisconnectClear(p) \/ GatewayFail(p)
  BY <1>2, EndMoved DEF DisconnectRead, DisconnectClear, GatewayFail, Moved
<1>3. CASE RecoverList(p)
  BY <1>3 DEF RecoverList, Moved
<1>4. CASE RecoverRead(p)
  BY <1>4, EndMoved DEF RecoverRead, Moved
<1>5. CASE RecoverEnd(p) \/ RecoverDone(p)
  BY <1>5, EndMoved DEF RecoverEnd, RecoverDone
<1>6. QED
  BY <1>1, <1>2, <1>3, <1>4, <1>5 DEF GatewayBegin, GatewayStoreStep, ControllerStep,
                                      RecoveryStep

\* A step moves at most one handler
LEMMA OneMoves ==
  ASSUME TypeOK, [Next]_vars, NEW q \in Procs
  PROVE  \/ pc'[q] = pc[q] /\ loc'[q] = loc[q]
         \/ Begin(q) \/ Step(q) \/ Abort(q)
<1>1. ASSUME NEW p \in Procs, Begin(p) \/ Step(p) \/ Abort(p)
      PROVE  Moved(p)
  BY <1>1, TokenMoved, AccountingMoved, GatewayMoved, EndMoved DEF Begin, Step, Abort
<1>2. ASSUME NEW p \in Procs, Moved(p), p # q
      PROVE  pc'[q] = pc[q] /\ loc'[q] = loc[q]
  BY <1>2 DEF Moved, Goto, TypeOK
<1>3. CASE \E t \in Tokens : GenerateToken(t) /\ UNCHANGED <<reported, backlog>>
  BY <1>3 DEF GenerateToken, requestVars
<1>4. CASE Tick \/ UNCHANGED vars
  BY <1>4 DEF Tick, vars, requestVars
<1>5. QED
  BY <1>1, <1>2, <1>3, <1>4 DEF Next
------------------------------------------------------------------------------
(* Sessions whose token is over *)

\* The four steps of the handlers that end them
LEMMA PursuitSteps ==
  ASSUME NEW p \in Procs, Begin(p) \/ Step(p),
         pc[p] \in {"revoke_find", "sweep_find", "revoke_end", "sweep_end"}
  PROVE  RevokeFind(p) \/ SweepFind(p) \/ RevokeEnd(p) \/ SweepEnd(p)
<1>1. ~TokenBegin(p) /\ ~AccountingBegin(p) /\ ~GatewayBegin(p) /\ ~RecoverList(p)
  BY DEF TokenBegin, BeginRedeem, BeginPortal, BeginAuth, Enter, RevokeRead, SweepList,
         AccountingBegin, StartFind, BeginInterim, BeginStop, AcctStart, AcctUpdate,
         GatewayBegin, BeginDisconnect, BeginRetry, RecoverList, Arrives, Dequeues
<1>2. ~RedeemStep(p)
  BY DEF RedeemStep, RedeemUnknown, RedeemLock, ResumeUnused, RedeemRefused, RedeemExpired,
         RedeemExpiredKept, RedeemActivate, ResumeFind, ResumeAttach, ResumeReopen, Holds,
         Expires
<1>3. TokenStep(p) => RevokeFind(p) \/ SweepFind(p) \/ RevokeEnd(p) \/ SweepEnd(p)
  BY <1>2 DEF TokenStep, RevokeWrite, SweepExpire
<1>4. ~GatewayStoreStep(p) /\ ~ControllerStep(p) /\ ~RecoveryStep(p)
  BY DEF GatewayStoreStep, DisconnectRead, DisconnectMark, DisconnectClear, ControllerStep,
         GatewayAck, GatewayFail, RecoveryStep, RecoverRead, RecoverEnd, RecoverDone
<1>5. ~AccountingStep(p)
  BY DEF AccountingStep, StartSave, StartCreate, UsageRead, UsageWrite, UsageRecord,
         QuotaCheck, QuotaEnd, QuotaConsume, StopRead, StopWrite, AcctTouch
<1>6. QED
  BY <1>1, <1>3, <1>4, <1>5 DEF Begin, Step

\* A look-up that does not fail finds the session it pursues
LEMMA FindPursues ==
  ASSUME TokenInv, SessionInv, NEW p \in Procs, RevokeFind(p) \/ SweepFind(p),
         NEW t \in Tokens, loc[p].tid = t, NEW s \in ActiveSessions(t), faults' = 0
  PROVE  Pursues(p, t, s)'
<1>1. faults' = faults
  <2>1. faults' = faults \/ Fault
    BY Zenon DEF RevokeFind, SweepFind, StoreFails
  <2>2. QED
    BY <2>1 DEF Fault, TokenInv, TypeOK
<1>2. \A r \in GetActiveSessionByToken(t) : r = s
  BY LookupOnly
<1>3. GetActiveSessionByToken(t) # {}
  BY LookupOnly
<1>4. ~StoreFails
  BY <1>1 DEF StoreFails, Fault, TokenInv, TypeOK
<1>5. PICK l \in {"revoke_end", "sweep_end"}, why \in {"revoked", "expired"},
           r \in GetActiveSessionByToken(t) :
        Goto(p, l, [loc[p] EXCEPT !.sid = r, !.ses = EndedSession(session[r], why, TRUE)])
  <2>1. CASE RevokeFind(p)
    BY <1>3, <1>4, <2>1, Zenon DEF RevokeFind
  <2>2. CASE SweepFind(p)
    BY <1>3, <1>4, <2>2, Zenon DEF SweepFind
  <2>3. QED
    BY <2>1, <2>2
<1> DEFINE f == [loc[p] EXCEPT !.sid = r, !.ses = EndedSession(session[r], why, TRUE)]
<1>6. f.sid = s
  BY <1>2, Known DEF Frame
<1>7. Goto(p, l, f)
  BY <1>5
<1> HIDE DEF f
<1>8. pc'[p] = l /\ loc'[p].sid = s
  BY <1>6, <1>7 DEF Goto, TokenInv, TypeOK
<1>9. QED
  BY <1>8 DEF Pursues

\* A pursuit goes on until the session is no longer active
LEMMA PursuitGoesOn ==
  ASSUME TokenInv, SessionInv, [Next]_vars, NEW p \in Procs, NEW t \in Tokens,
         NEW s \in ActiveSessions(t), Pursues(p, t, s), session'[s].status = "active",
         faults' = 0
  PROVE  Pursues(p, t, s)'
<1>1. CASE pc'[p] = pc[p] /\ loc'[p] = loc[p]
  BY <1>1 DEF Pursues
<1>2. CASE Abort(p)
  BY <1>2 DEF Abort, Fault, TokenInv, TypeOK
<1>3. CASE RevokeFind(p) \/ SweepFind(p)
  <2>1. loc[p].tid = t
    BY <1>3 DEF RevokeFind, SweepFind, Pursues
  <2>2. QED
    BY <1>3, <2>1, FindPursues
<1>4. CASE RevokeEnd(p) \/ SweepEnd(p)
  <2>1. /\ loc[p].sid = s /\ UpdateSession(s, loc[p].ses)
        /\ loc[p].ses.status = "ended" /\ s \in Sessions
    BY <1>4 DEF RevokeEnd, SweepEnd, Pursues, SessionInv, FramesEnd, EndingLabels,
                ActiveSessions
  <2>2. session'[s].status = "ended"
    BY <2>1 DEF UpdateSession, TokenInv, TypeOK
  <2>3. QED
    BY <2>2
<1>5. QED
  BY <1>1, <1>2, <1>3, <1>4, OneMoves, PursuitSteps DEF Pursues, TokenInv

\* A session becomes active only while its token is
LEMMA ActiveOpened ==
  ASSUME TokenInv, SessionInv, Ops \cap StaleWriters = {}, [Next]_vars, NEW t \in Tokens,
         NEW s \in Sessions, s \in ActiveSessions(t)', s \notin ActiveSessions(t)
  PROVE  ~Terminal(t)'
<1>1. session'[s].status = "active" /\ session'[s].tok = t /\ session'[s] # session[s]
  BY DEF ActiveSessions
<1>2. PICK p \in Procs : RedeemActivate(p) \/ ResumeAttach(p) \/ ResumeReopen(p)
  <2>1. ASSUME NEW p \in Procs, ResumeFind(p) PROVE FALSE
    BY <1>1, <2>1 DEF ResumeFind, storeVars
  <2>2. ASSUME NEW p \in Procs, Ending(p) PROVE FALSE
    BY <1>1, <2>2 DEF Ending, Ends
  <2>3. QED
    BY <1>1, <2>1, <2>2, SessionKinds DEF Admits
<1>3. PICK u : u = loc[p].tid
  OBVIOUS
<1>4. u \in Tokens /\ token'[u].status = "active"
  BY <1>2, <1>3, Activation, Resumption
<1>5. t = u
  <2>1. pc[p] \in TxLabels
    BY <1>2 DEF RedeemActivate, ResumeAttach, ResumeReopen, Holds, TxLabels
  <2>2. CASE RedeemActivate(p) \/ ResumeReopen(p)
    <3>1. PICK r \in Sessions : session' = [session EXCEPT ![r] = Opened(p)]
      BY <2>2 DEF RedeemActivate, ResumeReopen, CreateSession
    <3>2. session'[s] = Opened(p)
      BY <1>1, <3>1 DEF TokenInv, TypeOK
    <3>3. QED
      BY <1>1, <1>3, <2>1, <3>2, OpenedSession
  <2>3. CASE ResumeAttach(p)
    <3> DEFINE row == Attached(loc[p].ses, loc[p].rid)
    <3>1. session'[s] = row
      BY <1>1, <2>3 DEF ResumeAttach, UpdateSession, TokenInv, TypeOK
    <3>2. loc[p].ses.tok = u /\ loc[p].ses \in SessionRow
      BY <1>3, <2>3, Known DEF ResumeAttach, SessionInv, FoundAllOnly, FoundOnly
    <3>3. row.tok = loc[p].ses.tok
      BY <3>2 DEF Attached, SessionRow
    <3>4. QED
      BY <1>1, <3>1, <3>2, <3>3
  <2>4. QED
    BY <1>2, <2>2, <2>3
<1>6. QED
  BY <1>4, <1>5 DEF Terminal, TerminalStatus

\* The steps that close a token
LEMMA ClosingSteps ==
  ASSUME TokenInv, [Next]_vars, NEW t \in Tokens, ~Terminal(t), Terminal(t)'
  PROVE  \E p \in Procs : RevokeWrite(p) \/ SweepExpire(p) \/ RedeemExpiredKept(p)
                          \/ QuotaConsume(p)
<1> DEFINE Closer(p) == RevokeWrite(p) \/ SweepExpire(p) \/ RedeemExpiredKept(p)
                        \/ QuotaConsume(p)
<1>0. token'[t] # token[t]
  BY DEF Terminal
<1>1. ASSUME NEW p \in Procs, TokenBegin(p) \/ TokenStep(p)
      PROVE  Closer(p)
  <2>1. ~(RedeemActivate(p) \/ ResumeAttach(p) \/ ResumeReopen(p))
    <3>1. \A u \in Tokens : u # loc[p].tid => (RedeemActivate(p) => token'[u] = token[u])
      BY DEF RedeemActivate, TokenInv, TypeOK
    <3>2. "active" \notin TerminalStatus
      BY DEF TerminalStatus
    <3>3. QED
      BY <1>0, <3>1, <3>2, Activation, Resumption DEF Terminal
  <2>2. QED
    BY <1>0, <1>1, <2>1
    DEF TokenBegin, TokenStep, RedeemStep, BeginRedeem, BeginPortal, BeginAuth, Enter,
        RevokeRead, SweepList, RedeemUnknown, RedeemLock, ResumeUnused, RedeemRefused,
        RedeemExpired, ResumeFind, RevokeFind, RevokeEnd, SweepFind, SweepEnd, storeVars
<1>2. ASSUME NEW p \in Procs, AccountingBegin(p) \/ AccountingStep(p)
      PROVE  Closer(p)
  BY <1>0, <1>2
  DEF AccountingBegin, AccountingStep, StartFind, BeginInterim, BeginStop, AcctStart,
      AcctUpdate, StartSave, StartCreate, UsageRead, UsageWrite, UsageRecord, QuotaCheck,
      QuotaEnd, StopRead, StopWrite, AcctTouch, storeVars
<1>3. ASSUME NEW p \in Procs,
             \/ GatewayBegin(p) \/ GatewayStoreStep(p) \/ ControllerStep(p)
             \/ RecoverList(p) \/ RecoveryStep(p) \/ Abort(p)
      PROVE  FALSE
  BY <1>0, <1>3
  DEF GatewayBegin, GatewayStoreStep, ControllerStep, BeginDisconnect, BeginRetry,
      DisconnectRead, DisconnectMark, GatewayAck, GatewayFail, DisconnectClear,
      RecoverList, RecoveryStep, RecoverRead, RecoverEnd, RecoverDone, Abort, storeVars
<1>4. ASSUME NEW u \in Tokens, GenerateToken(u)
      PROVE  FALSE
  BY <1>0, <1>4, Issuing DEF Terminal, TerminalStatus
<1>5. ~(Tick \/ UNCHANGED vars)
  BY <1>0 DEF Tick, vars, storeVars
<1>6. \E p \in Procs : Closer(p)
  BY <1>1, <1>2, <1>3, <1>4, <1>5 DEF Next, Begin, Step
<1>7. QED
  BY <1>6

\* Whoever closes a token goes on to look for its session, or has just ended it
LEMMA ClosedPursues ==
  ASSUME TokenInv, SessionInv, [Next]_vars, NEW t \in Tokens, ~Terminal(t), Terminal(t)',
         NEW s \in Sessions, s \in ActiveSessions(t)', s \in ActiveSessions(t)
  PROVE  \E p \in Procs : Pursues(p, t, s)'
<1>0. token'[t] # token[t]
  BY DEF Terminal
<1>1. ASSUME NEW p \in Procs, RevokeWrite(p)
      PROVE  Pursues(p, t, s)'
  <2> DEFINE f == [loc[p] EXCEPT !.tok = AbsentToken]
  <2>1. Goto(p, "revoke_find", f) /\ UpdateToken(loc[p].tid, loc[p].tok)
    BY <1>1 DEF RevokeWrite
  <2>2. loc[p].tid = t
    BY <1>0, <2>1 DEF UpdateToken, TokenInv, TypeOK
  <2>3. f.tid = t
    BY <2>2, Known DEF Frame
  <2> HIDE DEF f
  <2>4. QED
    BY <2>1, <2>3 DEF Goto, Pursues, TokenInv, TypeOK
<1>2. ASSUME NEW p \in Procs, SweepExpire(p)
      PROVE  Pursues(p, t, s)'
  <2>1. PICK d : /\ UpdateToken(d[1], Closed(d[2], "expired"))
                 /\ Goto(p, "sweep_find", [loc[p] EXCEPT !.tid = d[1], !.todo = @ \ {d}])
    BY <1>2, Zenon DEF SweepExpire
  <2> DEFINE f == [loc[p] EXCEPT !.tid = d[1], !.todo = @ \ {d}]
  <2>2. Goto(p, "sweep_find", f)
    BY <2>1
  <2>3. UpdateToken(d[1], Closed(d[2], "expired"))
    BY <2>1, Zenon
  <2>4. f.tid = d[1]
    BY Known DEF Frame
  <2> HIDE DEF f
  <2>5. d[1] = t
    BY <1>0, <2>3 DEF UpdateToken, TokenInv, TypeOK
  <2>6. QED
    BY <2>2, <2>4, <2>5 DEF Goto, Pursues, TokenInv, TypeOK
<1>3. ASSUME NEW p \in Procs, RedeemExpiredKept(p)
      PROVE  FALSE
  <2>1. loc[p].tid = t
    BY <1>0, <1>3 DEF RedeemExpiredKept, TokenInv, TypeOK
  <2>2. GetActiveSessionByToken(t) # {} /\ \A r \in GetActiveSessionByToken(t) : r = s
    BY LookupOnly
  <2>3. PICK b : UpdateSession(s, EndedSession(session[s], "expired", b))
    BY <1>3, <2>1, <2>2 DEF RedeemExpiredKept
  <2>4. session[s] \in SessionRow
    BY DEF TokenInv, TypeOK
  <2>5. session'[s].status = "ended"
    BY <2>3, <2>4, EndedRows DEF UpdateSession, TokenInv, TypeOK
  <2>6. QED
    BY <2>5 DEF ActiveSessions
<1>4. ASSUME NEW p \in Procs, QuotaConsume(p)
      PROVE  FALSE
  BY <1>4 DEF QuotaConsume, SessionInv, FramesEnd, StaleLabels
<1>5. \E p \in Procs : RevokeWrite(p) \/ SweepExpire(p) \/ RedeemExpiredKept(p)
                       \/ QuotaConsume(p)
  BY <1>0, ClosingSteps
<1>6. QED
  BY <1>1, <1>2, <1>3, <1>4, <1>5

LEMMA NextPursued ==
  ASSUME TokenInv, SessionInv, OverPursued, Ops \cap StaleWriters = {}, [Next]_vars
  PROVE  OverPursued'
<1> SUFFICES ASSUME faults' = 0, NEW t \in Tokens, Terminal(t)', NEW s \in ActiveSessions(t)'
             PROVE  \E p \in Procs : Pursues(p, t, s)'
  BY DEF OverPursued
<1>1. faults = 0 /\ s \in Sessions
  BY MetersStep DEF Meters, ActiveSessions, TokenInv, TypeOK
<1>2. s \in ActiveSessions(t)
  BY <1>1, ActiveOpened
<1>3. CASE Terminal(t)
  <2>1. PICK p \in Procs : Pursues(p, t, s)
    BY <1>1, <1>2, <1>3 DEF OverPursued
  <2>2. QED
    BY <1>2, <2>1, PursuitGoesOn DEF ActiveSessions
<1>4. CASE ~Terminal(t)
  BY <1>1, <1>2, <1>4, ClosedPursues
<1>5. QED
  BY <1>3, <1>4

LEMMA InitPursued == Init => OverPursued
BY DEF Init, StoreInit, OverPursued, Terminal, TerminalStatus, AbsentToken

\* As long as no call failed, whoever closed a token is still about to look for its
\* active session, or to end it: no resume that raced with him opened one unseen
THEOREM OverIsPursued ==
  ASSUME Ops \cap StaleWriters = {}
  PROVE  Spec => []OverPursued
<1>1. Spec => []SessionInv
  BY SessionInvariant
<1>2. Init => OverPursued
  BY InitPursued
<1>3. TokenInv /\ SessionInv /\ OverPursued /\ [Next]_vars => OverPursued'
  BY NextPursued
<1>4. QED
  BY <1>1, <1>2, <1>3, TokenInvariant, PTL DEF Spec

\* Revocation, sweep, an expired redeem and recovery each write the token and the
\* session one after the other, and race with each other and with resumes: if no
\* call fails, no session of a token that is over is left active
THEOREM OverEnds ==
  ASSUME Ops \cap StaleWriters = {}
  PROVE  Spec => [](faults = 0 => OverEndsSessions)
<1>1. Spec => []OverPursued
  BY OverIsPursued
<1>2. OverPursued => (faults = 0 => OverEndsSessions)
  BY DEF OverPursued, OverEndsSessions, Quiet, Pursues
<1>3. QED
  BY <1>1, <1>2, PTL
------------------------------------------------------------------------------
(* disconnect_pending *)

\* p goes on to a call with a row it may hold there
Lays(p) == \E l, f : Goto(p, l, f) /\ PendingFrame(l, f)

\* p, or a task, is left with session s to disconnect
Handed(p, s) ==
  \/ pc'[p] \in TendLabels /\ loc'[p].sid = s
  \/ \E why \in EndReason : queue'[<<s, why>>] > 0

\* A task leaves the queue only for a handler that runs it
TasksKept(p) ==
  \A s \in Sessions, why \in EndReason :
    queue[<<s, why>>] > 0 => queue'[<<s, why>>] > 0 \/ Handed(p, s)

\* The row of session s is not pending, or somebody has to disconnect it
Settled(p, s) == session'[s].pending /\ faults' = 0 => Handed(p, s)

\* What every step of a handler does about pending sessions
Tends(p) ==
  /\ Lays(p) /\ TasksKept(p)
  /\ pc[p] \in TendLabels => Settled(p, loc[p].sid)
  /\ \A s \in Sessions :
       session'[s] = session[s] \/ (EndedIfPending(session'[s]) /\ Settled(p, s))

LEMMA TendsInv ==
  ASSUME TypeOK, PendingInv, NEW p \in Procs, Tends(p), faults' = 0 => faults = 0
  PROVE  PendingInv'
<1>1. PICK l, f : Goto(p, l, f) /\ PendingFrame(l, f)
  BY DEF Tends, Lays
<1>2. pc'[p] = l /\ loc'[p] = f
      /\ \A q \in Procs : q # p => pc'[q] = pc[q] /\ loc'[q] = loc[q]
  BY <1>1 DEF Goto, TypeOK
<1>3. ASSUME NEW q \in Procs
      PROVE  PendingFrame(pc'[q], loc'[q])
  BY <1>1, <1>2 DEF PendingInv
<1>4. ASSUME NEW s \in Sessions
      PROVE  EndedIfPending(session'[s])
  BY DEF Tends, PendingInv
<1>5. ASSUME faults' = 0, NEW s \in Sessions, session'[s].pending
      PROVE  Tended(s)'
  <2>1. CASE Handed(p, s)
    BY <2>1 DEF Handed, Tended
  <2>2. CASE session'[s] = session[s] /\ ~Handed(p, s)
    <3>1. Tended(s)
      BY <1>5, <2>2 DEF PendingInv
    <3>2. CASE \E why \in EndReason : queue[<<s, why>>] > 0
      BY <2>2, <3>2 DEF Tends, TasksKept, Handed
    <3>3. ASSUME NEW q \in Procs, pc[q] \in TendLabels, loc[q].sid = s
          PROVE  Tended(s)'
      <4>1. q # p
        BY <1>5, <2>2, <3>3 DEF Tends, Settled
      <4>2. QED
        BY <1>2, <3>3, <4>1 DEF Tended
    <3>4. QED
      BY <3>1, <3>2, <3>3 DEF Tended
  <2>3. QED
    BY <1>5, <2>1, <2>2 DEF Tends, Settled
<1>6. QED
  BY <1>3, <1>4, <1>5 DEF PendingInv

\* Frames with a row that is not pending, or that is ended
LEMMA OpenLays ==
  ASSUME NEW p, NEW l, NEW f, Goto(p, l, f), l \notin FlagLabels, ~f.ses.pending
  PROVE  Lays(p)
BY DEF Lays, PendingFrame, EndedIfPending

LEMMA ClosedLays ==
  ASSUME NEW p, NEW l, NEW f, Goto(p, l, f), l \notin FlagLabels \cup ClearLabels,
         EndedIfPending(f.ses)
  PROVE  Lays(p)
BY DEF Lays, PendingFrame

\* A handler that returns, loops or calls DisconnectSession holds no row
LEMMA EndLays ==
  ASSUME NEW p \in Procs,
         \/ Finish(p) \/ Returned(p) \/ GaveUp(p) \/ Failed(p) \/ RecoverNext(p)
         \/ \E s, why : CallDisconnect(p, s, why)
  PROVE  Lays(p)
<1>0. ~AbsentSession.pending
  BY DEF AbsentSession
<1>1. CASE Finish(p)
  <2>1. ~NoFrame.ses.pending
    BY <1>0 DEF NoFrame
  <2>2. QED
    BY <1>1, <2>1, OpenLays DEF Finish, FlagLabels
<1>2. CASE RecoverNext(p)
  <2> DEFINE f == [NoFrame EXCEPT !.op = "recover", !.at = loc[p].at]
  <2>1. Goto(p, "recover", f)
    BY <1>2 DEF RecoverNext
  <2>2. f.ses = AbsentSession
    BY DEF NoFrame
  <2> HIDE DEF f
  <2>3. QED
    BY <1>0, <2>1, <2>2, OpenLays DEF FlagLabels
<1>3. CASE Goto(p, "sweep", [NoFrame EXCEPT !.op = loc[p].op, !.todo = loc[p].todo])
  <2> DEFINE f == [NoFrame EXCEPT !.op = loc[p].op, !.todo = loc[p].todo]
  <2>1. Goto(p, "sweep", f)
    BY <1>3
  <2>2. f.ses = AbsentSession
    BY DEF NoFrame
  <2> HIDE DEF f
  <2>3. QED
    BY <1>0, <2>1, <2>2, OpenLays DEF FlagLabels
<1>4. ASSUME NEW s, NEW why, CallDisconnect(p, s, why)
      PROVE  Lays(p)
  <2> DEFINE f == CallFrame(loc[p], s, why)
  <2>1. Goto(p, "dc_read", f)
    BY <1>4 DEF CallDisconnect, CallFrame
  <2>2. f.ses = AbsentSession
    BY DEF CallFrame, NoFrame
  <2> HIDE DEF f
  <2>3. QED
    BY <1>0, <2>1, <2>2, OpenLays DEF FlagLabels
<1>5. CASE Returned(p) \/ GaveUp(p) \/ Failed(p)
  BY <1>1, <1>2, <1>3, <1>5 DEF Returned, GaveUp, Failed
<1>6. QED
  BY <1>1, <1>2, <1>4, <1>5

\* A handler that neither disconnects a session nor writes a row or a task
LEMMA QuietTends ==
  ASSUME NEW p \in Procs, Lays(p), pc[p] \notin TendLabels, session' = session,
         queue' = queue
  PROVE  Tends(p)
BY DEF Tends, TasksKept

\* The write of a row that is not pending
LEMMA ClearTends ==
  ASSUME TypeOK, NEW p \in Procs, Lays(p), NEW s \in Sessions, NEW row,
         session' = [session EXCEPT ![s] = row], ~row.pending, queue' = queue,
         pc[p] \in TendLabels => loc[p].sid = s
  PROVE  Tends(p)
<1>1. session'[s] = row /\ \A r \in Sessions : r # s => session'[r] = session[r]
  BY DEF TypeOK
<1>2. Settled(p, s) /\ EndedIfPending(session'[s])
  BY <1>1 DEF Settled, EndedIfPending
<1>3. QED
  BY <1>1, <1>2 DEF Tends, TasksKept

\* A step on to the next call that disconnects the session, having perhaps ended it
LEMMA NextTends ==
  ASSUME TokenInv, NEW p \in Procs, Lays(p), loc[p].sid \in Sessions, queue' = queue,
         session' = session \/ (UpdateSession(loc[p].sid, loc[p].ses)
                                /\ EndedIfPending(loc[p].ses)),
         pc'[p] \in TendLabels, loc'[p].sid = loc[p].sid
  PROVE  Tends(p)
<1>1. Handed(p, loc[p].sid)
  BY DEF Handed
<1>2. /\ \A r \in Sessions : r # loc[p].sid => session'[r] = session[r]
      /\ session' = session \/ session'[loc[p].sid] = loc[p].ses
  BY DEF UpdateSession, TokenInv, TypeOK
<1>3. QED
  BY <1>1, <1>2 DEF Tends, TasksKept, Settled

\* Tasks are added, and an Enqueue that fails is a fault
LEMMA Enqueued ==
  ASSUME TypeOK, NEW s \in Sessions, NEW why \in EndReason, NEW n \in Nat,
         Enqueue(s, why, n)
  PROVE  /\ \A p : TasksKept(p)
         /\ n > 0 => queue'[<<s, why>>] > 0
<1> DEFINE d == <<s, why>>
<1>1. d \in Payload /\ queue \in [Payload -> Nat] /\ MaxTasks > 0 /\ MaxTasks \in Nat
  BY QueueAssumption DEF Payload, TypeOK
<1>2. queue'[d] = IF queue[d] + n <= MaxTasks THEN queue[d] + n ELSE MaxTasks
  BY <1>1 DEF Enqueue
<1>3. ASSUME NEW e \in Payload, queue[e] > 0
      PROVE  queue'[e] > 0
  <2>1. CASE e = d
    BY <1>1, <1>2, <1>3, <2>1
  <2>2. CASE e # d
    BY <1>1, <1>3, <2>2 DEF Enqueue
  <2>3. QED
    BY <2>1, <2>2
<1>4. \A p : TasksKept(p)
  BY <1>3 DEF TasksKept, Payload
<1>5. n > 0 => queue'[d] > 0
  BY <1>1, <1>2
<1>6. QED
  BY <1>4, <1>5

LEMMA Requeued ==
  ASSUME TypeOK, NEW s \in Sessions, NEW why \in EndReason, NEW n \in Nat,
         QueueRetry(s, why, n)
  PROVE  /\ \A p : TasksKept(p)
         /\ Workers # {} /\ faults' = 0 => \E y \in EndReason : queue'[<<s, y>>] > 0
<1>1. CASE queue' = queue /\ Workers = {}
  BY <1>1 DEF TasksKept
<1>2. CASE Enqueue(s, why, n + 1)
  <2>1. n + 1 \in Nat /\ n + 1 > 0
    OBVIOUS
  <2>2. QED
    BY <1>2, <2>1, Enqueued
<1>3. CASE Enqueue(s, why, n) /\ Fault
  <2>1. faults' # 0
    BY <1>3 DEF Fault, TypeOK
  <2>2. QED
    BY <1>3, <2>1, Enqueued
<1>4. QED
  BY <1>1, <1>2, <1>3 DEF QueueRetry

\* Labels at which no session is being disconnected
LEMMA IdleLabels ==
  \A l \in {"idle", "redeem", "locked", "found", "sweep", "revoke_write", "revoke_find",
            "revoke_end", "sweep_find", "sweep_end", "usage_read", "usage_write",
            "usage_record", "quota_check", "quota_end", "stop_read", "stop_write",
            "recover", "recover_end"} : l \notin TendLabels
BY DEF TendLabels, CallLabels
\* A handler about to disconnect a session, which it may end before
LEMMA CallTends ==
  ASSUME TokenInv, PendingInv, NEW p \in Procs, NEW why, loc[p].sid \in Sessions,
         CallDisconnect(p, loc[p].sid, why), queue' = queue,
         session' = session \/ UpdateSession(loc[p].sid, loc[p].ses)
  PROVE  Tends(p)
<1> DEFINE f == CallFrame(loc[p], loc[p].sid, why)
<1>1. Goto(p, "dc_read", f)
  BY DEF CallDisconnect, CallFrame
<1>2. f.sid = loc[p].sid
  BY DEF CallFrame, NoFrame
<1> HIDE DEF f
<1>3. pc'[p] \in TendLabels /\ loc'[p].sid = loc[p].sid
  BY <1>1, <1>2 DEF Goto, TendLabels, CallLabels, TokenInv, TypeOK
<1>4. Lays(p) /\ EndedIfPending(loc[p].ses)
  BY EndLays DEF PendingInv, PendingFrame
<1>5. QED
  BY <1>3, <1>4, NextTends

\* Going on with a row that p holds already
LEMMA KeptLays ==
  ASSUME PendingInv, NEW p \in Procs, NEW l, NEW f, Goto(p, l, f), f.ses = loc[p].ses,
         l \notin FlagLabels, l \in ClearLabels => pc[p] \in ClearLabels
  PROVE  Lays(p)
BY DEF Lays, PendingInv, PendingFrame

LEMMA GatewayBeginTends ==
  ASSUME TokenInv, PendingInv, NEW p \in Procs, GatewayBegin(p)
  PROVE  Tends(p)
<1>0. ~AbsentSession.pending
  BY DEF AbsentSession
<1>1. CASE BeginDisconnect(p)
  <2>1. PICK s \in Sessions, force \in BOOLEAN :
          Goto(p, "dc_read", [NoFrame EXCEPT !.op = "disconnect", !.sid = s,
                                             !.reason = "disconnect", !.flag = force])
    BY <1>1, Zenon DEF BeginDisconnect
  <2> DEFINE f == [NoFrame EXCEPT !.op = "disconnect", !.sid = s,
                                  !.reason = "disconnect", !.flag = force]
  <2>2. /\ f.ses = AbsentSession /\ pc[p] = "idle"
        /\ session' = session /\ queue' = queue
    BY <1>1 DEF NoFrame, BeginDisconnect, Arrives, storeVars, gatewayVars
  <2>3. Goto(p, "dc_read", f)
    BY <2>1
  <2> HIDE DEF f
  <2>4. Lays(p)
    BY <1>0, <2>2, <2>3, OpenLays DEF FlagLabels
  <2>5. QED
    BY <2>2, <2>4, QuietTends, IdleLabels
<1>2. CASE BeginRetry(p)
  <2>1. PICK d \in Payload :
          /\ queue[d] > 0
          /\ queue' = [queue EXCEPT ![d] = @ - 1]
          /\ Goto(p, "dc_read", [NoFrame EXCEPT !.op = "retry", !.sid = d[1],
                                                !.reason = d[2], !.flag = TRUE])
    BY <1>2, Zenon DEF BeginRetry
  <2> DEFINE f == [NoFrame EXCEPT !.op = "retry", !.sid = d[1], !.reason = d[2],
                                  !.flag = TRUE]
  <2>2. /\ f.sid = d[1] /\ f.ses = AbsentSession /\ pc[p] = "idle"
        /\ session' = session
    BY <1>2 DEF NoFrame, BeginRetry, Dequeues, storeVars
  <2>3. Goto(p, "dc_read", f)
    BY <2>1
  <2> HIDE DEF f
  <2>4. Lays(p)
    BY <1>0, <2>2, <2>3, OpenLays DEF FlagLabels
  <2>5. pc'[p] \in TendLabels /\ loc'[p].sid = d[1]
    BY <2>2, <2>3 DEF Goto, TendLabels, CallLabels, TokenInv, TypeOK
  <2>6. TasksKept(p)
    <3> SUFFICES ASSUME NEW s \in Sessions, NEW why \in EndReason, queue[<<s, why>>] > 0
                 PROVE  queue'[<<s, why>>] > 0 \/ Handed(p, s)
      BY DEF TasksKept
    <3>1. CASE <<s, why>> = d
      BY <2>5, <3>1 DEF Handed
    <3>2. CASE <<s, why>> # d
      BY <2>1, <3>2 DEF TokenInv, TypeOK, Payload
    <3>3. QED
      BY <3>1, <3>2
  <2>7. QED
    BY <2>2, <2>4, <2>6, IdleLabels DEF Tends
<1>3. QED
  BY <1>1, <1>2 DEF GatewayBegin

LEMMA DisconnectReadTends ==
  ASSUME TokenInv, PendingInv, NEW p \in Procs, DisconnectRead(p)
  PROVE  Tends(p)
<1> DEFINE s == loc[p].sid
           row == session[s]
<1>1. /\ session' = session /\ pc[p] = "dc_read" /\ s \in Sessions /\ loc[p] \in Frame
      /\ row \in SessionRow /\ EndedIfPending(row)
  BY Known DEF DisconnectRead, storeVars, SessionLabels, PendingInv
<1>2. CASE row.status = "absent" /\ Failed(p)
  <2>1. loc[p].reason \in EndReason
    BY <1>1 DEF Frame
  <2>2. TasksKept(p)
    <3>1. CASE queue' = queue
      BY <3>1 DEF TasksKept
    <3>2. CASE Enqueue(s, loc[p].reason, 1)
      BY <1>1, <2>1, <3>2, Enqueued DEF TokenInv
    <3>3. QED
      BY <1>2, <3>1, <3>2 DEF Failed
  <2>3. ~session'[s].pending
    BY <1>1, <1>2 DEF EndedIfPending
  <2>4. QED
    BY <1>1, <1>2, <2>2, <2>3, EndLays DEF Tends, Settled
<1>3. CASE ~NeedsControllerCall(p, row) /\ Returned(p) /\ queue' = queue
  <2>1. ~session'[s].pending
    BY <1>1, <1>3 DEF NeedsControllerCall
  <2>2. QED
    BY <1>1, <1>3, <2>1, EndLays DEF Tends, Settled, TasksKept
<1>4. CASE /\ row.status # "absent" /\ queue' = queue
           /\ Goto(p, "dc_mark", [loc[p] EXCEPT !.ses = Marked(row, loc[p].reason)])
  <2> DEFINE f == [loc[p] EXCEPT !.ses = Marked(row, loc[p].reason)]
  <2>1. Goto(p, "dc_mark", f)
    BY <1>4
  <2>2. f.sid = s /\ f.ses = Marked(row, loc[p].reason)
    BY <1>1 DEF Frame
  <2>3. Marked(row, loc[p].reason).status = "ended"
    BY <1>1, EndedRows
  <2> HIDE DEF f
  <2>4. Lays(p)
    BY <2>1, <2>2, <2>3, ClosedLays DEF FlagLabels, ClearLabels, EndedIfPending
  <2>5. pc'[p] \in TendLabels /\ loc'[p].sid = s
    BY <2>1, <2>2 DEF Goto, TendLabels, CallLabels, TokenInv, TypeOK
  <2>6. QED
    BY <1>1, <1>4, <2>4, <2>5, NextTends
<1>5. QED
  BY <1>2, <1>3, <1>4 DEF DisconnectRead

LEMMA DisconnectWriteTends ==
  ASSUME TokenInv, PendingInv, NEW p \in Procs, DisconnectMark(p) \/ DisconnectClear(p)
  PROVE  Tends(p)
<1>1. /\ loc[p].sid \in Sessions /\ UpdateSession(loc[p].sid, loc[p].ses)
      /\ queue' = queue
  BY Known DEF DisconnectMark, DisconnectClear, SessionLabels, gatewayVars
<1>2. CASE DisconnectMark(p)
  <2>1. Goto(p, "dc_call", loc[p]) /\ pc[p] = "dc_mark"
    BY <1>2 DEF DisconnectMark
  <2>2. Lays(p) /\ EndedIfPending(loc[p].ses)
    BY <2>1, KeptLays DEF FlagLabels, ClearLabels, PendingInv, PendingFrame
  <2>3. pc'[p] \in TendLabels /\ loc'[p] = loc[p]
    BY <2>1 DEF Goto, TendLabels, CallLabels, TokenInv, TypeOK
  <2>4. QED
    BY <1>1, <2>2, <2>3, NextTends
<1>3. CASE DisconnectClear(p)
  <2>1. Lays(p) /\ ~loc[p].ses.pending
    BY <1>3, EndLays DEF DisconnectClear, PendingInv, PendingFrame, ClearLabels
  <2>2. QED
    BY <1>1, <2>1, ClearTends DEF UpdateSession, TokenInv
<1>4. QED
  BY <1>2, <1>3

LEMMA ControllerTends ==
  ASSUME TokenInv, PendingInv, Workers # {}, NEW p \in Procs, ControllerStep(p)
  PROVE  Tends(p)
<1>1. /\ pc[p] = "dc_call" /\ session' = session /\ loc[p] \in Frame
      /\ loc[p].sid \in Sessions /\ loc[p].reason \in EndReason
  BY Known DEF ControllerStep, GatewayAck, GatewayFail, storeVars, SessionLabels, Frame
<1>2. CASE GatewayAck(p)
  <2> DEFINE row == Pending(loc[p].ses, FALSE)
             f   == [loc[p] EXCEPT !.ses = row]
  <2>1. Goto(p, "dc_clear", f) /\ queue' = queue
    BY <1>2 DEF GatewayAck
  <2>2. f.sid = loc[p].sid /\ f.ses = row
    BY <1>1 DEF Frame
  <2>3. ~row.pending
    BY <1>1 DEF Pending, Frame, SessionRow
  <2> HIDE DEF f, row
  <2>4. Lays(p)
    BY <2>1, <2>2, <2>3, OpenLays DEF FlagLabels
  <2>5. pc'[p] \in TendLabels /\ loc'[p].sid = loc[p].sid
    BY <2>1, <2>2 DEF Goto, TendLabels, CallLabels, TokenInv, TypeOK
  <2>6. QED
    BY <1>1, <2>1, <2>4, <2>5, NextTends
<1>3. CASE GatewayFail(p)
  <2>1. Lays(p)
    BY <1>3, EndLays DEF GatewayFail
  <2>2. PICK n \in {0, 1} : QueueRetry(loc[p].sid, loc[p].reason, n)
    BY <1>3 DEF GatewayFail
  <2>3. TasksKept(p) /\ Settled(p, loc[p].sid)
    BY <1>1, <2>2, Requeued DEF Settled, Handed, TokenInv
  <2>4. QED
    BY <1>1, <2>1, <2>3 DEF Tends
<1>4. QED
  BY <1>2, <1>3 DEF ControllerStep

LEMMA RecoveryTends ==
  ASSUME TokenInv, PendingInv, NEW p \in Procs, RecoverList(p) \/ RecoveryStep(p)
  PROVE  Tends(p)
<1>1. CASE RecoverList(p)
  <2> DEFINE f == [NoFrame EXCEPT !.op = "recover", !.at = now]
  <2>1. /\ Goto(p, "recover", f) /\ pc[p] = "idle" /\ session' = session
        /\ queue' = queue
    BY <1>1 DEF RecoverList, Arrives, storeVars, gatewayVars
  <2>2. ~f.ses.pending
    BY DEF NoFrame, AbsentSession
  <2> HIDE DEF f
  <2>3. Lays(p)
    BY <2>1, <2>2, OpenLays DEF FlagLabels
  <2>4. QED
    BY <2>1, <2>3, QuietTends, IdleLabels
<1>2. CASE RecoverRead(p)
  <2>1. pc[p] = "recover" /\ session' = session /\ queue' = queue /\ loc[p] \in Frame
    BY <1>2, Known DEF RecoverRead, storeVars, gatewayVars
  <2>2. ASSUME NEW d \in backlog[p],
               Goto(p, "recover_end",
                    [loc[p] EXCEPT !.sid = d[1],
                                   !.ses = EndedSession(d[2], "recovered_closed", TRUE)])
        PROVE  Lays(p)
    <3> DEFINE row == EndedSession(d[2], "recovered_closed", TRUE)
               f   == [loc[p] EXCEPT !.sid = d[1], !.ses = row]
    <3>1. Goto(p, "recover_end", f) /\ f.ses = row
      BY <2>1, <2>2 DEF Frame
    <3>2. d[2] \in SessionRow
      BY DEF TokenInv, TypeOK
    <3>3. row.status = "ended"
      BY <3>2 DEF EndedSession, SessionRow
    <3> HIDE DEF f, row
    <3>4. QED
      BY <3>1, <3>3, ClosedLays DEF FlagLabels, ClearLabels, EndedIfPending
  <2>3. Lays(p)
    BY <1>2, <2>2, EndLays DEF RecoverRead
  <2>4. QED
    BY <2>1, <2>3, QuietTends, IdleLabels
<1>3. CASE RecoverEnd(p)
  BY <1>3, Known, CallTends DEF RecoverEnd, SessionLabels, gatewayVars
<1>4. CASE RecoverDone(p)
  BY <1>4, EndLays, QuietTends, IdleLabels DEF RecoverDone, storeVars, gatewayVars
<1>5. QED
  BY <1>1, <1>2, <1>3, <1>4 DEF RecoveryStep
\* A request or task that begins holds no row
LEMMA FreshTends ==
  ASSUME NEW p \in Procs, NEW l, NEW f, Goto(p, l, f), f.ses = AbsentSession,
         l \notin FlagLabels, pc[p] = "idle", session' = session, queue' = queue
  PROVE  Tends(p)
BY OpenLays, QuietTends, IdleLabels DEF AbsentSession

LEMMA TokenBeginTends ==
  ASSUME NEW p \in Procs, TokenBegin(p)
  PROVE  Tends(p)
<1>1. pc[p] = "idle" /\ session' = session /\ queue' = queue
  BY DEF TokenBegin, BeginRedeem, BeginPortal, BeginAuth, Enter, RevokeRead, SweepList,
         Arrives, Dequeues, storeVars, gatewayVars
<1>2. CASE BeginRedeem(p)
  <2>1. PICK op, r, strict : Enter(p, op, r, strict)
    BY <1>2 DEF BeginRedeem, BeginPortal, BeginAuth
  <2>2. PICK t \in Tokens, m \in Macs :
          Goto(p, "redeem", [NoFrame EXCEPT !.op = op, !.tid = t, !.mac = m, !.rid = r,
                                            !.at = now, !.strict = strict])
    BY <2>1, Zenon DEF Enter
  <2> DEFINE f == [NoFrame EXCEPT !.op = op, !.tid = t, !.mac = m, !.rid = r,
                                  !.at = now, !.strict = strict]
  <2>3. Goto(p, "redeem", f) /\ f.ses = AbsentSession
    BY <2>2 DEF NoFrame
  <2> HIDE DEF f
  <2>4. QED
    BY <1>1, <2>3, FreshTends DEF FlagLabels
<1>3. CASE RevokeRead(p)
  <2>1. PICK t \in Tokens :
          Goto(p, "revoke_write", [NoFrame EXCEPT !.op = "revoke", !.tid = t,
                                                  !.tok = Closed(token[t], "revoked")])
    BY <1>3, Zenon DEF RevokeRead
  <2> DEFINE f == [NoFrame EXCEPT !.op = "revoke", !.tid = t,
                                  !.tok = Closed(token[t], "revoked")]
  <2>2. Goto(p, "revoke_write", f) /\ f.ses = AbsentSession
    BY <2>1 DEF NoFrame
  <2> HIDE DEF f
  <2>3. QED
    BY <1>1, <2>2, FreshTends DEF FlagLabels
<1>4. CASE SweepList(p)
  <2>1. PICK T : Goto(p, "sweep", [NoFrame EXCEPT !.op = "sweep", !.todo = T])
    BY <1>4 DEF SweepList
  <2> DEFINE f == [NoFrame EXCEPT !.op = "sweep", !.todo = T]
  <2>2. Goto(p, "sweep", f) /\ f.ses = AbsentSession
    BY <2>1 DEF NoFrame
  <2> HIDE DEF f
  <2>3. QED
    BY <1>1, <2>2, FreshTends DEF FlagLabels
<1>5. QED
  BY <1>2, <1>3, <1>4 DEF TokenBegin

\* ErrInvalidToken: a second try holds no row, like the first
LEMMA InvalidTokenLays ==
  ASSUME TokenInv, PendingInv, NEW p \in Procs, pc[p] \in {"redeem", "locked"},
         InvalidToken(p)
  PROVE  Lays(p)
<1>1. CASE Finish(p)
  BY <1>1, EndLays
<1>2. CASE Goto(p, "redeem", [loc[p] EXCEPT !.strict = FALSE, !.at = now, !.tok = AbsentToken])
  <2> DEFINE f == [loc[p] EXCEPT !.strict = FALSE, !.at = now, !.tok = AbsentToken]
  <2>1. Goto(p, "redeem", f) /\ f.ses = loc[p].ses
    BY <1>2, Known DEF Frame
  <2> HIDE DEF f
  <2>2. QED
    BY <2>1, KeptLays DEF FlagLabels, ClearLabels
<1>3. QED
  BY <1>1, <1>2 DEF InvalidToken

\* Redeem transactions that let nobody in
LEMMA RedeemTends ==
  ASSUME TokenInv, PendingInv, Workers # {}, NEW p \in Procs,
         \/ RedeemUnknown(p) \/ RedeemLock(p) \/ ResumeUnused(p) \/ RedeemRefused(p)
         \/ RedeemExpired(p) \/ RedeemExpiredKept(p)
  PROVE  Tends(p)
<1>0. pc[p] \in {"redeem", "locked"} /\ pc[p] \notin TendLabels
  BY IdleLabels DEF RedeemUnknown, RedeemLock, ResumeUnused, RedeemRefused, RedeemExpired,
                    RedeemExpiredKept, Holds, Expires
<1>1. CASE RedeemUnknown(p) \/ ResumeUnused(p)
  BY <1>0, <1>1, InvalidTokenLays, QuietTends DEF RedeemUnknown, ResumeUnused, storeVars,
                                                  gatewayVars
<1>2. CASE RedeemLock(p)
  <2> DEFINE f == [loc[p] EXCEPT !.tok = token[loc[p].tid], !.at = LockedAt(p)]
  <2>1. /\ Goto(p, "locked", f) /\ session' = session /\ queue' = queue
        /\ pc[p] = "redeem"
    BY <1>2 DEF RedeemLock, gatewayVars
  <2>2. f.ses = loc[p].ses
    BY Known DEF Frame
  <2> HIDE DEF f
  <2>3. Lays(p)
    BY <2>1, <2>2, KeptLays DEF FlagLabels, ClearLabels
  <2>4. QED
    BY <1>0, <2>1, <2>3, QuietTends
<1>3. CASE RedeemRefused(p)
  BY <1>0, <1>3, EndLays, QuietTends DEF RedeemRefused, gatewayVars
<1>4. CASE RedeemExpired(p) \/ RedeemExpiredKept(p)
  <2>0. Lays(p) /\ pc[p] \in TxLabels
    BY <1>4, EndLays DEF RedeemExpired, RedeemExpiredKept, Expires, TxLabels
  <2>1. CASE session' = session /\ queue' = queue
    BY <1>0, <2>0, <2>1, QuietTends
  <2>2. ASSUME NEW s \in GetActiveSessionByToken(loc[p].tid), NEW ok \in BOOLEAN,
               CutsExpired(s, ok),
               \/ session' = session
               \/ UpdateSession(s, EndedSession(session[s], "expired", ~ok))
        PROVE  Tends(p)
    <3>1. s \in Sessions /\ session[s] \in SessionRow /\ "expired" \in EndReason
      BY <2>0, InTx, ActiveFound DEF EndReason
    <3>2. TasksKept(p) /\ (~ok => Handed(p, s) \/ faults' # 0)
      <4>1. CASE ok
        BY <2>2, <4>1 DEF CutsExpired, TasksKept
      <4>2. CASE ~ok
        <5>1. QueueRetry(s, "expired", 0)
          BY <2>2, <4>2 DEF CutsExpired
        <5>2. QED
          BY <3>1, <5>1, Requeued DEF Handed, TokenInv
      <4>3. QED
        BY <4>1, <4>2
    <3> DEFINE row == EndedSession(session[s], "expired", ~ok)
    <3>3. row.status = "ended" /\ row.pending = ~ok
      BY <3>1 DEF EndedSession, SessionRow
    <3> HIDE DEF row
    <3>4. /\ \A r \in Sessions : r # s => session'[r] = session[r]
          /\ session' = session \/ session'[s] = row
      BY <2>2 DEF UpdateSession, TokenInv, TypeOK, row
    <3>5. session'[s] = session[s] \/ (EndedIfPending(session'[s]) /\ Settled(p, s))
      BY <3>2, <3>3, <3>4 DEF EndedIfPending, Settled
    <3>6. QED
      BY <1>0, <2>0, <3>2, <3>4, <3>5 DEF Tends
  <2>3. CASE RedeemExpired(p)
    <3>1. session' = session
      BY <2>3 DEF RedeemExpired
    <3>2. queue' = queue \/ \E s \in GetActiveSessionByToken(loc[p].tid), ok \in BOOLEAN :
                             CutsExpired(s, ok)
      BY <2>3, Zenon DEF RedeemExpired, gatewayVars
    <3>3. QED
      BY <2>1, <2>2, <3>1, <3>2
  <2>4. CASE RedeemExpiredKept(p)
    <3>1. \/ session' = session /\ queue' = queue
          \/ \E s \in GetActiveSessionByToken(loc[p].tid), ok \in BOOLEAN :
               /\ CutsExpired(s, ok)
               /\ UpdateSession(s, EndedSession(session[s], "expired", ~ok))
      BY <2>4, Zenon DEF RedeemExpiredKept, gatewayVars
    <3>2. QED
      BY <2>1, <2>2, <3>1, Zenon
  <2>5. QED
    BY <1>4, <2>3, <2>4
<1>5. QED
  BY <1>1, <1>2, <1>3, <1>4

\* Redeem transactions that find a session or let a device in
LEMMA AdmitTends ==
  ASSUME TokenInv, PendingInv, NEW p \in Procs, Admits(p)
  PROVE  Tends(p)
<1>0. pc[p] \in TxLabels /\ pc[p] \notin TendLabels
  BY IdleLabels DEF Admits, ResumeFind, RedeemActivate, ResumeAttach, ResumeReopen, Holds,
                    TxLabels
<1>1. CASE ResumeFind(p)
  <2>1. session' = session /\ queue' = queue /\ pc[p] = "locked"
    BY <1>1 DEF ResumeFind, Holds, storeVars, gatewayVars
  <2>2. ASSUME Goto(p, "found", loc[p])
        PROVE  Lays(p)
    BY <2>1, <2>2, KeptLays DEF FlagLabels, ClearLabels
  <2>3. ASSUME NEW s \in GetActiveSessionByToken(loc[p].tid),
               Goto(p, "found", [loc[p] EXCEPT !.sid = s, !.ses = session[s]])
        PROVE  Lays(p)
    <3> DEFINE f == [loc[p] EXCEPT !.sid = s, !.ses = session[s]]
    <3>1. Goto(p, "found", f) /\ f.ses = session[s]
      BY <2>3, Known DEF Frame
    <3> HIDE DEF f
    <3>2. s \in Sessions /\ session[s].status = "active"
      BY <1>0, InTx, ActiveFound
    <3>3. ~session[s].pending
      BY <3>2 DEF PendingInv, EndedIfPending
    <3>4. QED
      BY <3>1, <3>3, OpenLays DEF FlagLabels
  <2>4. QED
    BY <1>0, <1>1, <2>1, <2>2, <2>3, QuietTends DEF ResumeFind
<1>2. CASE RedeemActivate(p) \/ ResumeReopen(p)
  <2>1. PICK s \in Sessions : session' = [session EXCEPT ![s] = Opened(p)]
    BY <1>2 DEF RedeemActivate, ResumeReopen, CreateSession
  <2>2. ~Opened(p).pending
    BY DEF Opened, NewSession, AbsentSession
  <2>3. Lays(p) /\ queue' = queue
    BY <1>2, EndLays DEF RedeemActivate, ResumeReopen
  <2>4. QED
    BY <1>0, <2>1, <2>2, <2>3, ClearTends DEF TokenInv
<1>3. CASE ResumeAttach(p)
  <2> DEFINE row == Attached(loc[p].ses, loc[p].rid)
  <2>1. /\ session' = [session EXCEPT ![loc[p].sid] = row] /\ queue' = queue
        /\ loc[p].sid \in Sessions /\ pc[p] = "found"
    BY <1>3, Known DEF ResumeAttach, UpdateSession, Frame
  <2>2. ~row.pending
    <3>1. ~loc[p].ses.pending /\ loc[p].ses \in SessionRow
      BY <2>1, Known DEF PendingInv, PendingFrame, ClearLabels
    <3>2. QED
      BY <3>1 DEF Attached, SessionRow
  <2>3. Lays(p)
    BY <1>3, EndLays DEF ResumeAttach
  <2> HIDE DEF row
  <2>4. QED
    BY <1>0, <2>1, <2>2, <2>3, ClearTends DEF TokenInv
<1>4. QED
  BY <1>1, <1>2, <1>3 DEF Admits
LEMMA CloseTends ==
  ASSUME TokenInv, PendingInv, NEW p \in Procs,
         \/ RevokeWrite(p) \/ RevokeFind(p) \/ RevokeEnd(p)
         \/ SweepExpire(p) \/ SweepFind(p) \/ SweepEnd(p)
  PROVE  Tends(p)
<1>0. /\ pc[p] \notin TendLabels /\ pc[p] \notin {"redeem", "locked"} /\ queue' = queue
      /\ loc[p] \in Frame
  BY IdleLabels, Known DEF RevokeWrite, RevokeFind, RevokeEnd, SweepExpire, SweepFind,
                           SweepEnd, gatewayVars
<1>1. CASE RevokeWrite(p)
  <2> DEFINE f == [loc[p] EXCEPT !.tok = AbsentToken]
  <2>1. Goto(p, "revoke_find", f) /\ f.ses = loc[p].ses /\ session' = session
    BY <1>0, <1>1 DEF RevokeWrite, Frame
  <2> HIDE DEF f
  <2>2. QED
    BY <1>0, <2>1, KeptLays, QuietTends DEF FlagLabels, ClearLabels
<1>2. CASE SweepExpire(p)
  <2>1. PICK d : Goto(p, "sweep_find", [loc[p] EXCEPT !.tid = d[1], !.todo = @ \ {d}])
    BY <1>2, Zenon DEF SweepExpire
  <2> DEFINE f == [loc[p] EXCEPT !.tid = d[1], !.todo = @ \ {d}]
  <2>2. Goto(p, "sweep_find", f)
    BY <2>1
  <2>3. f.ses = loc[p].ses
    BY <1>0 DEF Frame
  <2> HIDE DEF f
  <2>4. session' = session
    BY <1>2 DEF SweepExpire
  <2>5. QED
    BY <1>0, <2>2, <2>3, <2>4, KeptLays, QuietTends DEF FlagLabels, ClearLabels
<1>3. CASE RevokeFind(p) \/ SweepFind(p)
  <2>1. session' = session /\ loc[p].tid \in Tokens
    BY <1>3, Known DEF RevokeFind, SweepFind, storeVars, FrameOK, TokenLabels
  <2>2. ASSUME NEW s \in GetActiveSessionByToken(loc[p].tid),
               NEW l \in {"revoke_end", "sweep_end"}, NEW why,
               Goto(p, l, [loc[p] EXCEPT !.sid = s,
                                         !.ses = EndedSession(session[s], why, TRUE)])
        PROVE  Lays(p)
    <3> DEFINE row == EndedSession(session[s], why, TRUE)
               f   == [loc[p] EXCEPT !.sid = s, !.ses = row]
    <3>1. Goto(p, l, f) /\ f.ses = row
      BY <1>0, <2>2 DEF Frame
    <3>2. session[s] \in SessionRow
      BY <2>1, ActiveFound
    <3>3. row.status = "ended"
      BY <3>2 DEF EndedSession, SessionRow
    <3> HIDE DEF f, row
    <3>4. QED
      BY <3>1, <3>3, ClosedLays DEF FlagLabels, ClearLabels, EndedIfPending
  <2>3. Lays(p)
    BY <1>3, <2>2, EndLays DEF RevokeFind, SweepFind
  <2>4. QED
    BY <1>0, <2>1, <2>3, QuietTends
<1>4. CASE RevokeEnd(p) \/ SweepEnd(p)
  BY <1>0, <1>4, Known, CallTends DEF RevokeEnd, SweepEnd, SessionLabels
<1>5. QED
  BY <1>1, <1>2, <1>3, <1>4

LEMMA AccountingBeginTends ==
  ASSUME TokenInv, PendingInv, NEW p \in Procs,
         BeginInterim(p) \/ BeginStop(p) \/ AcctUpdate(p)
  PROVE  Tends(p)
<1>1. pc[p] = "idle" /\ session' = session /\ queue' = queue
  BY DEF BeginInterim, BeginStop, AcctUpdate, Arrives, storeVars, gatewayVars
<1>2. CASE BeginInterim(p)
  <2>1. PICK s \in Sessions, n \in Adds :
          Goto(p, "usage_read", [NoFrame EXCEPT !.op = "interim", !.sid = s, !.add = n])
    BY <1>2, Zenon DEF BeginInterim
  <2> DEFINE f == [NoFrame EXCEPT !.op = "interim", !.sid = s, !.add = n]
  <2>2. Goto(p, "usage_read", f) /\ f.ses = AbsentSession
    BY <2>1 DEF NoFrame
  <2> HIDE DEF f
  <2>3. QED
    BY <1>1, <2>2, FreshTends DEF FlagLabels
<1>3. CASE BeginStop(p)
  <2>1. PICK s \in Sessions : Goto(p, "stop_read", [NoFrame EXCEPT !.op = "stop", !.sid = s])
    BY <1>3, Zenon DEF BeginStop
  <2> DEFINE f == [NoFrame EXCEPT !.op = "stop", !.sid = s]
  <2>2. Goto(p, "stop_read", f) /\ f.ses = AbsentSession
    BY <2>1 DEF NoFrame
  <2> HIDE DEF f
  <2>3. QED
    BY <1>1, <2>2, FreshTends DEF FlagLabels
<1>4. CASE AcctUpdate(p)
  <2> DEFINE F(op, s) == [NoFrame EXCEPT !.op = op, !.sid = s]
             Body(op, total, gigawords, s) ==
               LET delta == Delta(Octets(total % Word, gigawords), session[s])
               IN /\ session[s].status = "active" /\ ledger[s] < MaxBytes
                  /\ Report(s, total)
                  /\ online' = IF op = "acct_stop" THEN online \ {s} ELSE online
                  /\ \/ delta > 0 /\ Goto(p, "usage_read", [F(op, s) EXCEPT !.add = delta])
                     \/ delta = 0 /\ op = "acct_stop" /\ Goto(p, "stop_read", F(op, s))
  <2>1. PICK op \in PacketOps \ {"acct_start"}, r \in RadiusIds, total \in Totals :
          /\ Arrives(p, op)
          /\ \E s \in GetSessionByRadius(r), gigawords \in {total \div Word, 0} :
               Body(op, total, gigawords, s)
    BY <1>4, Zenon DEF AcctUpdate
  <2>2. PICK s \in GetSessionByRadius(r), gigawords \in {total \div Word, 0} :
          Body(op, total, gigawords, s)
    BY <2>1, Zenon
  <2> DEFINE delta == Delta(Octets(total % Word, gigawords), session[s])
             g     == F(op, s)
             f     == [g EXCEPT !.add = delta]
  <2>3. g.ses = AbsentSession /\ f.ses = AbsentSession
    BY DEF NoFrame
  <2>4. Goto(p, "stop_read", g) \/ Goto(p, "usage_read", f)
    BY <2>2, Zenon
  <2> HIDE DEF f, g, F, Body
  <2>5. QED
    BY <1>1, <2>3, <2>4, FreshTends DEF FlagLabels
<1>5. QED
  BY <1>2, <1>3, <1>4

\* Usage reports, the quota check and stop reports
LEMMA UsageTends ==
  ASSUME TokenInv, PendingInv, NEW p \in Procs,
         \/ UsageRead(p) \/ UsageWrite(p) \/ UsageRecord(p) \/ StopRead(p) \/ StopWrite(p)
  PROVE  Tends(p)
<1> DEFINE s == loc[p].sid
<1>0. /\ pc[p] \notin TendLabels /\ queue' = queue /\ loc[p] \in Frame
      /\ s \in Sessions /\ session[s] \in SessionRow
      /\ loc[p].ses \in SessionRow
  BY IdleLabels, Known DEF UsageRead, UsageWrite, UsageRecord, StopRead, StopWrite,
                           SessionLabels, gatewayVars
<1>1. CASE UsageRead(p)
  <2> DEFINE row == Charged(session[s], loc[p].add)
             f   == [loc[p] EXCEPT !.tid = session[s].tok, !.ses = row]
  <2>1. session' = session
    BY <1>1 DEF UsageRead, storeVars
  <2>2. CASE session[s].status = "active" /\ Goto(p, "usage_write", f)
    <3>1. row.pending = session[s].pending /\ f.ses = row
      BY <1>0 DEF Charged, SessionRow, Frame
    <3>2. ~session[s].pending
      BY <1>0, <2>2 DEF PendingInv, EndedIfPending
    <3>3. Goto(p, "usage_write", f)
      BY <2>2
    <3> HIDE DEF f, row
    <3>4. Lays(p)
      BY <3>1, <3>2, <3>3, OpenLays DEF FlagLabels
    <3>5. QED
      BY <1>0, <2>1, <3>4, QuietTends
  <2>3. CASE Finish(p)
    BY <1>0, <2>1, <2>3, EndLays, QuietTends
  <2>4. QED
    BY <1>1, <2>2, <2>3 DEF UsageRead
<1>2. CASE UsageWrite(p) \/ StopWrite(p)
  <2>1. session' = [session EXCEPT ![s] = loc[p].ses] /\ ~loc[p].ses.pending
    BY <1>2 DEF UsageWrite, StopWrite, UpdateSession, PendingInv, PendingFrame, ClearLabels
  <2>2. Lays(p)
    BY <1>2, EndLays, KeptLays DEF UsageWrite, StopWrite, FlagLabels, ClearLabels
  <2>3. QED
    BY <1>0, <2>1, <2>2, ClearTends DEF TokenInv
<1>3. CASE UsageRecord(p)
  BY <1>0, <1>3, KeptLays, QuietTends DEF UsageRecord, FlagLabels, ClearLabels
<1>4. CASE StopRead(p)
  <2> DEFINE row == EndedSession(session[s], "stop", FALSE)
             f   == [loc[p] EXCEPT !.ses = row]
  <2>1. session' = session
    BY <1>4 DEF StopRead, storeVars
  <2>2. CASE Goto(p, "stop_write", f)
    <3>1. ~row.pending /\ f.ses = row
      BY <1>0 DEF EndedSession, SessionRow, Frame
    <3>2. Goto(p, "stop_write", f)
      BY <2>2
    <3> HIDE DEF f, row
    <3>3. QED
      BY <1>0, <2>1, <3>1, <3>2, OpenLays, QuietTends DEF FlagLabels
  <2>3. CASE Finish(p)
    BY <1>0, <2>1, <2>3, EndLays, QuietTends
  <2>4. QED
    BY <1>4, <2>2, <2>3 DEF StopRead
<1>5. QED
  BY <1>1, <1>2, <1>3, <1>4

LEMMA QuotaTends ==
  ASSUME TokenInv, PendingInv, NEW p \in Procs,
         QuotaCheck(p) \/ QuotaEnd(p) \/ QuotaConsume(p)
  PROVE  Tends(p)
<1> DEFINE s == loc[p].sid
<1>0. /\ queue' = queue /\ loc[p] \in Frame /\ s \in Sessions
      /\ loc[p].ses \in SessionRow /\ EndedIfPending(loc[p].ses)
  BY Known DEF QuotaCheck, QuotaEnd, QuotaConsume, SessionLabels, gatewayVars, PendingInv,
               PendingFrame
<1>1. CASE QuotaCheck(p)
  <2>1. session' = session /\ pc[p] \notin TendLabels
    BY <1>1, IdleLabels DEF QuotaCheck, storeVars
  <2>2. PICK row, t :
          \/ /\ row = EndedSession(loc[p].ses, "data_limit_reached", TRUE)
             /\ Goto(p, "quota_end", [loc[p] EXCEPT !.ses = row, !.tok = t])
          \/ Goto(p, "stop_read", [NoFrame EXCEPT !.op = "acct_stop", !.sid = s])
          \/ Finish(p)
    BY <1>1 DEF QuotaCheck
  <2> DEFINE f == [loc[p] EXCEPT !.ses = row, !.tok = t]
             g == [NoFrame EXCEPT !.op = "acct_stop", !.sid = s]
  <2>3. CASE row = EndedSession(loc[p].ses, "data_limit_reached", TRUE)
             /\ Goto(p, "quota_end", f)
    <3>1. row.status = "ended" /\ f.ses = row
      BY <1>0, <2>3 DEF EndedSession, SessionRow, Frame
    <3>2. Goto(p, "quota_end", f)
      BY <2>3
    <3> HIDE DEF f
    <3>3. QED
      BY <2>1, <1>0, <3>1, <3>2, ClosedLays, QuietTends
      DEF FlagLabels, ClearLabels, EndedIfPending
  <2>4. CASE Goto(p, "stop_read", g)
    <3>1. Goto(p, "stop_read", g) /\ ~g.ses.pending
      BY <2>4 DEF NoFrame, AbsentSession
    <3> HIDE DEF g
    <3>2. QED
      BY <1>0, <2>1, <3>1, OpenLays, QuietTends DEF FlagLabels
  <2>5. CASE Finish(p)
    BY <1>0, <2>1, <2>5, EndLays, QuietTends
  <2>6. QED
    BY <2>2, <2>3, <2>4, <2>5
<1>2. CASE QuotaEnd(p)
  <2>1. Goto(p, "quota_consume", loc[p]) /\ pc[p] = "quota_end"
        /\ UpdateSession(s, loc[p].ses)
    BY <1>2 DEF QuotaEnd
  <2>2. Lays(p)
    BY <2>1, KeptLays DEF FlagLabels, ClearLabels
  <2>3. pc'[p] \in TendLabels /\ loc'[p] = loc[p]
    BY <2>1 DEF Goto, TendLabels, TokenInv, TypeOK
  <2>4. QED
    BY <1>0, <2>1, <2>2, <2>3, NextTends
<1>3. CASE QuotaConsume(p)
  BY <1>0, <1>3, CallTends DEF QuotaConsume
<1>4. QED
  BY <1>1, <1>2, <1>3

\* Every handler but /v1/accounting/start and the RADIUS start packet
LEMMA HandlerTends ==
  ASSUME TokenInv, PendingInv, Workers # {}, Ops \cap {"start", "acct_start"} = {},
         NEW p \in Procs, Begin(p) \/ Step(p)
  PROVE  Tends(p)
<1>1. ~StartFind(p) /\ ~AcctStart(p) /\ ~StartSave(p) /\ ~StartCreate(p) /\ ~AcctTouch(p)
  BY DEF StartFind, AcctStart, StartSave, StartCreate, AcctTouch, Arrives, PendingInv,
         PendingFrame, FlagLabels
<1>2. CASE TokenBegin(p) \/ TokenStep(p)
  BY <1>2, TokenBeginTends, RedeemTends, AdmitTends, CloseTends
  DEF TokenStep, RedeemStep, Admits
<1>3. CASE AccountingBegin(p) \/ AccountingStep(p)
  BY <1>1, <1>3, AccountingBeginTends, UsageTends, QuotaTends
  DEF AccountingBegin, AccountingStep
<1>4. CASE GatewayBegin(p) \/ GatewayStoreStep(p) \/ ControllerStep(p)
  BY <1>4, GatewayBeginTends, DisconnectReadTends, DisconnectWriteTends, ControllerTends
  DEF GatewayStoreStep
<1>5. CASE RecoverList(p) \/ RecoveryStep(p)
  BY <1>5, RecoveryTends
<1>6. QED
  BY <1>2, <1>3, <1>4, <1>5 DEF Begin, Step

LEMMA InitPending == Init => PendingInv
<1> SUFFICES ASSUME Init PROVE PendingInv
  OBVIOUS
<1>1. /\ \A p \in Procs : pc[p] = "idle" /\ loc[p] = NoFrame
      /\ \A s \in Sessions : session[s] = AbsentSession
  BY DEF Init, StoreInit, RequestInit
<1>2. ~AbsentSession.pending /\ NoFrame.ses = AbsentSession
  BY BlankFrame DEF AbsentSession
<1>3. \A p \in Procs : PendingFrame(pc[p], loc[p])
  BY <1>1, <1>2 DEF PendingFrame, EndedIfPending, FlagLabels
<1>4. QED
  BY <1>1, <1>2, <1>3 DEF PendingInv, EndedIfPending

LEMMA NextPending ==
  ASSUME TokenInv, PendingInv, [Next]_vars, Workers # {},
         Ops \cap {"start", "acct_start"} = {}
  PROVE  PendingInv'
<1>0. faults' = 0 => faults = 0
  BY MetersStep DEF Meters, TokenInv, TypeOK
<1>1. ASSUME NEW p \in Procs, Begin(p) \/ Step(p)
      PROVE  PendingInv'
  BY <1>0, <1>1, HandlerTends, TendsInv DEF TokenInv
<1>2. ASSUME NEW p \in Procs, Abort(p)
      PROVE  PendingInv'
  <2>1. Lays(p) /\ session' = session /\ faults' # 0
    BY <1>2, EndLays DEF Abort, Fault, TokenInv, TypeOK
  <2>2. PICK l, f : Goto(p, l, f) /\ PendingFrame(l, f)
    BY <2>1 DEF Lays
  <2>3. ASSUME NEW q \in Procs
        PROVE  PendingFrame(pc'[q], loc'[q])
    BY <2>2 DEF Goto, PendingInv, TokenInv, TypeOK
  <2>4. QED
    BY <2>1, <2>3 DEF PendingInv
<1>3. CASE \/ \E t \in Tokens : GenerateToken(t)
           \/ Tick \/ UNCHANGED vars
  <2>1. UNCHANGED <<pc, loc, session, queue, faults>>
    BY <1>3 DEF GenerateToken, Tick, vars, storeVars, requestVars, gatewayVars
  <2>2. QED
    BY <2>1 DEF PendingInv, Tended
<1>4. QED
  BY <1>1, <1>2, <1>3 DEF Next

\* With asynq on, no handler forgets or brings back disconnect_pending: only ended
\* rows have it set, stored or copied, and as long as no call fails each stored one
\* has a handler or a retry task to disconnect its session.  The two endpoints that
\* take the flag, or a stale row, from their caller are left out.
THEOREM PendingInvariant ==
  ASSUME Workers # {}, Ops \cap {"start", "acct_start"} = {}
  PROVE  Spec => []PendingInv
<1>1. Init => PendingInv
  BY InitPending
<1>2. TokenInv /\ PendingInv /\ [Next]_vars => PendingInv'
  BY NextPending
<1>3. QED
  BY <1>1, <1>2, TokenInvariant, PTL DEF Spec

\* With asynq on, disconnect_pending is an obligation somebody still has: as long as
\* no call fails, a row that has it set is being disconnected by a handler, or a
\* retry task for it is queued.  The two endpoints that take the flag, or a stale
\* row, from their caller are left out.
THEOREM PendingTended ==
  ASSUME Workers # {}, Ops \cap {"start", "acct_start"} = {}
  PROVE  Spec => [](faults = 0 => PendingIsTracked)
<1>1. Spec => []PendingInv
  BY PendingInvariant
<1>2. PendingInv => (faults = 0 => PendingIsTracked)
  BY DEF PendingInv, PendingIsTracked, Tended, Tracked
<1>3. QED
  BY <1>1, <1>2, PTL
==============================================================================
