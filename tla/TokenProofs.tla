------------------------------ MODULE TokenProofs ------------------------------
(***************************************************************************)
(* Every step of the token service keeps its inductive invariant.          *)
(***************************************************************************)
EXTENDS WifiLemmas

\* What a handler inside the redeem transaction knows
LEMMA InTx ==
  ASSUME TokenInv, NEW p \in Procs, pc[p] \in TxLabels
  PROVE  /\ loc[p].tid \in Tokens /\ loc[p].mac \in Macs
         /\ lock[loc[p].tid] = p
         /\ loc[p].tok = token[loc[p].tid] /\ token[loc[p].tid] \in TokenRow
         /\ token[loc[p].tid].status # "absent"
BY Known DEF FrameOK, TxLabels, RedeemLabels, TokenLabels, KnownLabels, LockHeld,
             TokenInv, TypeOK

\* The end of a transaction, committed or rolled back.  It writes at most the
\* token row it holds.
LEMMA EndTxInv ==
  ASSUME TokenInv, NEW p \in Procs, NEW l \in Labels, NEW f \in Frame,
         Goto(p, l, f), Unlock(p), l \notin TxLabels, FrameOK(l, f),
         token' \in [Tokens -> TokenRow], session' \in [Sessions -> SessionRow],
         UNCHANGED <<ledger, now, reported>>, faults' \in Nat,
         \A q \in Procs : backlog'[q] \subseteq backlog[q],
         backlog' \in [Procs -> SUBSET (Sessions \X SessionRow)],
         queue' \in [Payload -> Nat], online' \subseteq Sessions,
         granted' \in [Tokens -> SUBSET (Macs \X Sessions)],
         \A s \in Sessions : session'[s] = session[s] \/ Owned(session'[s]),
         \A t \in Tokens : \/ token'[t] = token[t]
                           \/ lock[t] = p /\ token'[t].status # "absent",
         GrantsBound', OneDevicePerToken'
  PROVE  TokenInv'
<1> USE DEF TokenInv
<1>1. \A t \in Tokens : token[t].status # "absent" => token'[t].status # "absent"
  OBVIOUS
<1>2. TypeOK'
  BY ProcAssumption DEF TypeOK, Goto, Unlock
<1>3. FramesOK'
  <2>1. FrameOK(l, f)'
    <3>1. f.todo \subseteq Tokens \X TokenRow
      BY DEF Frame
    <3>2. QED
      BY <1>1, <3>1 DEF FrameOK, Owned, TokenLabels, KnownLabels
  <2>2. QED
    BY <1>1, <2>1, FramesKept
<1>4. RowsOwned'
  BY <1>1 DEF RowsOwned, Owned
<1>5. LockHeld'
  BY LockFreed
<1>6. BacklogOwned'
  BY <1>1, BacklogKept
<1>7. QED
  BY <1>2, <1>3, <1>4, <1>5, <1>6

\* ... in particular one that wrote nothing
LEMMA RollbackInv ==
  ASSUME TokenInv, NEW p \in Procs, NEW l \in Labels, NEW f \in Frame,
         Goto(p, l, f), Unlock(p), l \notin TxLabels, FrameOK(l, f),
         UNCHANGED <<token, session, ledger, now, granted, reported>>, faults' \in Nat,
         \A q \in Procs : backlog'[q] \subseteq backlog[q],
         backlog' \in [Procs -> SUBSET (Sessions \X SessionRow)],
         queue' \in [Payload -> Nat], online' \subseteq Sessions
  PROVE  TokenInv'
<1>1. GrantsBound' /\ OneDevicePerToken'
  BY GrantsKept DEF TokenInv
<1>2. QED
  BY <1>1, EndTxInv DEF TokenInv, TypeOK

\* A device let in by the transaction of its token is the bound one
LEMMA GrantInv ==
  ASSUME TokenInv, NEW p \in Procs, NEW s \in Sessions, Grant(p, s),
         pc[p] \in TxLabels, token' \in [Tokens -> TokenRow],
         token'[loc[p].tid].status = "active",
         token'[loc[p].tid].mac = loc[p].mac, token'[loc[p].tid].expires # 0,
         \/ granted[loc[p].tid] = {}
         \/ token'[loc[p].tid] = token[loc[p].tid],
         \A t \in Tokens : t # loc[p].tid => token'[t] = token[t]
  PROVE  /\ granted' \in [Tokens -> SUBSET (Macs \X Sessions)]
         /\ online' \subseteq Sessions
         /\ GrantsBound' /\ OneDevicePerToken'
<1> DEFINE t == loc[p].tid
           g == <<loc[p].mac, s>>
<1>1. t \in Tokens /\ g \in Macs \X Sessions /\ g[1] = loc[p].mac
  BY InTx
<1>2. granted' = [granted EXCEPT ![t] = granted[t] \cup {g}] /\ online' = online \cup {s}
  BY DEF Grant
<1>3. \A h \in granted[t] : h[1] = loc[p].mac
  BY <1>1 DEF TokenInv, GrantsBound
<1> HIDE DEF g, t
<1>4. granted' \in [Tokens -> SUBSET (Macs \X Sessions)] /\ online' \subseteq Sessions
  BY <1>1, <1>2 DEF TokenInv, TypeOK
<1>5. granted'[t] = granted[t] \cup {g}
      /\ \A u \in Tokens : u # t => granted'[u] = granted[u]
  BY <1>1, <1>2 DEF TokenInv, TypeOK
<1>6. \A h \in granted'[t] : h[1] = token'[t].mac
  BY <1>1, <1>3, <1>5 DEF t
<1>7. GrantsBound'
  BY <1>1, <1>5, <1>6 DEF GrantsBound, TokenInv, t
<1>8. OneDevicePerToken'
  BY <1>5, <1>6 DEF OneDevicePerToken, TokenInv
<1>9. QED
  BY <1>4, <1>7, <1>8

------------------------------------------------------------------------------
(* Redeem, resume, authenticate *)

LEMMA GenerateTokenInv ==
  ASSUME TokenInv, NEW t \in Tokens, GenerateToken(t), UNCHANGED <<reported, backlog>>
  PROVE  TokenInv'
<1> USE DEF TokenInv
<1>1. /\ token[t].status = "absent" /\ token' = [token EXCEPT ![t] = UnusedToken]
      /\ UNCHANGED <<session, ledger, lock, now, pc, loc, faults, queue, online,
                     granted, reported, backlog>>
  BY DEF GenerateToken, requestVars, gatewayVars
<1>2. \A u \in Tokens : token'[u] = token[u] \/ (u = t /\ token'[u].status = "unused")
  <2>1. UnusedToken.status = "unused"
    BY DEF UnusedToken
  <2>2. token \in [Tokens -> TokenRow] /\ token' = [token EXCEPT ![t] = UnusedToken]
    BY <1>1 DEF TypeOK
  <2>3. \A u \in Tokens : token'[u] = IF u = t THEN UnusedToken ELSE token[u]
    BY <2>2
  <2>4. QED
    BY <2>1, <2>3
<1>3. TypeOK'
  BY <1>1, TokenRows DEF TypeOK
<1>4. FramesOK'
  <2> SUFFICES ASSUME NEW p \in Procs PROVE FrameOK(pc[p], loc[p])'
    BY DEF FramesOK
  <2>1. FrameOK(pc[p], loc[p]) /\ loc[p].todo \subseteq Tokens \X TokenRow
    BY DEF FramesOK, TypeOK, Frame
  <2>2. QED
    BY <1>1, <1>2, <2>1 DEF FrameOK, Owned, TokenLabels, KnownLabels
<1>5. RowsOwned'
  BY <1>1, <1>2 DEF RowsOwned, Owned
<1>6. LockHeld'
  <2>1. ASSUME NEW p \in Procs, pc[p] \in TxLabels
        PROVE  loc[p].tid \in Tokens /\ token'[loc[p].tid] = token[loc[p].tid]
    BY <1>1, <1>2, <2>1, InTx
  <2>2. QED
    BY <1>1, <2>1 DEF LockHeld, TxLabels
<1>7. GrantsBound' /\ OneDevicePerToken'
  BY <1>1, <1>2, GrantsKept
<1>8. BacklogOwned'
  BY <1>1, <1>2, BacklogKept
<1>9. QED
  BY <1>3, <1>4, <1>5, <1>6, <1>7, <1>8

LEMMA BeginRedeemInv ==
  ASSUME TokenInv, NEW p \in Procs, BeginRedeem(p), UNCHANGED <<reported, backlog>>
  PROVE  TokenInv'
<1>0. PICK op \in {"redeem", "resume", "auth"}, r \in RadiusIds \cup {None},
           strict \in BOOLEAN : Enter(p, op, r, strict)
  BY DEF BeginRedeem, BeginPortal, BeginAuth
<1>1. PICK t \in Tokens, m \in Macs :
        /\ Arrives(p, op)
        /\ Goto(p, "redeem", [NoFrame EXCEPT !.op = op, !.tid = t, !.mac = m, !.rid = r,
                                             !.at = now, !.strict = strict])
        /\ UNCHANGED <<storeVars, faults, gatewayVars, granted>>
  BY <1>0 DEF Enter
<1> DEFINE f == [NoFrame EXCEPT !.op = op, !.tid = t, !.mac = m, !.rid = r,
                                !.at = now, !.strict = strict]
<1>2. f \in Frame /\ f.tid = t /\ f.mac = m /\ f.todo = {} /\ f.ses = AbsentSession
  <2>1. now \in Nat
    BY DEF TokenInv, TypeOK
  <2>2. f \in Frame
    BY <2>1, IdleFrame, Names DEF Frame
  <2>3. QED
    BY <2>2 DEF NoFrame
<1> HIDE DEF f
<1>3. FrameOK("redeem", f)
  BY <1>2 DEF FrameOK, RedeemLabels, TokenLabels, SessionLabels, KnownLabels,
              WriteLabels, UsageLabels, Owned, AbsentSession
<1>4. Goto(p, "redeem", f) /\ pc[p] \notin TxLabels
  BY <1>1 DEF f, Arrives, TxLabels
<1>5. QED
  BY <1>1, <1>2, <1>3, <1>4, LocalStepInv
  DEF TxLabels, Labels, TokenInv, TypeOK, gatewayVars

\* ErrInvalidToken: the handler returns, or starts again
LEMMA InvalidTokenGoto ==
  ASSUME TokenInv, NEW p \in Procs, InvalidToken(p), pc[p] \in RedeemLabels
  PROVE  \E l \in Labels, f \in Frame :
           Goto(p, l, f) /\ l \notin TxLabels /\ FrameOK(l, f)
<1> DEFINE f == [loc[p] EXCEPT !.strict = FALSE, !.at = now, !.tok = AbsentToken]
<1>1. CASE Finish(p)
  BY <1>1, IdleFrame DEF Finish
<1>2. CASE Goto(p, "redeem", f)
  <2>1. /\ f \in Frame /\ f.tid = loc[p].tid /\ f.mac = loc[p].mac
        /\ f.todo = loc[p].todo /\ f.ses = loc[p].ses
    <3>1. now \in Nat /\ AbsentToken \in TokenRow
      BY TokenRows DEF TokenInv, TypeOK
    <3>2. QED
      BY <3>1, Known DEF Frame
  <2> HIDE DEF f
  <2>2. FrameOK("redeem", f)
    BY <2>1, Known DEF FrameOK, RedeemLabels, TokenLabels, SessionLabels, KnownLabels,
                       WriteLabels, UsageLabels
  <2>3. QED
    BY <1>2, <2>1, <2>2 DEF Labels, TxLabels
<1>3. QED
  BY <1>1, <1>2 DEF InvalidToken

LEMMA RedeemUnknownInv ==
  ASSUME TokenInv, NEW p \in Procs, RedeemUnknown(p), UNCHANGED <<reported, backlog>>
  PROVE  TokenInv'
<1>1. PICK l \in Labels, f \in Frame :
        Goto(p, l, f) /\ l \notin TxLabels /\ FrameOK(l, f)
  BY InvalidTokenGoto DEF RedeemUnknown, RedeemLabels
<1>2. QED
  BY <1>1, LocalStepInv DEF RedeemUnknown, TxLabels, TokenInv, TypeOK, gatewayVars

LEMMA RedeemLockInv ==
  ASSUME TokenInv, NEW p \in Procs, RedeemLock(p), UNCHANGED <<reported, backlog>>
  PROVE  TokenInv'
<1> USE DEF TokenInv
<1> DEFINE t == loc[p].tid
           row == token[t]
           frame == [loc[p] EXCEPT !.tok = row, !.at = LockedAt(p)]
<1>1. /\ pc[p] = "redeem" /\ t \in Tokens /\ row \in TokenRow /\ loc[p].mac \in Macs
      /\ row.status # "absent"
  BY Known DEF RedeemLock, FrameOK, TokenLabels, RedeemLabels, TypeOK
<1>2. /\ lock[t] = None /\ lock' = [lock EXCEPT ![t] = p] 
      /\ UNCHANGED <<token, session, ledger, now, faults, queue, online, granted,
                     reported, backlog>>
  BY DEF RedeemLock, gatewayVars
<1>3. PICK f \in Frame :
        /\ Goto(p, "locked", f)
        /\ f.tid = t /\ f.tok = row /\ f.mac = loc[p].mac
        /\ f.todo = loc[p].todo /\ f.ses = loc[p].ses
  <2>1. Goto(p, "locked", frame)
    BY DEF RedeemLock
  <2>2. /\ frame \in Frame
        /\ frame.tid = t /\ frame.tok = row /\ frame.mac = loc[p].mac
        /\ frame.todo = loc[p].todo /\ frame.ses = loc[p].ses
    <3>1. LockedAt(p) \in Nat
      BY Known DEF LockedAt, Frame, TypeOK
    <3>2. QED
      BY <1>1, <3>1, Known DEF Frame
  <2> HIDE DEF frame
  <2>3. QED
    BY <2>1, <2>2
<1>4. TypeOK'
  BY <1>1, <1>2, <1>3 DEF TypeOK, Goto, Labels
<1>5. FramesOK'
  <2>1. FrameOK("locked", f)
    BY <1>1, <1>3, Known DEF FrameOK, RedeemLabels, TokenLabels, SessionLabels,
                             KnownLabels, WriteLabels, UsageLabels
  <2>2. FrameOK("locked", f)'
    BY <1>2, <2>1 DEF FrameOK, Owned
  <2>3. QED
    BY <1>2, <1>3, <2>2, FramesKept
<1>6. RowsOwned'
  BY <1>2 DEF RowsOwned, Owned
<1>7. LockHeld'
  <2>1. pc'[p] = "locked" /\ loc'[p] = f
        /\ \A q \in Procs : q # p => pc'[q] = pc[q] /\ loc'[q] = loc[q]
    BY <1>3 DEF Goto, TypeOK
  <2>2. lock'[t] = p /\ \A u \in Tokens : u # t => lock'[u] = lock[u]
    BY <1>1, <1>2 DEF TypeOK
  <2>3. \A q \in Procs : q # p /\ pc[q] \in TxLabels => /\ loc[q].tid \in Tokens
                                                        /\ loc[q].tid # t
    BY <1>2, InTx, ProcAssumption
  <2>4. pc[p] \notin TxLabels
    BY <1>1 DEF TxLabels
  <2>5. ASSUME NEW u \in Tokens, NEW q \in Procs, lock'[u] = q
        PROVE  pc'[q] \in TxLabels /\ loc'[q].tid = u
    BY <1>3, <2>1, <2>2, <2>4, <2>5 DEF LockHeld, TxLabels
  <2>6. ASSUME NEW q \in Procs, pc'[q] \in TxLabels
        PROVE  lock'[loc'[q].tid] = q /\ loc'[q].tok = token'[loc'[q].tid]
    BY <1>2, <1>3, <2>1, <2>2, <2>3, <2>6 DEF LockHeld
  <2>7. ASSUME NEW q \in Procs, pc'[q] = "found"
        PROVE  /\ loc'[q].tok.status = "active" /\ loc'[q].tok.mac = loc'[q].mac
               /\ loc'[q].at < loc'[q].tok.expires
    BY <2>1, <2>7 DEF LockHeld
  <2>8. QED
    BY <2>5, <2>6, <2>7 DEF LockHeld
<1>8. GrantsBound' /\ OneDevicePerToken'
  BY <1>2, GrantsKept
<1>9. BacklogOwned'
  BY <1>2, BacklogKept
<1>10. QED
  BY <1>4, <1>5, <1>6, <1>7, <1>8, <1>9

LEMMA ResumeUnusedInv ==
  ASSUME TokenInv, NEW p \in Procs, ResumeUnused(p), UNCHANGED <<reported, backlog>>
  PROVE  TokenInv'
<1>1. PICK l \in Labels, f \in Frame :
        Goto(p, l, f) /\ l \notin TxLabels /\ FrameOK(l, f)
  BY InvalidTokenGoto DEF ResumeUnused, Holds, RedeemLabels
<1>2. QED
  BY <1>1, RollbackInv DEF ResumeUnused, TokenInv, TypeOK, gatewayVars

LEMMA RedeemRefusedInv ==
  ASSUME TokenInv, NEW p \in Procs, RedeemRefused(p), UNCHANGED <<reported, backlog>>
  PROVE  TokenInv'
BY IdleFrame, RollbackInv DEF RedeemRefused, Finish, TokenInv, TypeOK, gatewayVars

\* What the transaction asked of the gateway and the task queue keeps its type
LEMMA CutsExpiredType ==
  ASSUME TokenInv, NEW s \in Sessions, NEW ok, CutsExpired(s, ok)
  PROVE  queue' \in [Payload -> Nat] /\ faults' \in Nat /\ online' \subseteq Sessions
<1>1. queue' \in [Payload -> Nat] /\ faults' \in Nat
  BY QueueRetryType DEF CutsExpired, TokenInv, TypeOK
<1>2. online' \subseteq Sessions
  BY DEF CutsExpired, Cut, TokenInv, TypeOK
<1>3. QED
  BY <1>1, <1>2

LEMMA RedeemExpiredInv ==
  ASSUME TokenInv, NEW p \in Procs, RedeemExpired(p), UNCHANGED <<reported, backlog>>
  PROVE  TokenInv'
<1>1. queue' \in [Payload -> Nat] /\ faults' \in Nat /\ online' \subseteq Sessions
  <2>1. pc[p] \in TxLabels
    BY DEF RedeemExpired, Expires, TxLabels
  <2>2. QED
    BY <2>1, CutsExpiredType, InTx, ActiveFound
    DEF RedeemExpired, gatewayVars, TokenInv, TypeOK
<1>2. QED
  BY <1>1, IdleFrame, RollbackInv DEF RedeemExpired, Finish, TokenInv, TypeOK

LEMMA RedeemExpiredKeptInv ==
  ASSUME TokenInv, NEW p \in Procs, RedeemExpiredKept(p), UNCHANGED <<reported, backlog>>
  PROVE  TokenInv'
<1> DEFINE t == loc[p].tid
           new == Closed(loc[p].tok, "expired")
<1>1. pc[p] \in TxLabels /\ t \in Tokens /\ lock[t] = p
  BY InTx DEF RedeemExpiredKept, Expires, TxLabels
<1>2. new \in TokenRow /\ new.status = "expired"
  BY <1>1, InTx, TokenRows DEF TokenStatus, TerminalStatus
<1>3. token' = [token EXCEPT ![t] = new]
  BY DEF RedeemExpiredKept
<1> HIDE DEF new
<1>4. /\ token' \in [Tokens -> TokenRow]
      /\ \A u \in Tokens : \/ token'[u] = token[u]
                           \/ lock[u] = p /\ token'[u].status = "expired"
  BY <1>1, <1>2, <1>3 DEF TokenInv, TypeOK
<1>5. GrantsBound' /\ OneDevicePerToken'
  BY <1>4, GrantsKept DEF RedeemExpiredKept, TerminalStatus, TokenInv
<1>6. /\ queue' \in [Payload -> Nat] /\ faults' \in Nat /\ online' \subseteq Sessions
      /\ session' \in [Sessions -> SessionRow]
      /\ \A r \in Sessions : session'[r] = session[r] \/ Owned(session'[r])
  <2>1. CASE UNCHANGED <<session, faults, gatewayVars>>
    BY <2>1 DEF gatewayVars, TokenInv, TypeOK
  <2>2. ASSUME NEW s \in GetActiveSessionByToken(t), NEW ok \in BOOLEAN, CutsExpired(s, ok),
               UpdateSession(s, EndedSession(session[s], "expired", ~ok))
        PROVE  /\ queue' \in [Payload -> Nat] /\ faults' \in Nat
               /\ online' \subseteq Sessions /\ session' \in [Sessions -> SessionRow]
               /\ \A r \in Sessions : session'[r] = session[r] \/ Owned(session'[r])
    <3> DEFINE row == EndedSession(session[s], "expired", ~ok)
    <3>1. s \in Sessions /\ row \in SessionRow /\ Owned(row)
      BY <1>1, <2>2, ActiveFound, SessionRows, RowOwner DEF EndReason
    <3>2. session' = [session EXCEPT ![s] = row]
      BY <2>2 DEF UpdateSession
    <3> HIDE DEF row
    <3>3. QED
      BY <2>2, <3>1, <3>2, CutsExpiredType DEF TokenInv, TypeOK
  <2>3. QED
    BY <2>1, <2>2 DEF RedeemExpiredKept
<1>7. Finish(p) /\ Unlock(p) /\ UNCHANGED <<ledger, now, granted>>
  BY DEF RedeemExpiredKept
<1>8. QED
  BY <1>4, <1>5, <1>6, <1>7, IdleFrame, EndTxInv DEF Finish, TokenInv, TypeOK

\* The row of a session opened inside the transaction
LEMMA OpenedRow ==
  ASSUME TokenInv, NEW p \in Procs, pc[p] \in TxLabels
  PROVE  Opened(p) \in SessionRow /\ Owned(Opened(p))
BY InTx, Known, NewRow DEF Opened, Frame

LEMMA RedeemActivateInv ==
  ASSUME TokenInv, NEW p \in Procs, RedeemActivate(p), UNCHANGED <<reported, backlog>>
  PROVE  TokenInv'
<1> DEFINE t == loc[p].tid
<1>1. /\ pc[p] \in TxLabels /\ t \in Tokens /\ loc[p].mac \in Macs
      /\ token[t].status = "unused" /\ lock[t] = p
      /\ token' = [token EXCEPT ![t] = Activated(p)]
  BY InTx DEF RedeemActivate, Holds, TxLabels
<1>2. PICK s \in Sessions : CreateSession(p, s, Opened(p)) /\ Grant(p, s)
  BY DEF RedeemActivate
<1>3. /\ Activated(p) \in TokenRow /\ Activated(p).status = "active"
      /\ Activated(p).mac = loc[p].mac /\ Activated(p).expires # 0
  <2>1. loc[p].at + Duration[t] \in Nat /\ loc[p].at + Duration[t] # 0
    BY <1>1, Known, PlanAssumption DEF Frame
  <2>2. QED
    BY <1>1, <2>1 DEF Activated, TokenRow, TokenStatus
<1>4. /\ token' \in [Tokens -> TokenRow] /\ token'[t] = Activated(p)
      /\ \A u \in Tokens : u # t => token'[u] = token[u]
  BY <1>1, <1>3 DEF TokenInv, TypeOK
<1>5. granted[t] = {}
  BY <1>1 DEF TokenInv, GrantsBound
<1>6. /\ granted' \in [Tokens -> SUBSET (Macs \X Sessions)]
      /\ online' \subseteq Sessions /\ GrantsBound' /\ OneDevicePerToken'
  BY <1>1, <1>2, <1>3, <1>4, <1>5, GrantInv
<1>7. /\ session' \in [Sessions -> SessionRow]
      /\ \A r \in Sessions : session'[r] = session[r] \/ Owned(session'[r])
  BY <1>1, <1>2, OpenedRow DEF CreateSession, TokenInv, TypeOK
<1>8. \A u \in Tokens : \/ token'[u] = token[u]
                        \/ lock[u] = p /\ token'[u].status # "absent"
  <2>1. token'[t].status # "absent" /\ lock[t] = p
    BY <1>1, <1>3, <1>4
  <2>2. QED
    BY <1>4, <2>1
<1>9. Finish(p) /\ Unlock(p) /\ UNCHANGED <<ledger, now, faults, queue, reported>>
  BY DEF RedeemActivate
<1>10. QED
  BY <1>4, <1>6, <1>7, <1>8, <1>9, IdleFrame, EndTxInv DEF Finish, TokenInv, TypeOK

LEMMA ResumeFindInv ==
  ASSUME TokenInv, NEW p \in Procs, ResumeFind(p), UNCHANGED <<reported, backlog>>
  PROVE  TokenInv'
<1> USE DEF TokenInv
<1> DEFINE t == loc[p].tid
           frame(s) == [loc[p] EXCEPT !.sid = s, !.ses = session[s]]
<1>1. /\ pc[p] = "locked" /\ pc[p] \in TxLabels /\ t \in Tokens
      /\ UNCHANGED <<storeVars, faults, queue, online, granted, reported, backlog>>
  BY InTx DEF ResumeFind, Holds, TxLabels, gatewayVars
<1>2. /\ loc[p].tok.status = "active" /\ loc[p].tok.mac = loc[p].mac
      /\ loc[p].at < loc[p].tok.expires
  <2>1. loc[p].tok.expires \in Nat /\ loc[p].at \in Nat
    BY Known DEF Frame, TokenRow
  <2>2. loc[p].tok.status = "active" => loc[p].tok.expires # 0
    BY <1>1, InTx DEF GrantsBound
  <2>3. /\ loc[p].tok.status = "active" /\ loc[p].tok.mac = loc[p].mac
        /\ ~Overdue(loc[p].tok, loc[p].at)
    BY DEF ResumeFind, Holds
  <2>4. QED
    BY <2>1, <2>2, <2>3 DEF Overdue
<1>3. PICK f \in Frame :
        /\ Goto(p, "found", f)
        /\ f.tid = t /\ f.tok = loc[p].tok /\ f.mac = loc[p].mac /\ f.at = loc[p].at
        /\ f.todo = loc[p].todo /\ Owned(f.ses)
  <2>1. CASE Goto(p, "found", loc[p])
    BY <2>1, Known
  <2>2. ASSUME NEW s \in GetActiveSessionByToken(t), Goto(p, "found", frame(s))
        PROVE  \E f \in Frame :
                 /\ Goto(p, "found", f)
                 /\ f.tid = t /\ f.tok = loc[p].tok /\ f.mac = loc[p].mac
                 /\ f.at = loc[p].at /\ f.todo = loc[p].todo /\ Owned(f.ses)
    <3>1. s \in Sessions /\ session[s] \in SessionRow /\ Owned(session[s])
      BY <1>1, <2>2, ActiveFound
    <3>2. /\ frame(s) \in Frame
          /\ frame(s).tid = t /\ frame(s).tok = loc[p].tok
          /\ frame(s).mac = loc[p].mac /\ frame(s).at = loc[p].at
          /\ frame(s).todo = loc[p].todo /\ frame(s).ses = session[s]
      BY <3>1, Known DEF Frame
    <3> HIDE DEF frame
    <3>3. QED
      BY <2>2, <3>1, <3>2
  <2>3. QED
    BY <2>1, <2>2 DEF ResumeFind
<1>4. TypeOK'
  BY <1>1, <1>3 DEF TypeOK, Goto, Labels, storeVars
<1>5. FramesOK'
  <2>1. FrameOK("found", f)
    BY <1>1, <1>3, Known DEF FrameOK, RedeemLabels, TokenLabels, SessionLabels,
                             KnownLabels, WriteLabels, UsageLabels
  <2>2. FrameOK("found", f)'
    BY <1>1, <2>1 DEF FrameOK, Owned, storeVars
  <2>3. QED
    BY <1>1, <1>3, <2>2, FramesKept DEF storeVars
<1>6. RowsOwned'
  BY <1>1 DEF RowsOwned, Owned, storeVars
<1>7. LockHeld'
  <2>1. pc'[p] = "found" /\ loc'[p] = f
        /\ \A q \in Procs : q # p => pc'[q] = pc[q] /\ loc'[q] = loc[q]
    BY <1>3 DEF Goto, TypeOK
  <2>2. token' = token /\ lock' = lock
    BY <1>1 DEF storeVars
  <2>3. QED
    BY <1>1, <1>2, <1>3, <2>1, <2>2 DEF LockHeld, TxLabels
<1>8. GrantsBound' /\ OneDevicePerToken'
  BY <1>1, GrantsKept DEF storeVars
<1>9. BacklogOwned'
  BY <1>1, BacklogKept DEF storeVars
<1>10. QED
  BY <1>4, <1>5, <1>6, <1>7, <1>8, <1>9

\* At "found" the token row is active and bound to the caller's device
LEMMA InFound ==
  ASSUME TokenInv, NEW p \in Procs, pc[p] = "found"
  PROVE  /\ pc[p] \in TxLabels
         /\ token[loc[p].tid].status = "active"
         /\ token[loc[p].tid].mac = loc[p].mac
         /\ token[loc[p].tid].expires # 0
BY InTx DEF TxLabels, LockHeld, TokenInv, GrantsBound

\* A resume commits its session and lets the device in
LEMMA ResumeEndInv ==
  ASSUME TokenInv, NEW p \in Procs, pc[p] = "found", NEW s \in Sessions, Grant(p, s),
         session' \in [Sessions -> SessionRow],
         \A r \in Sessions : session'[r] = session[r] \/ Owned(session'[r]),
         Unlock(p), Finish(p),
         UNCHANGED <<token, ledger, now, faults, queue, reported, backlog>>
  PROVE  TokenInv'
<1>1. /\ granted' \in [Tokens -> SUBSET (Macs \X Sessions)]
      /\ online' \subseteq Sessions /\ GrantsBound' /\ OneDevicePerToken'
  BY InFound, GrantInv DEF TokenInv, TypeOK
<1>2. QED
  BY <1>1, IdleFrame, EndTxInv DEF Finish, TokenInv, TypeOK

LEMMA ResumeAttachInv ==
  ASSUME TokenInv, NEW p \in Procs, ResumeAttach(p), UNCHANGED <<reported, backlog>>
  PROVE  TokenInv'
<1> DEFINE new == Attached(loc[p].ses, loc[p].rid)
<1>1. loc[p].sid \in Sessions /\ new \in SessionRow /\ Owned(new)
  BY Known, SessionRows, AnyRowOwner DEF ResumeAttach, Frame
<1>2. session' = [session EXCEPT ![loc[p].sid] = new]
  BY DEF ResumeAttach, UpdateSession
<1> HIDE DEF new
<1>3. /\ session' \in [Sessions -> SessionRow]
      /\ \A r \in Sessions : session'[r] = session[r] \/ Owned(session'[r])
  BY <1>1, <1>2 DEF TokenInv, TypeOK
<1>4. QED
  BY <1>1, <1>3, ResumeEndInv DEF ResumeAttach

LEMMA ResumeReopenInv ==
  ASSUME TokenInv, NEW p \in Procs, ResumeReopen(p), UNCHANGED <<reported, backlog>>
  PROVE  TokenInv'
<1>1. PICK s \in Sessions : CreateSession(p, s, Opened(p)) /\ Grant(p, s)
  BY DEF ResumeReopen
<1>2. /\ session' \in [Sessions -> SessionRow]
      /\ \A r \in Sessions : session'[r] = session[r] \/ Owned(session'[r])
  BY <1>1, InFound, OpenedRow DEF ResumeReopen, CreateSession, TokenInv, TypeOK
<1>3. QED
  BY <1>1, <1>2, ResumeEndInv DEF ResumeReopen

LEMMA RedeemInv ==
  ASSUME TokenInv, NEW p \in Procs, RedeemStep(p), UNCHANGED <<reported, backlog>>
  PROVE  TokenInv'
BY RedeemUnknownInv, RedeemLockInv, ResumeUnusedInv, RedeemRefusedInv, RedeemExpiredInv,
   RedeemExpiredKeptInv,
   RedeemActivateInv, ResumeFindInv, ResumeAttachInv, ResumeReopenInv DEF RedeemStep

------------------------------------------------------------------------------
(* Revocation *)

LEMMA RevokeReadInv ==
  ASSUME TokenInv, NEW p \in Procs, RevokeRead(p), UNCHANGED <<reported, backlog>>
  PROVE  TokenInv'
<1> DEFINE frame(t) == [NoFrame EXCEPT !.op = "revoke", !.tid = t,
                                       !.tok = Closed(token[t], "revoked")]
<1>1. PICK t \in Tokens : token[t].status # "absent" /\ Goto(p, "revoke_write", frame(t))
  BY DEF RevokeRead
<1>2. PICK row \in TokenRow : row = Closed(token[t], "revoked") /\ row.status = "revoked"
  BY <1>1, TokenRows DEF TokenInv, TypeOK, TokenStatus, TerminalStatus
<1>3. /\ frame(t) \in Frame /\ frame(t).tid = t /\ frame(t).tok = row
      /\ frame(t).todo = {} /\ frame(t).ses = AbsentSession
  BY <1>2, IdleFrame DEF Frame, NoFrame, AllOps
<1> HIDE DEF frame
<1>4. FrameOK("revoke_write", frame(t))
  BY <1>1, <1>2, <1>3 DEF FrameOK, RedeemLabels, TokenLabels, SessionLabels, KnownLabels,
                          WriteLabels, UsageLabels, TerminalStatus, Owned, AbsentSession
<1>5. QED
  BY <1>1, <1>3, <1>4, LocalStepInv
  DEF RevokeRead, Arrives, TxLabels, Labels, TokenInv, TypeOK, gatewayVars

LEMMA RevokeWriteInv ==
  ASSUME TokenInv, NEW p \in Procs, RevokeWrite(p), UNCHANGED <<reported, backlog>>
  PROVE  TokenInv'
<1> DEFINE f == [loc[p] EXCEPT !.tok = AbsentToken]
<1>1. /\ pc[p] = "revoke_write" /\ pc[p] \notin TxLabels
      /\ loc[p].tok \in TokenRow /\ loc[p].tok.status \in TerminalStatus
  BY Known DEF RevokeWrite, TxLabels, FrameOK, WriteLabels, Frame
<1>2. Goto(p, "revoke_find", f)
  BY DEF RevokeWrite
<1>3. /\ f \in Frame /\ f.tid = loc[p].tid /\ f.todo = loc[p].todo
      /\ f.ses = loc[p].ses
  BY Known, TokenRows DEF Frame
<1> HIDE DEF f
<1>4. FrameOK("revoke_find", f)
  BY <1>1, <1>3, Known DEF FrameOK, RedeemLabels, TokenLabels, SessionLabels, KnownLabels,
                           WriteLabels, UsageLabels
<1>5. QED
  BY <1>1, <1>2, <1>3, <1>4, StepInv
  DEF RevokeWrite, UpdateToken, TxLabels, Labels, TokenInv, TypeOK, gatewayVars

\* A handler that found the session to end
LEMMA EndFrame ==
  ASSUME TokenInv, NEW p \in Procs, NEW s \in GetActiveSessionByToken(loc[p].tid),
         pc[p] \in KnownLabels, NEW why \in EndReason, NEW l \in {"revoke_end", "sweep_end"},
         Goto(p, l, [loc[p] EXCEPT !.sid = s,
                                   !.ses = EndedSession(session[s], why, TRUE)])
  PROVE  \E f \in Frame : Goto(p, l, f) /\ l \notin TxLabels /\ FrameOK(l, f)
<1> DEFINE new == EndedSession(session[s], why, TRUE)
           f   == [loc[p] EXCEPT !.sid = s, !.ses = new]
<1>1. /\ loc[p].tid \in Tokens /\ token[loc[p].tid].status # "absent"
      /\ \A d \in loc[p].todo : token[d[1]].status # "absent"
  BY Known DEF FrameOK, KnownLabels, TokenLabels
<1>2. s \in Sessions /\ new \in SessionRow /\ Owned(new)
  <2>1. s \in Sessions /\ session[s].status = "active"
        /\ session[s] \in SessionRow /\ Owned(session[s])
    BY <1>1, ActiveFound
  <2>2. QED
    BY <2>1, SessionRows, RowOwner
<1>3. Goto(p, l, f)
  OBVIOUS
<1> HIDE DEF new
<1>4. /\ f \in Frame /\ f.sid = s /\ f.tid = loc[p].tid /\ f.todo = loc[p].todo
      /\ f.ses = new
  BY <1>2, Known DEF Frame
<1> HIDE DEF f
<1>5. FrameOK(l, f) /\ l \notin TxLabels
  BY <1>1, <1>2, <1>4 DEF FrameOK, RedeemLabels, TokenLabels, SessionLabels, KnownLabels,
                          WriteLabels, UsageLabels, TxLabels
<1>6. QED
  BY <1>3, <1>4, <1>5

LEMMA RevokeFindInv ==
  ASSUME TokenInv, NEW p \in Procs, RevokeFind(p), UNCHANGED <<reported, backlog>>
  PROVE  TokenInv'
<1>1. /\ pc[p] = "revoke_find" /\ pc[p] \notin TxLabels /\ pc[p] \in KnownLabels
      /\ UNCHANGED <<storeVars, gatewayVars, granted, reported>>
  BY DEF RevokeFind, TxLabels, KnownLabels, TokenLabels, RedeemLabels
<1>2. faults' \in Nat
  <2>1. Fault \/ UNCHANGED faults
    BY DEF RevokeFind, StoreFails
  <2>2. QED
    BY <2>1 DEF Fault, TokenInv, TypeOK
<1>3. \E l \in Labels, f \in Frame : Goto(p, l, f) /\ l \notin TxLabels /\ FrameOK(l, f)
  <2>1. CASE Finish(p)
    BY <2>1, IdleFrame DEF Finish
  <2>2. ASSUME NEW s \in GetActiveSessionByToken(loc[p].tid),
               Goto(p, "revoke_end",
                    [loc[p] EXCEPT !.sid = s,
                                   !.ses = EndedSession(session[s], "revoked", TRUE)])
        PROVE  \E f \in Frame : /\ Goto(p, "revoke_end", f)
                                /\ "revoke_end" \notin TxLabels
                                /\ FrameOK("revoke_end", f)
    BY <1>1, <2>2, EndFrame DEF EndReason
  <2>3. QED
    BY <2>1, <2>2 DEF RevokeFind, Labels
<1>4. QED
  BY <1>1, <1>2, <1>3, LocalStepInv DEF TokenInv, TypeOK, gatewayVars

LEMMA RevokeEndInv ==
  ASSUME TokenInv, NEW p \in Procs, RevokeEnd(p), UNCHANGED <<reported, backlog>>
  PROVE  TokenInv'
<1>1. pc[p] \notin TxLabels /\ loc[p].sid \in Sessions
  BY Known DEF RevokeEnd, TxLabels, SessionLabels
<1>2. PICK l \in Labels, f \in Frame :
        Goto(p, l, f) /\ l \notin TxLabels /\ FrameOK(l, f)
  BY <1>1, CallDisconnectGoto DEF RevokeEnd, EndReason
<1>3. QED
  BY <1>1, <1>2, Known, SessionStepInv DEF RevokeEnd, gatewayVars, TokenInv, TypeOK

------------------------------------------------------------------------------
(* The sweep *)

LEMMA SweepListInv ==
  ASSUME TokenInv, NEW p \in Procs, SweepList(p), UNCHANGED <<reported, backlog>>
  PROVE  TokenInv'
<1> DEFINE due == {t \in Tokens : token[t].status = "active" /\ Overdue(token[t], now)}
           todo == {<<t, token[t]>> : t \in due}
           f == [NoFrame EXCEPT !.op = "sweep", !.todo = todo]
<1>1. Goto(p, "sweep", f) /\ pc[p] \notin TxLabels
  BY DEF SweepList, Dequeues, TxLabels
<1>2. /\ todo \subseteq Tokens \X TokenRow
      /\ \A d \in todo : token[d[1]].status # "absent"
  BY DEF TokenInv, TypeOK
<1> HIDE DEF todo
<1>3. f \in Frame /\ f.todo = todo /\ f.ses = AbsentSession
  BY <1>2, IdleFrame DEF Frame, NoFrame, AllOps
<1> HIDE DEF f
<1>4. FrameOK("sweep", f)
  BY <1>2, <1>3 DEF FrameOK, RedeemLabels, TokenLabels, SessionLabels, KnownLabels,
                    WriteLabels, UsageLabels, Owned, AbsentSession
<1>5. QED
  BY <1>1, <1>3, <1>4, LocalStepInv
  DEF SweepList, TxLabels, Labels, TokenInv, TypeOK, gatewayVars

LEMMA SweepExpireInv ==
  ASSUME TokenInv, NEW p \in Procs, SweepExpire(p), UNCHANGED <<reported, backlog>>
  PROVE  TokenInv'
<1> DEFINE frame(d) == [loc[p] EXCEPT !.tid = d[1], !.todo = @ \ {d}]
<1>1. PICK d \in loc[p].todo : /\ UpdateToken(d[1], Closed(d[2], "expired"))
                              /\ Goto(p, "sweep_find", frame(d))
  BY DEF SweepExpire
<1>2. /\ pc[p] = "sweep" /\ pc[p] \notin TxLabels
      /\ d[1] \in Tokens /\ d[2] \in TokenRow /\ token[d[1]].status # "absent"
  BY Known DEF SweepExpire, TxLabels, Frame, FrameOK
<1>3. PICK row \in TokenRow : row = Closed(d[2], "expired") /\ row.status = "expired"
  BY <1>2, TokenRows DEF TokenStatus, TerminalStatus
<1>4. /\ frame(d) \in Frame /\ frame(d).tid = d[1] /\ frame(d).ses = loc[p].ses
      /\ frame(d).todo \subseteq loc[p].todo
  <2> DEFINE t == d[1]
             S == loc[p].todo \ {d}
  <2>1. loc[p] \in Frame /\ t \in Tokens /\ S \in SUBSET (Tokens \X TokenRow)
    BY <1>2, Known DEF Frame
  <2>2. frame(d) = [loc[p] EXCEPT !.tid = t, !.todo = S] /\ S \subseteq loc[p].todo
    BY <2>1
  <2> HIDE DEF frame, t, S
  <2>3. [loc[p] EXCEPT !.tid = t, !.todo = S] \in Frame
    BY <2>1 DEF Frame
  <2>4. /\ frame(d).tid = t /\ frame(d).ses = loc[p].ses /\ frame(d).todo = S
    BY <2>1, <2>2 DEF Frame
  <2>5. QED
    BY <2>2, <2>3, <2>4 DEF t
<1> HIDE DEF frame
<1>5. FrameOK("sweep_find", frame(d))
  BY <1>2, <1>4, Known DEF FrameOK, RedeemLabels, TokenLabels, SessionLabels, KnownLabels,
                           WriteLabels, UsageLabels
<1>6. /\ token' \in [Tokens -> TokenRow]
      /\ \A t \in Tokens : \/ token'[t] = token[t]
                           \/ lock[t] = None /\ token'[t].status \in TerminalStatus
  BY <1>1, <1>2, <1>3 DEF UpdateToken, TerminalStatus, TokenInv, TypeOK
<1>7. QED
  BY <1>1, <1>2, <1>4, <1>5, <1>6, StepInv
  DEF SweepExpire, TxLabels, Labels, TokenInv, TypeOK, gatewayVars

LEMMA SweepFindInv ==
  ASSUME TokenInv, NEW p \in Procs, SweepFind(p), UNCHANGED <<reported, backlog>>
  PROVE  TokenInv'
<1>1. /\ pc[p] = "sweep_find" /\ pc[p] \notin TxLabels /\ pc[p] \in KnownLabels
      /\ UNCHANGED <<storeVars, gatewayVars, granted, reported>>
  BY DEF SweepFind, TxLabels, KnownLabels, TokenLabels, RedeemLabels
<1>2. faults' \in Nat
  <2>1. Fault \/ UNCHANGED faults
    BY DEF SweepFind, StoreFails
  <2>2. QED
    BY <2>1 DEF Fault, TokenInv, TypeOK
<1>3. \E l \in Labels, f \in Frame : Goto(p, l, f) /\ l \notin TxLabels /\ FrameOK(l, f)
  <2>1. CASE Returned(p)
    BY <2>1, ReturnedGoto
  <2>2. ASSUME NEW s \in GetActiveSessionByToken(loc[p].tid),
               Goto(p, "sweep_end",
                    [loc[p] EXCEPT !.sid = s,
                                   !.ses = EndedSession(session[s], "expired", TRUE)])
        PROVE  \E f \in Frame : /\ Goto(p, "sweep_end", f)
                                /\ "sweep_end" \notin TxLabels
                                /\ FrameOK("sweep_end", f)
    BY <1>1, <2>2, EndFrame DEF EndReason
  <2>3. QED
    BY <2>1, <2>2 DEF SweepFind, Labels
<1>4. QED
  BY <1>1, <1>2, <1>3, LocalStepInv DEF TokenInv, TypeOK, gatewayVars

LEMMA SweepEndInv ==
  ASSUME TokenInv, NEW p \in Procs, SweepEnd(p), UNCHANGED <<reported, backlog>>
  PROVE  TokenInv'
<1>1. pc[p] \notin TxLabels /\ loc[p].sid \in Sessions
  BY Known DEF SweepEnd, TxLabels, SessionLabels
<1>2. PICK l \in Labels, f \in Frame :
        Goto(p, l, f) /\ l \notin TxLabels /\ FrameOK(l, f)
  BY <1>1, CallDisconnectGoto DEF SweepEnd, EndReason
<1>3. QED
  BY <1>1, <1>2, Known, SessionStepInv DEF SweepEnd, gatewayVars, TokenInv, TypeOK

\* A token service step keeps the invariant
LEMMA TokenServiceInv ==
  ASSUME TokenInv, NEW p \in Procs, TokenBegin(p) \/ TokenStep(p), UNCHANGED <<reported, backlog>>
  PROVE  TokenInv'
BY BeginRedeemInv, RevokeReadInv, SweepListInv, RedeemInv, RevokeWriteInv, RevokeFindInv,
   RevokeEndInv, SweepExpireInv, SweepFindInv, SweepEndInv DEF TokenBegin, TokenStep
==============================================================================
