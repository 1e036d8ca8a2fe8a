------------------------------ MODULE WifiLemmas ------------------------------
(***************************************************************************)
(* What the proofs about WifiMan rest on: the row and frame operators keep *)
(* types and owners, and a step of a handler that respects its frame and   *)
(* the row locks keeps the inductive invariant.                            *)
(***************************************************************************)
EXTENDS WifiInvariants, TLAPS

\* A frame that was fit for its label stays so as long as no token row vanishes
LEMMA FramesKept ==
  ASSUME TypeOK, FramesOK, NEW p \in Procs, NEW l, NEW f,
         Goto(p, l, f), FrameOK(l, f)',
         \A t \in Tokens : token[t].status # "absent" => token'[t].status # "absent"
  PROVE  FramesOK'
<1> SUFFICES ASSUME NEW q \in Procs PROVE FrameOK(pc[q], loc[q])'
  BY DEF FramesOK
<1>1. CASE q = p
  BY <1>1 DEF Goto, TypeOK
<1>2. CASE q # p
  <2>1. pc'[q] = pc[q] /\ loc'[q] = loc[q] /\ FrameOK(pc[q], loc[q])
    BY <1>2 DEF Goto, TypeOK, FramesOK
  <2>2. loc[q].todo \subseteq Tokens \X TokenRow
    BY DEF TypeOK, Frame
  <2>3. QED
    BY <2>1, <2>2 DEF FrameOK, Owned, TokenLabels, KnownLabels
<1>3. QED
  BY <1>1, <1>2

\* A step outside the transaction keeps the locks, if it writes no locked row
LEMMA LockKept ==
  ASSUME TypeOK, LockHeld, NEW p \in Procs, NEW l, NEW f,
         Goto(p, l, f), lock' = lock, pc[p] \notin TxLabels, l \notin TxLabels,
         FramesOK,
         \A t \in Tokens : lock[t] # None => token'[t] = token[t]
  PROVE  LockHeld'
<1>1. ASSUME NEW q \in Procs, q # p
      PROVE  pc'[q] = pc[q] /\ loc'[q] = loc[q]
  BY <1>1 DEF Goto, TypeOK
<1>2. pc'[p] = l
  BY DEF Goto, TypeOK
<1>3. ASSUME NEW q \in Procs, pc[q] \in TxLabels
      PROVE  loc[q].tid \in Tokens
  BY <1>3 DEF FramesOK, FrameOK, TxLabels, TokenLabels, RedeemLabels
<1>4. QED
  BY <1>1, <1>2, <1>3, ProcAssumption DEF LockHeld, TxLabels, TypeOK

\* Commit and rollback: the locks of the other transactions are kept
LEMMA LockFreed ==
  ASSUME TypeOK, LockHeld, FramesOK, NEW p \in Procs, NEW l, NEW f,
         Goto(p, l, f), Unlock(p), l \notin TxLabels,
         \A t \in Tokens : lock[t] \notin {None, p} => token'[t] = token[t]
  PROVE  LockHeld'
<1>1. ASSUME NEW q \in Procs, q # p
      PROVE  pc'[q] = pc[q] /\ loc'[q] = loc[q]
  BY <1>1 DEF Goto, TypeOK
<1>2. pc'[p] = l
  BY DEF Goto, TypeOK
<1>3. ASSUME NEW q \in Procs, pc[q] \in TxLabels
      PROVE  loc[q].tid \in Tokens
  BY <1>3 DEF FramesOK, FrameOK, TxLabels, TokenLabels, RedeemLabels
<1>4. QED
  BY <1>1, <1>2, <1>3, ProcAssumption DEF LockHeld, TxLabels, TypeOK, Unlock

\* Closing a token, or issuing it, disturbs no grant
LEMMA GrantsKept ==
  ASSUME TypeOK, GrantsBound, OneDevicePerToken, granted' = granted,
         \A t \in Tokens : \/ token'[t] = token[t]
                           \/ token'[t].status \in TerminalStatus
                           \/ token[t].status = "absent" /\ token'[t].status = "unused"
  PROVE  GrantsBound' /\ OneDevicePerToken'
BY DEF GrantsBound, OneDevicePerToken, TerminalStatus

\* The backlog of a recovery only shrinks, and no token row vanishes under it
LEMMA BacklogKept ==
  ASSUME BacklogOwned, \A q \in Procs : backlog'[q] \subseteq backlog[q],
         \A t \in Tokens : token[t].status # "absent" => token'[t].status # "absent"
  PROVE  BacklogOwned'
BY DEF BacklogOwned, Owned

------------------------------------------------------------------------------
(* Rows *)

\* The operators on token rows
LEMMA TokenRows ==
  /\ AbsentToken \in TokenRow /\ UnusedToken \in TokenRow
  /\ \A row \in TokenRow, st \in TokenStatus :
       /\ Closed(row, st) \in TokenRow
       /\ Closed(row, st).status = st
<1>1. AbsentToken \in TokenRow /\ UnusedToken \in TokenRow
  BY DEF AbsentToken, UnusedToken, TokenRow, TokenStatus
<1>2. ASSUME NEW row \in TokenRow, NEW st \in TokenStatus
      PROVE  Closed(row, st) \in TokenRow /\ Closed(row, st).status = st
  BY DEF Closed, TokenRow
<1>3. QED
  BY <1>1, <1>2

\* The operators that write a session row keep its type
LEMMA SessionRows ==
  ASSUME NEW row \in SessionRow
  PROVE  /\ \A why \in EndReason, b \in BOOLEAN : EndedSession(row, why, b) \in SessionRow
         /\ \A r \in RadiusIds \cup {None} : Attached(row, r) \in SessionRow
         /\ \A b \in BOOLEAN : Pending(row, b) \in SessionRow
         /\ \A n \in Nat : Charged(row, n) \in SessionRow
         /\ \A m \in Macs : Touched(row, m) \in SessionRow
         /\ \A why \in EndReason : Marked(row, why) \in SessionRow
<1>1. ASSUME NEW why \in EndReason, NEW b \in BOOLEAN
      PROVE  EndedSession(row, why, b) \in SessionRow
  BY DEF EndedSession, SessionRow, SessionStatus
<1>2. ASSUME NEW r \in RadiusIds \cup {None}
      PROVE  Attached(row, r) \in SessionRow
  BY DEF Attached, SessionRow
<1>3. ASSUME NEW b \in BOOLEAN
      PROVE  Pending(row, b) \in SessionRow
  BY DEF Pending, SessionRow
<1>4. ASSUME NEW n \in Nat
      PROVE  Charged(row, n) \in SessionRow
  <2>1. row.bytes + n \in Nat
    BY DEF SessionRow
  <2>2. \A k \in Nat : [row EXCEPT !.bytes = k] \in SessionRow
    BY DEF SessionRow
  <2>3. QED
    BY <2>1, <2>2 DEF Charged
<1>5. ASSUME NEW m \in Macs
      PROVE  Touched(row, m) \in SessionRow
  BY DEF Touched, SessionRow
<1>6. ASSUME NEW why \in EndReason
      PROVE  Marked(row, why) \in SessionRow
  BY <1>1, <1>3 DEF Marked
<1>7. QED
  BY <1>1, <1>2, <1>3, <1>4, <1>5, <1>6

\* ... and, on a row that exists, its owner
LEMMA RowOwner ==
  ASSUME NEW row \in SessionRow, Owned(row), row.status # "absent",
         NEW why, NEW b, NEW r, NEW n, NEW m
  PROVE  /\ Owned(EndedSession(row, why, b))
         /\ Owned(Attached(row, r))
         /\ Owned(Pending(row, b))
         /\ Owned(Charged(row, n))
         /\ Owned(Touched(row, m))
         /\ Owned(Marked(row, why))
<1>1. Owned(EndedSession(row, why, b)) /\ Owned(EndedSession(row, why, TRUE))
  BY DEF Owned, EndedSession, SessionRow
<1>2. Owned(Pending(row, b)) /\ Owned(Pending(row, TRUE))
  BY DEF Owned, Pending, SessionRow
<1>3. Owned(Attached(row, r))
  BY DEF Owned, Attached, SessionRow
<1>4. \A k : Owned([row EXCEPT !.bytes = k])
  BY DEF Owned, SessionRow
<1>5. Owned(Touched(row, m))
  BY DEF Owned, Touched, SessionRow
<1>6. QED
  BY <1>1, <1>2, <1>3, <1>4, <1>5 DEF Marked, Charged

\* These keep an absent row absent and an existing one existing
LEMMA AnyRowOwner ==
  ASSUME NEW row \in SessionRow, Owned(row), NEW b, NEW r
  PROVE  Owned(Pending(row, b)) /\ Owned(Attached(row, r))
BY DEF Owned, Pending, Attached, SessionRow

\* A fresh session row of a token that exists
LEMMA NewRow ==
  ASSUME NEW t \in Tokens, token[t].status # "absent", NEW m \in Macs \cup {None},
         NEW r \in RadiusIds \cup {None}, NEW at \in Nat, NEW b \in BOOLEAN
  PROVE  /\ NewSession(t, m, r, at, b) \in SessionRow
         /\ Owned(NewSession(t, m, r, at, b))
         /\ NewSession(t, m, r, at, b).tok = t
BY DEF NewSession, AbsentSession, SessionRow, SessionStatus, EndReason, Owned

\* The entry points and the reasons by name
LEMMA Names ==
  /\ "redeem" \in AllOps /\ "resume" \in AllOps /\ "auth" \in AllOps
  /\ "revoke" \in AllOps /\ "sweep" \in AllOps /\ "disconnect" \in AllOps
  /\ "retry" \in AllOps /\ "start" \in AllOps /\ "interim" \in AllOps
  /\ "stop" \in AllOps /\ "acct_start" \in AllOps /\ "acct_interim" \in AllOps
  /\ "acct_stop" \in AllOps /\ "recover" \in AllOps
  /\ "none" \in EndReason /\ "revoked" \in EndReason /\ "expired" \in EndReason
  /\ "data_limit_reached" \in EndReason /\ "disconnect" \in EndReason
  /\ "stop" \in EndReason /\ "recovered_closed" \in EndReason
BY DEF AllOps, EndReason

\* The frame of an idle handler
LEMMA IdleFrame ==
  /\ "idle" \in Labels /\ "idle" \notin TxLabels
  /\ NoFrame \in Frame
  /\ FrameOK("idle", NoFrame)
<1>1. NoFrame \in Frame
  BY TokenRows DEF NoFrame, Frame, AbsentSession, SessionRow, SessionStatus, EndReason
<1>2. FrameOK("idle", NoFrame)
  BY DEF FrameOK, NoFrame, RedeemLabels, TokenLabels, SessionLabels, KnownLabels,
         WriteLabels, UsageLabels, Owned, AbsentSession
<1>3. QED
  BY <1>1, <1>2 DEF Labels, TxLabels

\* The fields of that frame that the frames built from it keep
LEMMA BlankFrame ==
  NoFrame \in Frame /\ NoFrame.todo = {} /\ NoFrame.ses = AbsentSession
  /\ NoFrame.sid = None /\ NoFrame.reason = "none"
BY IdleFrame DEF NoFrame

\* The frame of DisconnectSession called by a handler with frame f, and of the
\* recovery's loop
CallFrame(f, s, why) ==
  [NoFrame EXCEPT !.op = f.op, !.sid = s, !.reason = why, !.flag = TRUE,
                  !.todo = f.todo, !.at = f.at]
LoopFrame(k) == [NoFrame EXCEPT !.op = "recover", !.at = k]

LEMMA CallFrameType ==
  ASSUME NEW f \in Frame, NEW s \in Sessions, NEW why \in EndReason
  PROVE  /\ CallFrame(f, s, why) \in Frame
         /\ CallFrame(f, s, why).op = f.op /\ CallFrame(f, s, why).sid = s
         /\ CallFrame(f, s, why).reason = why
         /\ CallFrame(f, s, why).todo = f.todo /\ CallFrame(f, s, why).at = f.at
         /\ CallFrame(f, s, why).ses = AbsentSession
<1>1. CallFrame(f, s, why) \in Frame
  BY IdleFrame DEF Frame, CallFrame
<1>2. QED
  BY <1>1 DEF CallFrame, NoFrame

LEMMA LoopFrameType ==
  ASSUME NEW k \in Nat
  PROVE  /\ LoopFrame(k) \in Frame
         /\ LoopFrame(k).op = "recover" /\ LoopFrame(k).sid = None
         /\ LoopFrame(k).todo = {} /\ LoopFrame(k).at = k
         /\ LoopFrame(k).ses = AbsentSession /\ LoopFrame(k).reason = "none"
<1>1. LoopFrame(k) \in Frame
  BY Names, IdleFrame DEF Frame, LoopFrame
<1>2. QED
  BY <1>1 DEF LoopFrame, NoFrame

\* A frame that carries a session row
LEMMA CarryingFrame ==
  ASSUME NEW f \in Frame, NEW s \in Sessions, NEW row \in SessionRow
  PROVE  [f EXCEPT !.sid = s, !.ses = row] \in Frame
BY DEF Frame

------------------------------------------------------------------------------
(* Steps *)

\* A step of a handler outside the redeem transaction.  It writes session rows
\* that are owned, and token rows only if they are not locked and to close them.
LEMMA StepInv ==
  ASSUME TokenInv, NEW p \in Procs, NEW l \in Labels, NEW f \in Frame,
         Goto(p, l, f), pc[p] \notin TxLabels, l \notin TxLabels, FrameOK(l, f),
         token' \in [Tokens -> TokenRow], session' \in [Sessions -> SessionRow],
         ledger' \in [Sessions -> Nat], lock' = lock, now' \in Nat, faults' \in Nat,
         queue' \in [Payload -> Nat], online' \subseteq Sessions,
         granted' = granted, reported' \in [Sessions -> Nat],
         backlog' \in [Procs -> SUBSET (Sessions \X SessionRow)],
         \A q \in Procs : \A d \in backlog'[q] :
           d \in backlog[q] \/ (d[2].status = "active" /\ Owned(d[2])),
         \A s \in Sessions : session'[s] = session[s] \/ Owned(session'[s]),
         \A t \in Tokens : \/ token'[t] = token[t]
                           \/ /\ lock[t] = None
                              /\ token'[t].status \in TerminalStatus
  PROVE  TokenInv'
<1> USE DEF TokenInv
<1>1. \A t \in Tokens : token[t].status # "absent" => token'[t].status # "absent"
  BY DEF TerminalStatus
<1>2. TypeOK'
  BY DEF TypeOK, Goto
<1>3. FramesOK'
  <2>1. FrameOK(l, f)'
    <3>1. f.todo \subseteq Tokens \X TokenRow
      BY DEF Frame
    <3>2. QED
      BY <1>1, <3>1 DEF FrameOK, Owned, TokenLabels, KnownLabels
  <2>2. QED
    BY <1>1, <2>1, FramesKept
<1>4. RowsOwned'
  BY <1>1 DEF RowsOwned, Owned
<1>5. LockHeld'
  BY LockKept
<1>6. GrantsBound' /\ OneDevicePerToken'
  BY GrantsKept
<1>7. BacklogOwned'
  <2> SUFFICES ASSUME NEW q \in Procs, NEW d \in backlog'[q]
               PROVE  d[2].status = "active" /\ Owned(d[2])'
    BY DEF BacklogOwned
  <2>1. d[2].status = "active" /\ Owned(d[2])
    BY DEF BacklogOwned
  <2>2. QED
    BY <1>1, <2>1 DEF Owned
<1>8. QED
  BY <1>2, <1>3, <1>4, <1>5, <1>6, <1>7

\* The special case of a step that writes nothing in the store
LEMMA LocalStepInv ==
  ASSUME TokenInv, NEW p \in Procs, NEW l \in Labels, NEW f \in Frame,
         Goto(p, l, f), pc[p] \notin TxLabels, l \notin TxLabels, FrameOK(l, f),
         UNCHANGED storeVars, faults' \in Nat, queue' \in [Payload -> Nat],
         online' \subseteq Sessions, UNCHANGED <<granted, backlog>>, reported' \in [Sessions -> Nat]
  PROVE  TokenInv'
BY StepInv DEF TokenInv, TypeOK, storeVars

\* The special case of a step that updates one session row
LEMMA SessionStepInv ==
  ASSUME TokenInv, NEW p \in Procs, NEW l \in Labels, NEW f \in Frame,
         Goto(p, l, f), pc[p] \notin TxLabels, l \notin TxLabels, FrameOK(l, f),
         NEW s, NEW row \in SessionRow, UpdateSession(s, row), Owned(row),
         UNCHANGED <<token, ledger, lock, now, faults, queue, granted, reported, backlog>>,
         online' \subseteq Sessions
  PROVE  TokenInv'
<1>1. session' \in [Sessions -> SessionRow]
  BY DEF TokenInv, TypeOK, UpdateSession
<1>2. \A r \in Sessions : session'[r] = session[r] \/ Owned(session'[r])
  BY DEF TokenInv, TypeOK, UpdateSession
<1>3. QED
  BY <1>1, <1>2, StepInv DEF TokenInv, TypeOK

\* Types of the queue operations
LEMMA EnqueueType ==
  ASSUME TypeOK, NEW s, NEW why, NEW n \in Nat, Enqueue(s, why, n)
  PROVE  queue' \in [Payload -> Nat]
<1> DEFINE d == <<s, why>>
           k == IF queue[d] + n <= MaxTasks THEN queue[d] + n ELSE MaxTasks
<1>1. queue' = [queue EXCEPT ![d] = k]
  BY DEF Enqueue
<1>2. d \in Payload => k \in Nat
  BY QueueAssumption DEF TypeOK
<1>3. QED
  <2> HIDE DEF d, k
  <2>1. QED
    BY <1>1, <1>2 DEF TypeOK

LEMMA QueueRetryType ==
  ASSUME TypeOK, NEW s, NEW why, NEW n \in Nat, QueueRetry(s, why, n)
  PROVE  queue' \in [Payload -> Nat] /\ faults' \in Nat
BY EnqueueType DEF QueueRetry, TypeOK, Fault

\* The recovery going on to its next session
LEMMA RecoverNextGoto ==
  ASSUME TokenInv, NEW p \in Procs, RecoverNext(p)
  PROVE  \E l \in Labels, f \in Frame :
           Goto(p, l, f) /\ l \notin TxLabels /\ FrameOK(l, f)
<1> DEFINE f == LoopFrame(loc[p].at)
<1>1. Goto(p, "recover", f)
  BY DEF RecoverNext, LoopFrame
<1>2. loc[p].at \in Nat
  BY DEF TokenInv, TypeOK, Frame
<1>3. f \in Frame /\ f.todo = {} /\ f.ses = AbsentSession
  BY <1>2, LoopFrameType
<1> HIDE DEF f
<1>4. FrameOK("recover", f)
  BY <1>3 DEF FrameOK, RedeemLabels, TokenLabels, SessionLabels, KnownLabels,
              WriteLabels, UsageLabels, Owned, AbsentSession
<1>5. QED
  BY <1>1, <1>3, <1>4 DEF Labels, TxLabels

\* A handler that returns, or that goes on with the sweep or the recovery
LEMMA ReturnedGoto ==
  ASSUME TokenInv, NEW p \in Procs, Returned(p)
  PROVE  \E l \in Labels, f \in Frame :
           Goto(p, l, f) /\ l \notin TxLabels /\ FrameOK(l, f)
<1>0. CASE loc[p].op = "recover"
  BY <1>0, RecoverNextGoto DEF Returned
<1>1. CASE loc[p].op # "recover" /\ loc[p].todo = {}
  BY <1>1, IdleFrame DEF Returned, Finish
<1>2. CASE loc[p].op # "recover" /\ loc[p].todo # {}
  <2> DEFINE f == [NoFrame EXCEPT !.op = loc[p].op, !.todo = loc[p].todo]
  <2>1. Goto(p, "sweep", f)
    BY <1>2 DEF Returned
  <2>2. loc[p] \in Frame /\ FrameOK(pc[p], loc[p])
    BY DEF TokenInv, TypeOK, FramesOK
  <2>3. f \in Frame /\ f.todo = loc[p].todo /\ f.ses = AbsentSession
    BY <2>2, IdleFrame DEF Frame, NoFrame
  <2>4. FrameOK("sweep", f)
    BY <2>2, <2>3 DEF FrameOK, RedeemLabels, TokenLabels, SessionLabels, KnownLabels,
                      WriteLabels, UsageLabels, Owned, AbsentSession
  <2>5. QED
    BY <2>1, <2>3, <2>4 DEF Labels, TxLabels
<1>3. QED
  BY <1>0, <1>1, <1>2

\* A handler whose DisconnectSession failed
LEMMA GaveUpGoto ==
  ASSUME TokenInv, NEW p \in Procs, GaveUp(p)
  PROVE  \E l \in Labels, f \in Frame :
           Goto(p, l, f) /\ l \notin TxLabels /\ FrameOK(l, f)
BY RecoverNextGoto, IdleFrame DEF GaveUp, Finish

\* The first call of DisconnectSession, made by a handler that knows the session
LEMMA CallDisconnectGoto ==
  ASSUME TokenInv, NEW p \in Procs, NEW s \in Sessions, NEW why \in EndReason,
         CallDisconnect(p, s, why)
  PROVE  \E l \in Labels, f \in Frame :
           Goto(p, l, f) /\ l \notin TxLabels /\ FrameOK(l, f)
<1> DEFINE f == CallFrame(loc[p], s, why)
<1>1. Goto(p, "dc_read", f)
  BY DEF CallDisconnect, CallFrame
<1>2. loc[p] \in Frame /\ FrameOK(pc[p], loc[p])
  BY DEF TokenInv, TypeOK, FramesOK
<1>3. f \in Frame /\ f.sid = s /\ f.todo = loc[p].todo /\ f.ses = AbsentSession
  BY <1>2, CallFrameType
<1> HIDE DEF f
<1>4. FrameOK("dc_read", f)
  BY <1>2, <1>3 DEF FrameOK, RedeemLabels, TokenLabels, SessionLabels, KnownLabels,
                    WriteLabels, UsageLabels, Owned, AbsentSession
<1>5. QED
  BY <1>1, <1>3, <1>4 DEF Labels, TxLabels

\* Every session found by a lookup is a stored row that exists
LEMMA FoundRow ==
  ASSUME TokenInv, NEW s \in Sessions, session[s].status # "absent"
  PROVE  /\ session[s] \in SessionRow
         /\ session[s].tok \in Tokens
         /\ token[session[s].tok].status # "absent"
         /\ Owned(session[s])
BY DEF TokenInv, TypeOK, RowsOwned, Owned

LEMMA ActiveFound ==
  ASSUME TokenInv, NEW t \in Tokens, NEW s \in GetActiveSessionByToken(t)
  PROVE  /\ s \in Sessions /\ session[s].status = "active"
         /\ session[s] \in SessionRow /\ Owned(session[s])
BY FoundRow DEF GetActiveSessionByToken, Picked, Latest, ActiveSessions

LEMMA RadiusFound ==
  ASSUME TokenInv, NEW r, NEW s \in GetSessionByRadius(r)
  PROVE  /\ s \in Sessions /\ session[s].status # "absent"
         /\ session[s] \in SessionRow /\ Owned(session[s])
BY FoundRow DEF GetSessionByRadius, Picked, Latest

\* What is known of a handler's frame
LEMMA Known ==
  ASSUME TokenInv, NEW p \in Procs
  PROVE  /\ loc[p] \in Frame /\ pc[p] \in Labels /\ FrameOK(pc[p], loc[p])
         /\ loc[p].ses \in SessionRow /\ Owned(loc[p].ses)
         /\ pc[p] \in SessionLabels => /\ loc[p].sid \in Sessions
                                       /\ session[loc[p].sid] \in SessionRow
                                       /\ Owned(session[loc[p].sid])
BY DEF TokenInv, TypeOK, FramesOK, FrameOK, Frame, RowsOwned

\* A handler about to make a call on a session row it knows
LEMMA SessionFrame ==
  ASSUME NEW f, f.sid \in Sessions, Owned(f.ses), f.todo = {},
         NEW l \in SessionLabels, l \in TokenLabels => /\ f.tid \in Tokens
                                                     /\ token[f.tid].status # "absent",
         l \in WriteLabels => f.tok.status \in TerminalStatus,
         l \in UsageLabels => f.ses.status # "absent"
  PROVE  l \in Labels /\ l \notin TxLabels /\ FrameOK(l, f)
BY DEF SessionLabels, TokenLabels, KnownLabels, RedeemLabels, WriteLabels, UsageLabels,
       TxLabels, Labels, FrameOK

\* A handler outside the transaction that returns an error
LEMMA FailedInv ==
  ASSUME TokenInv, NEW p \in Procs, Failed(p), pc[p] \notin TxLabels,
         UNCHANGED storeVars, faults' \in Nat, online' \subseteq Sessions,
         UNCHANGED <<granted, reported, backlog>>
  PROVE  TokenInv'
<1>1. queue' \in [Payload -> Nat]
  BY EnqueueType DEF Failed, TokenInv, TypeOK
<1>2. QED
  BY <1>1, IdleFrame, LocalStepInv DEF Failed, Finish, TokenInv, TypeOK

\* A handler outside the transaction that returns, or goes on with the sweep
LEMMA ReturnedInv ==
  ASSUME TokenInv, NEW p \in Procs, Returned(p), pc[p] \notin TxLabels,
         UNCHANGED <<token, ledger, lock, now, queue, online, granted, reported,
                     backlog>>,
         faults' \in Nat,
         \/ UNCHANGED session
         \/ \E s \in Sessions, row \in SessionRow : UpdateSession(s, row) /\ Owned(row)
  PROVE  TokenInv'
<1>1. PICK l \in Labels, f \in Frame :
        Goto(p, l, f) /\ l \notin TxLabels /\ FrameOK(l, f)
  BY ReturnedGoto
<1>2. /\ session' \in [Sessions -> SessionRow]
      /\ \A s \in Sessions : session'[s] = session[s] \/ Owned(session'[s])
  BY DEF TokenInv, TypeOK, UpdateSession
<1>3. QED
  BY <1>1, <1>2, StepInv DEF TokenInv, TypeOK
==============================================================================
