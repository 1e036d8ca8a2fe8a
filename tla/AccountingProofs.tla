--------------------------- MODULE AccountingProofs ---------------------------
(***************************************************************************)
(* Every step of the gateway integration, of the recovery and of           *)
(* accounting keeps the inductive invariant of the token service.          *)
(***************************************************************************)
EXTENDS WifiLemmas

------------------------------------------------------------------------------
(* Gateway integration *)

LEMMA BeginDisconnectInv ==
  ASSUME TokenInv, NEW p \in Procs, BeginDisconnect(p), UNCHANGED <<granted, reported, backlog>>
  PROVE  TokenInv'
<1>1. PICK s \in Sessions, force \in BOOLEAN :
        Goto(p, "dc_read", [NoFrame EXCEPT !.op = "disconnect", !.sid = s,
                                           !.reason = "disconnect", !.flag = force])
  BY DEF BeginDisconnect
<1> DEFINE f == [NoFrame EXCEPT !.op = "disconnect", !.sid = s,
                                !.reason = "disconnect", !.flag = force]
<1>2. f \in Frame /\ f.sid = s /\ f.todo = {} /\ f.ses = AbsentSession
  <2>1. f \in Frame
    BY IdleFrame, Names DEF Frame
  <2>2. QED
    BY <2>1 DEF NoFrame
<1>3. FrameOK("dc_read", f)
  BY <1>2 DEF FrameOK, RedeemLabels, TokenLabels, SessionLabels, KnownLabels,
              WriteLabels, UsageLabels, Owned, AbsentSession
<1> HIDE DEF f
<1>4. QED
  BY <1>1, <1>2, <1>3, LocalStepInv
  DEF BeginDisconnect, Arrives, TxLabels, Labels, TokenInv, TypeOK, f, gatewayVars

LEMMA BeginRetryInv ==
  ASSUME TokenInv, NEW p \in Procs, BeginRetry(p), UNCHANGED <<granted, reported, backlog>>
  PROVE  TokenInv'
<1>1. PICK d \in Payload :
        /\ queue[d] > 0
        /\ queue' = [queue EXCEPT ![d] = @ - 1]
        /\ Goto(p, "dc_read", [NoFrame EXCEPT !.op = "retry", !.sid = d[1],
                                              !.reason = d[2], !.flag = TRUE])
  BY DEF BeginRetry
<1> DEFINE f == [NoFrame EXCEPT !.op = "retry", !.sid = d[1],
                                !.reason = d[2], !.flag = TRUE]
<1>2. f \in Frame /\ f.sid \in Sessions /\ f.todo = {} /\ f.ses = AbsentSession
  BY IdleFrame DEF Frame, NoFrame, AllOps, Payload
<1>3. FrameOK("dc_read", f)
  BY <1>2 DEF FrameOK, RedeemLabels, TokenLabels, SessionLabels, KnownLabels,
              WriteLabels, UsageLabels, Owned, AbsentSession
<1>4. queue' \in [Payload -> Nat]
  <2>1. queue[d] - 1 \in Nat
    BY <1>1 DEF TokenInv, TypeOK
  <2>2. QED
    BY <1>1, <2>1 DEF TokenInv, TypeOK
<1> HIDE DEF f
<1>5. QED
  BY <1>1, <1>2, <1>3, <1>4, LocalStepInv
  DEF BeginRetry, Dequeues, TxLabels, Labels, TokenInv, TypeOK, f

LEMMA DisconnectReadInv ==
  ASSUME TokenInv, NEW p \in Procs, DisconnectRead(p), UNCHANGED <<granted, reported, backlog>>
  PROVE  TokenInv'
<1> DEFINE row == session[loc[p].sid]
           new == Marked(row, loc[p].reason)
           f   == [loc[p] EXCEPT !.ses = new]
<1>1. /\ pc[p] = "dc_read" /\ pc[p] \notin TxLabels /\ pc[p] \in SessionLabels
      /\ UNCHANGED storeVars /\ faults' \in Nat /\ online' \subseteq Sessions
  BY DEF DisconnectRead, TxLabels, SessionLabels, TokenInv, TypeOK
<1>2. CASE Failed(p)
  BY <1>1, <1>2, FailedInv
<1>3. CASE Returned(p) /\ UNCHANGED queue
  BY <1>1, <1>3, ReturnedInv DEF DisconnectRead, storeVars
<1>4. CASE row.status # "absent" /\ Goto(p, "dc_mark", f) /\ UNCHANGED queue
  <2>1. new \in SessionRow /\ Owned(new)
    BY <1>1, <1>4, Known, SessionRows, RowOwner DEF Frame
  <2> HIDE DEF new
  <2>2. f \in Frame /\ f.sid = loc[p].sid /\ f.todo = loc[p].todo /\ f.ses = new
    BY <2>1, Known DEF Frame
  <2>3. FrameOK("dc_mark", f)
    BY <1>1, <2>1, <2>2, Known
    DEF FrameOK, RedeemLabels, TokenLabels, SessionLabels, KnownLabels, WriteLabels,
        UsageLabels
  <2> HIDE DEF f
  <2>4. QED
    BY <1>1, <1>4, <2>2, <2>3, LocalStepInv DEF TxLabels, Labels, TokenInv, TypeOK
<1>5. QED
  BY <1>2, <1>3, <1>4 DEF DisconnectRead

LEMMA DisconnectMarkInv ==
  ASSUME TokenInv, NEW p \in Procs, DisconnectMark(p), UNCHANGED <<granted, reported, backlog>>
  PROVE  TokenInv'
<1>1. FrameOK("dc_call", loc[p])
  BY Known DEF DisconnectMark, FrameOK, RedeemLabels, TokenLabels, SessionLabels,
               KnownLabels, WriteLabels, UsageLabels
<1>2. QED
  BY <1>1, Known, SessionStepInv
  DEF DisconnectMark, TxLabels, Labels, TokenInv, TypeOK, gatewayVars

LEMMA GatewayAckInv ==
  ASSUME TokenInv, NEW p \in Procs, GatewayAck(p), UNCHANGED <<granted, reported, backlog>>
  PROVE  TokenInv'
<1> DEFINE new == Pending(loc[p].ses, FALSE)
           f   == [loc[p] EXCEPT !.ses = new]
<1>1. new \in SessionRow /\ Owned(new)
  BY Known, SessionRows, AnyRowOwner
<1> HIDE DEF new
<1>2. f \in Frame /\ f.sid = loc[p].sid /\ f.todo = loc[p].todo /\ f.ses = new
  BY <1>1, Known DEF Frame
<1>3. FrameOK("dc_clear", f)
  BY <1>1, <1>2, Known
  DEF GatewayAck, FrameOK, RedeemLabels, TokenLabels, SessionLabels, KnownLabels,
      WriteLabels, UsageLabels
<1>4. Goto(p, "dc_clear", f) /\ online' \subseteq Sessions
  BY DEF GatewayAck, Cut, new, TokenInv, TypeOK
<1> HIDE DEF f
<1>5. QED
  BY <1>2, <1>3, <1>4, LocalStepInv DEF GatewayAck, TxLabels, Labels, TokenInv, TypeOK

LEMMA GatewayFailInv ==
  ASSUME TokenInv, NEW p \in Procs, GatewayFail(p), UNCHANGED <<granted, reported, backlog>>
  PROVE  TokenInv'
<1>1. queue' \in [Payload -> Nat] /\ faults' \in Nat
  BY QueueRetryType DEF GatewayFail, TokenInv
<1>2. online' \subseteq Sessions
  BY DEF GatewayFail, Cut, TokenInv, TypeOK
<1>3. PICK l \in Labels, f \in Frame :
        Goto(p, l, f) /\ l \notin TxLabels /\ FrameOK(l, f)
  BY GaveUpGoto DEF GatewayFail
<1>4. QED
  BY <1>1, <1>2, <1>3, LocalStepInv DEF GatewayFail, TxLabels, TokenInv, TypeOK

LEMMA DisconnectClearInv ==
  ASSUME TokenInv, NEW p \in Procs, DisconnectClear(p), UNCHANGED <<granted, reported, backlog>>
  PROVE  TokenInv'
<1>1. pc[p] \notin TxLabels /\ loc[p].sid \in Sessions
  BY Known DEF DisconnectClear, TxLabels, SessionLabels
<1>2. QED
  BY <1>1, Known, ReturnedInv DEF DisconnectClear, TokenInv, TypeOK, gatewayVars

\* A gateway step keeps the invariant
LEMMA GatewayInv ==
  ASSUME TokenInv, NEW p \in Procs,
         GatewayBegin(p) \/ GatewayStoreStep(p) \/ ControllerStep(p),
         UNCHANGED <<granted, reported, backlog>>
  PROVE  TokenInv'
BY BeginDisconnectInv, BeginRetryInv, DisconnectReadInv, DisconnectMarkInv,
   GatewayAckInv, GatewayFailInv, DisconnectClearInv
DEF GatewayBegin, GatewayStoreStep, ControllerStep

------------------------------------------------------------------------------
(* Recovery *)

\* A recovery step that only moves to another call, and at most shortens its list
LEMMA RecoveryLocalInv ==
  ASSUME TokenInv, NEW p \in Procs, NEW l \in Labels, NEW f \in Frame,
         Goto(p, l, f), pc[p] \notin TxLabels, l \notin TxLabels, FrameOK(l, f),
         UNCHANGED <<storeVars, faults, gatewayVars, granted, reported>>,
         backlog' \in [Procs -> SUBSET (Sessions \X SessionRow)],
         \A q \in Procs : \A d \in backlog'[q] :
           d \in backlog[q] \/ (d[2].status = "active" /\ Owned(d[2]))
  PROVE  TokenInv'
BY StepInv DEF TokenInv, TypeOK, storeVars, gatewayVars

LEMMA RecoverListInv ==
  ASSUME TokenInv, NEW p \in Procs, RecoverList(p), UNCHANGED <<granted, reported>>
  PROVE  TokenInv'
<1> DEFINE f == [NoFrame EXCEPT !.op = "recover", !.at = now]
           active == {s \in Sessions : session[s].status = "active"}
           list == {<<s, session[s]>> : s \in active}
<1>1. f \in Frame /\ f.todo = {} /\ f.ses = AbsentSession
  BY IdleFrame DEF Frame, NoFrame, AllOps, TokenInv, TypeOK
<1>2. FrameOK("recover", f)
  BY <1>1 DEF FrameOK, RedeemLabels, TokenLabels, SessionLabels, KnownLabels,
              WriteLabels, UsageLabels, Owned, AbsentSession
<1>3. /\ list \subseteq Sessions \X SessionRow
      /\ \A d \in list : d[2].status = "active" /\ Owned(d[2])
  BY FoundRow DEF TokenInv, TypeOK
<1>4. Goto(p, "recover", f) /\ backlog' = [backlog EXCEPT ![p] = list]
  BY DEF RecoverList
<1> HIDE DEF f, list
<1>5. /\ backlog' \in [Procs -> SUBSET (Sessions \X SessionRow)]
      /\ \A q \in Procs : \A d \in backlog'[q] :
           d \in backlog[q] \/ (d[2].status = "active" /\ Owned(d[2]))
  BY <1>3, <1>4 DEF TokenInv, TypeOK
<1>6. QED
  BY <1>1, <1>2, <1>4, <1>5, RecoveryLocalInv
  DEF RecoverList, Arrives, TxLabels, Labels

LEMMA RecoverReadInv ==
  ASSUME TokenInv, NEW p \in Procs, RecoverRead(p), UNCHANGED <<granted, reported>>
  PROVE  TokenInv'
<1> DEFINE frame(d) == [loc[p] EXCEPT !.sid = d[1],
                                      !.ses = EndedSession(d[2], "recovered_closed", TRUE)]
<1>1. PICK d \in backlog[p] :
        /\ backlog' = [backlog EXCEPT ![p] = @ \ {d}]
        /\ Goto(p, "recover_end", frame(d)) \/ RecoverNext(p)
  BY DEF RecoverRead
<1>2. /\ d[1] \in Sessions /\ d[2] \in SessionRow
      /\ d[2].status = "active" /\ Owned(d[2])
  BY DEF TokenInv, TypeOK, BacklogOwned
<1>3. \E l \in Labels, f \in Frame :
        Goto(p, l, f) /\ l \notin TxLabels /\ FrameOK(l, f)
  <2>1. CASE RecoverNext(p)
    BY <2>1, RecoverNextGoto
  <2>2. CASE Goto(p, "recover_end", frame(d))
    <3> DEFINE row == EndedSession(d[2], "recovered_closed", TRUE)
    <3>1. row \in SessionRow /\ Owned(row)
      BY <1>2, SessionRows, RowOwner DEF EndReason
    <3> HIDE DEF row
    <3>2. /\ frame(d) \in Frame /\ frame(d).sid = d[1] /\ frame(d).todo = loc[p].todo
          /\ frame(d).ses = row
      <4>1. ASSUME NEW s \in Sessions
            PROVE  [loc[p] EXCEPT !.sid = s, !.ses = row] \in Frame
        BY <3>1, Known, CarryingFrame
      <4>2. frame(d) = [loc[p] EXCEPT !.sid = d[1], !.ses = row]
        BY DEF row
      <4>3. [loc[p] EXCEPT !.sid = d[1], !.ses = row] \in Frame
        BY <1>2, <4>1
      <4> HIDE DEF frame
      <4>4. QED
        BY <4>2, <4>3, Known DEF Frame
    <3> HIDE DEF frame
    <3>3. FrameOK("recover_end", frame(d))
      BY <1>2, <3>1, <3>2, Known
      DEF FrameOK, RedeemLabels, TokenLabels, SessionLabels, KnownLabels, WriteLabels,
          UsageLabels
    <3>4. QED
      BY <2>2, <3>2, <3>3 DEF Labels, TxLabels
  <2>3. QED
    BY <1>1, <2>1, <2>2
<1>4. /\ backlog' \in [Procs -> SUBSET (Sessions \X SessionRow)]
      /\ \A q \in Procs : backlog'[q] \subseteq backlog[q]
  BY <1>1 DEF TokenInv, TypeOK
<1>5. QED
  BY <1>3, <1>4, RecoveryLocalInv DEF RecoverRead, TxLabels

LEMMA RecoverEndInv ==
  ASSUME TokenInv, NEW p \in Procs, RecoverEnd(p), UNCHANGED <<granted, reported>>
  PROVE  TokenInv'
<1>1. pc[p] \notin TxLabels /\ loc[p].sid \in Sessions
  BY Known DEF RecoverEnd, TxLabels, SessionLabels
<1>2. PICK l \in Labels, f \in Frame :
        Goto(p, l, f) /\ l \notin TxLabels /\ FrameOK(l, f)
  BY <1>1, CallDisconnectGoto DEF RecoverEnd, EndReason
<1>3. QED
  BY <1>1, <1>2, Known, SessionStepInv DEF RecoverEnd, gatewayVars, TokenInv, TypeOK

LEMMA RecoverDoneInv ==
  ASSUME TokenInv, NEW p \in Procs, RecoverDone(p), UNCHANGED <<granted, reported>>
  PROVE  TokenInv'
BY IdleFrame, RecoveryLocalInv DEF RecoverDone, Finish, TxLabels, TokenInv, TypeOK

\* A recovery step keeps the invariant
LEMMA RecoveryInv ==
  ASSUME TokenInv, NEW p \in Procs, RecoverList(p) \/ RecoveryStep(p),
         UNCHANGED <<granted, reported>>
  PROVE  TokenInv'
BY RecoverListInv, RecoverReadInv, RecoverEndInv, RecoverDoneInv DEF RecoveryStep

------------------------------------------------------------------------------
(* Accounting *)

LEMMA StartFindInv ==
  ASSUME TokenInv, NEW p \in Procs, StartFind(p), UNCHANGED <<granted, backlog>>
  PROVE  TokenInv'
<1>1. PICK t \in Tokens, m \in Macs, r \in RadiusIds \cup {None}, flag \in BOOLEAN :
        LET S == GetActiveSessionByToken(t)
            f == [NoFrame EXCEPT !.op = "start", !.tid = t, !.mac = m, !.rid = r,
                                 !.at = now, !.flag = flag]
        IN /\ token[t].status # "absent"
           /\ \/ S = {} /\ Goto(p, "start_create", f) /\ UNCHANGED faults
              \/ S # {} /\ StoreFails /\ Goto(p, "start_create", f)
              \/ \E s \in S :
                   /\ Goto(p, "start_save",
                           [f EXCEPT !.sid = s,
                                     !.ses = Pending(Attached(session[s], r), flag)])
                   /\ UNCHANGED faults
  BY DEF StartFind
<1> DEFINE S == GetActiveSessionByToken(t)
           f == [NoFrame EXCEPT !.op = "start", !.tid = t, !.mac = m, !.rid = r,
                                !.at = now, !.flag = flag]
<1>2. /\ f \in Frame /\ f.tid = t /\ f.mac = m /\ f.todo = {} /\ f.ses = AbsentSession
      /\ pc[p] \notin TxLabels /\ UNCHANGED storeVars /\ UNCHANGED queue
      /\ online' \subseteq Sessions /\ reported' \in [Sessions -> Nat]
  <2>1. now \in Nat
    BY DEF TokenInv, TypeOK
  <2>2. f \in Frame
    BY <2>1, IdleFrame, Names DEF Frame
  <2>3. f.tid = t /\ f.mac = m /\ f.todo = {} /\ f.ses = AbsentSession
    BY <2>2 DEF NoFrame
  <2>4. QED
    BY <2>2, <2>3 DEF StartFind, Arrives, TxLabels, TokenInv, TypeOK, gatewayVars
<1>3. token[t].status # "absent" /\ faults' \in Nat
  <2>1. Fault \/ UNCHANGED faults
    BY <1>1 DEF StoreFails
  <2>2. faults' \in Nat
    BY <2>1 DEF Fault, TokenInv, TypeOK
  <2>3. token[t].status # "absent"
    BY <1>1
  <2>4. QED
    BY <2>2, <2>3
<1> DEFINE to(s) == Goto(p, "start_save",
                         [f EXCEPT !.sid = s,
                                   !.ses = Pending(Attached(session[s], r), flag)])
<1>6. Goto(p, "start_create", f) \/ \E s \in S : to(s)
  BY <1>1
<1> HIDE DEF f, S, to
<1>4. CASE Goto(p, "start_create", f)
  <2>1. FrameOK("start_create", f)
    BY <1>2, <1>3 DEF FrameOK, RedeemLabels, TokenLabels, SessionLabels, KnownLabels,
                      WriteLabels, UsageLabels, Owned, AbsentSession
  <2>2. QED
    BY <1>2, <1>3, <1>4, <2>1, LocalStepInv DEF TxLabels, Labels, TokenInv, TypeOK
<1>5. ASSUME NEW s \in S, to(s)
      PROVE  TokenInv'
  <2> DEFINE new == Pending(Attached(session[s], r), flag)
             g   == [f EXCEPT !.sid = s, !.ses = new]
  <2>1. s \in Sessions /\ new \in SessionRow /\ Owned(new)
    <3>1. session[s] \in SessionRow /\ Owned(session[s]) /\ s \in Sessions
      BY ActiveFound DEF S
    <3>2. Attached(session[s], r) \in SessionRow /\ Owned(Attached(session[s], r))
      BY <3>1, SessionRows, AnyRowOwner
    <3>3. QED
      BY <3>1, <3>2, SessionRows, AnyRowOwner
  <2> HIDE DEF new
  <2>2. g \in Frame /\ g.sid = s /\ g.tid = t /\ g.todo = {} /\ g.ses = new
    BY <1>2, <2>1 DEF Frame
  <2>3. Goto(p, "start_save", g)
    BY <1>5 DEF to, new
  <2> HIDE DEF g
  <2>4. FrameOK("start_save", g)
    BY <2>1, <2>2 DEF FrameOK, RedeemLabels, TokenLabels, SessionLabels, KnownLabels,
                      WriteLabels, UsageLabels
  <2>5. QED
    BY <1>2, <1>3, <2>2, <2>3, <2>4, LocalStepInv DEF TxLabels, Labels, TokenInv, TypeOK
<1>7. QED
  BY <1>6, <1>4, <1>5

LEMMA StartSaveInv ==
  ASSUME TokenInv, NEW p \in Procs, StartSave(p), UNCHANGED <<granted, backlog>>
  PROVE  TokenInv'
<1>1. loc[p].sid \in Sessions
  BY Known DEF StartSave, SessionLabels
<1>2. QED
  BY <1>1, Known, IdleFrame, SessionStepInv
  DEF StartSave, Finish, TxLabels, TokenInv, TypeOK

LEMMA StartCreateInv ==
  ASSUME TokenInv, NEW p \in Procs, StartCreate(p), UNCHANGED <<granted, backlog>>
  PROVE  TokenInv'
<1> DEFINE new == NewSession(loc[p].tid, loc[p].mac, loc[p].rid, loc[p].at, loc[p].flag)
<1>1. PICK s \in Sessions : CreateSession(None, s, new) /\ online' = online \cup {s}
  BY DEF StartCreate
<1>2. new \in SessionRow /\ Owned(new)
  BY Known, NewRow DEF StartCreate, FrameOK, TokenLabels, KnownLabels, RedeemLabels, Frame
<1> HIDE DEF new
<1>3. QED
  BY <1>1, <1>2, IdleFrame, SessionStepInv
  DEF StartCreate, CreateSession, UpdateSession, Finish, TxLabels, TokenInv, TypeOK

LEMMA BeginInterimInv ==
  ASSUME TokenInv, NEW p \in Procs, BeginInterim(p), UNCHANGED <<granted, backlog>>
  PROVE  TokenInv'
<1>1. PICK s \in Sessions, n \in Adds :
        Goto(p, "usage_read", [NoFrame EXCEPT !.op = "interim", !.sid = s, !.add = n])
  BY DEF BeginInterim
<1> DEFINE f == [NoFrame EXCEPT !.op = "interim", !.sid = s, !.add = n]
<1>2. f \in Frame /\ f.sid = s /\ f.todo = {} /\ f.ses = AbsentSession
  <2>1. n \in Nat
    BY ByteAssumption
  <2>2. QED
    BY <2>1, IdleFrame DEF Frame, NoFrame, AllOps
<1> HIDE DEF f
<1>3. FrameOK("usage_read", f)
  BY <1>2, SessionFrame
  DEF SessionLabels, TokenLabels, RedeemLabels, WriteLabels, UsageLabels, Owned, AbsentSession
<1>4. QED
  BY <1>1, <1>2, <1>3, LocalStepInv
  DEF BeginInterim, Arrives, TxLabels, Labels, TokenInv, TypeOK, f, gatewayVars

LEMMA UsageReadInv ==
  ASSUME TokenInv, NEW p \in Procs, UsageRead(p), UNCHANGED <<granted, backlog>>
  PROVE  TokenInv'
<1> DEFINE row == session[loc[p].sid]
           new == Charged(row, loc[p].add)
           f   == [loc[p] EXCEPT !.tid = row.tok, !.ses = new]
<1>1. /\ pc[p] = "usage_read" /\ pc[p] \notin TxLabels /\ pc[p] \in SessionLabels
      /\ UNCHANGED <<storeVars, faults, gatewayVars, reported>>
  BY DEF UsageRead, TxLabels, SessionLabels
<1>2. CASE Finish(p)
  BY <1>1, <1>2, IdleFrame, LocalStepInv DEF Finish, TokenInv, TypeOK, gatewayVars
<1>3. CASE row.status = "active" /\ Goto(p, "usage_write", f)
  <2>1. row.tok \in Tokens /\ token[row.tok].status # "absent"
    BY <1>1, <1>3, Known, FoundRow
  <2>2. new \in SessionRow /\ Owned(new) /\ new.status # "absent"
    <3>1. new.status = row.status
      BY <1>1, Known DEF Charged, SessionRow
    <3>2. QED
      BY <1>1, <1>3, <3>1, Known, SessionRows, RowOwner DEF Frame
  <2> HIDE DEF new
  <2>3. /\ f \in Frame /\ f.sid = loc[p].sid /\ f.tid = row.tok
        /\ f.todo = loc[p].todo /\ f.ses = new
    BY <2>1, <2>2, Known DEF Frame
  <2> HIDE DEF f
  <2>4. FrameOK("usage_write", f)
    BY <1>1, <2>1, <2>2, <2>3, Known
    DEF FrameOK, SessionLabels, TokenLabels, KnownLabels, RedeemLabels, WriteLabels,
        UsageLabels
  <2>5. QED
    BY <1>1, <1>3, <2>3, <2>4, LocalStepInv
    DEF TxLabels, Labels, TokenInv, TypeOK, gatewayVars
<1>4. QED
  BY <1>2, <1>3 DEF UsageRead

LEMMA UsageWriteInv ==
  ASSUME TokenInv, NEW p \in Procs, UsageWrite(p), UNCHANGED <<granted, backlog>>
  PROVE  TokenInv'
<1>1. FrameOK("usage_record", loc[p])
  BY Known DEF UsageWrite, FrameOK, RedeemLabels, TokenLabels, SessionLabels,
               KnownLabels, WriteLabels, UsageLabels
<1>2. QED
  BY <1>1, Known, SessionStepInv
  DEF UsageWrite, TxLabels, Labels, TokenInv, TypeOK, gatewayVars

LEMMA UsageRecordInv ==
  ASSUME TokenInv, NEW p \in Procs, UsageRecord(p), UNCHANGED <<granted, backlog>>
  PROVE  TokenInv'
<1>1. FrameOK("quota_check", loc[p])
  BY Known DEF UsageRecord, FrameOK, RedeemLabels, TokenLabels, SessionLabels,
               KnownLabels, WriteLabels, UsageLabels
<1>2. ledger' \in [Sessions -> Nat]
  <2>1. loc[p].sid \in Sessions /\ loc[p].add \in Nat
    BY Known DEF UsageRecord, SessionLabels, Frame
  <2>2. ledger[loc[p].sid] + loc[p].add \in Nat
    BY <2>1 DEF TokenInv, TypeOK
  <2>3. QED
    BY <2>2 DEF UsageRecord, CreateUsageRecord, TokenInv, TypeOK
<1>3. QED
  BY <1>1, <1>2, Known, StepInv
  DEF UsageRecord, TxLabels, Labels, TokenInv, TypeOK, gatewayVars

LEMMA QuotaCheckInv ==
  ASSUME TokenInv, NEW p \in Procs, QuotaCheck(p), UNCHANGED <<granted, backlog>>
  PROVE  TokenInv'
<1> DEFINE new == EndedSession(loc[p].ses, "data_limit_reached", TRUE)
           tk  == Closed(token[loc[p].tid], "consumed")
           f   == [loc[p] EXCEPT !.ses = new, !.tok = tk]
           g   == [NoFrame EXCEPT !.op = "acct_stop", !.sid = loc[p].sid]
<1>1. /\ pc[p] = "quota_check" /\ pc[p] \notin TxLabels /\ pc[p] \in SessionLabels
      /\ UNCHANGED <<storeVars, faults, gatewayVars, reported>>
  BY DEF QuotaCheck, TxLabels, SessionLabels
<1>2. CASE Finish(p)
  BY <1>1, <1>2, IdleFrame, LocalStepInv DEF Finish, TokenInv, TypeOK, gatewayVars
<1>3. CASE Goto(p, "quota_end", f)
  <2>1. new \in SessionRow /\ Owned(new)
    <3>1. loc[p].ses.status # "absent"
      BY <1>1, Known DEF FrameOK, UsageLabels
    <3>2. "data_limit_reached" \in EndReason
      BY DEF EndReason
    <3>3. QED
      BY <3>1, <3>2, Known, SessionRows, RowOwner
  <2>2. tk \in TokenRow /\ tk.status = "consumed"
    <3>1. token[loc[p].tid] \in TokenRow
      BY <1>1, Known DEF FrameOK, TokenLabels, TokenInv, TypeOK
    <3>2. QED
      BY <3>1, TokenRows DEF TokenStatus, TerminalStatus
  <2> HIDE DEF new, tk
  <2>3. /\ f \in Frame /\ f.sid = loc[p].sid /\ f.tid = loc[p].tid
        /\ f.todo = loc[p].todo /\ f.ses = new /\ f.tok = tk
    BY <2>1, <2>2, Known DEF Frame
  <2> HIDE DEF f
  <2>4. FrameOK("quota_end", f)
    BY <1>1, <2>1, <2>2, <2>3, Known
    DEF FrameOK, SessionLabels, TokenLabels, KnownLabels, RedeemLabels, WriteLabels,
        UsageLabels, TerminalStatus
  <2>5. QED
    BY <1>1, <1>3, <2>3, <2>4, LocalStepInv
    DEF TxLabels, Labels, TokenInv, TypeOK, gatewayVars
<1>4. CASE Goto(p, "stop_read", g)
  <2>1. g \in Frame /\ g.sid \in Sessions /\ g.todo = {} /\ g.ses = AbsentSession
    <3>1. loc[p].sid \in Sessions
      BY <1>1, Known
    <3>2. g \in Frame
      BY <3>1, IdleFrame, Names DEF Frame
    <3>3. QED
      BY <3>1, <3>2 DEF NoFrame
  <2> HIDE DEF g
  <2>2. FrameOK("stop_read", g)
    BY <2>1, SessionFrame
    DEF SessionLabels, TokenLabels, RedeemLabels, WriteLabels, UsageLabels, Owned,
        AbsentSession
  <2>3. QED
    BY <1>1, <1>4, <2>1, <2>2, LocalStepInv
    DEF TxLabels, Labels, TokenInv, TypeOK, gatewayVars
<1>5. QED
  BY <1>2, <1>3, <1>4 DEF QuotaCheck

LEMMA QuotaEndInv ==
  ASSUME TokenInv, NEW p \in Procs, QuotaEnd(p), UNCHANGED <<granted, backlog>>
  PROVE  TokenInv'
<1>1. FrameOK("quota_consume", loc[p])
  BY Known DEF QuotaEnd, FrameOK, RedeemLabels, TokenLabels, SessionLabels,
               KnownLabels, WriteLabels, UsageLabels
<1>2. QED
  BY <1>1, Known, SessionStepInv
  DEF QuotaEnd, TxLabels, Labels, TokenInv, TypeOK, gatewayVars

LEMMA QuotaConsumeInv ==
  ASSUME TokenInv, NEW p \in Procs, QuotaConsume(p), UNCHANGED <<granted, backlog>>
  PROVE  TokenInv'
<1>1. /\ pc[p] \notin TxLabels /\ loc[p].sid \in Sessions
      /\ loc[p].tok \in TokenRow /\ loc[p].tok.status \in TerminalStatus
  BY Known DEF QuotaConsume, TxLabels, SessionLabels, FrameOK, WriteLabels, Frame
<1>2. PICK l \in Labels, f \in Frame :
        Goto(p, l, f) /\ l \notin TxLabels /\ FrameOK(l, f)
  BY <1>1, CallDisconnectGoto DEF QuotaConsume, EndReason
<1>3. QED
  BY <1>1, <1>2, StepInv
  DEF QuotaConsume, UpdateToken, TokenInv, TypeOK, gatewayVars

LEMMA BeginStopInv ==
  ASSUME TokenInv, NEW p \in Procs, BeginStop(p), UNCHANGED <<granted, backlog>>
  PROVE  TokenInv'
<1>1. PICK s \in Sessions :
        /\ online' = online \ {s}
        /\ Goto(p, "stop_read", [NoFrame EXCEPT !.op = "stop", !.sid = s])
  BY DEF BeginStop
<1> DEFINE f == [NoFrame EXCEPT !.op = "stop", !.sid = s]
<1>2. f \in Frame /\ f.sid = s /\ f.todo = {} /\ f.ses = AbsentSession
  BY IdleFrame DEF Frame, NoFrame, AllOps
<1> HIDE DEF f
<1>3. FrameOK("stop_read", f)
  BY <1>2, SessionFrame
  DEF SessionLabels, TokenLabels, RedeemLabels, WriteLabels, UsageLabels, Owned,
      AbsentSession
<1>4. QED
  BY <1>1, <1>2, <1>3, LocalStepInv
  DEF BeginStop, Arrives, TxLabels, Labels, TokenInv, TypeOK, f

LEMMA StopReadInv ==
  ASSUME TokenInv, NEW p \in Procs, StopRead(p), UNCHANGED <<granted, backlog>>
  PROVE  TokenInv'
<1> DEFINE row == session[loc[p].sid]
           new == EndedSession(row, "stop", FALSE)
           f   == [loc[p] EXCEPT !.ses = new]
<1>1. /\ pc[p] = "stop_read" /\ pc[p] \notin TxLabels /\ pc[p] \in SessionLabels
      /\ UNCHANGED <<storeVars, faults, gatewayVars, reported>>
  BY DEF StopRead, TxLabels, SessionLabels
<1>2. CASE Finish(p)
  BY <1>1, <1>2, IdleFrame, LocalStepInv DEF Finish, TokenInv, TypeOK, gatewayVars
<1>3. CASE row.status = "active" /\ Goto(p, "stop_write", f)
  <2>1. new \in SessionRow /\ Owned(new)
    <3>1. "stop" \in EndReason
      BY DEF EndReason
    <3>2. QED
      BY <1>1, <1>3, <3>1, Known, SessionRows, RowOwner
  <2> HIDE DEF new
  <2>2. f \in Frame /\ f.sid = loc[p].sid /\ f.todo = loc[p].todo /\ f.ses = new
    BY <2>1, Known DEF Frame
  <2> HIDE DEF f
  <2>3. FrameOK("stop_write", f)
    BY <1>1, <2>1, <2>2, Known
    DEF FrameOK, SessionLabels, TokenLabels, KnownLabels, RedeemLabels, WriteLabels,
        UsageLabels
  <2>4. QED
    BY <1>1, <1>3, <2>2, <2>3, LocalStepInv
    DEF TxLabels, Labels, TokenInv, TypeOK, gatewayVars
<1>4. QED
  BY <1>2, <1>3 DEF StopRead

LEMMA StopWriteInv ==
  ASSUME TokenInv, NEW p \in Procs, StopWrite(p), UNCHANGED <<granted, backlog>>
  PROVE  TokenInv'
BY Known, IdleFrame, SessionStepInv
DEF StopWrite, Finish, TxLabels, SessionLabels, TokenInv, TypeOK, gatewayVars

LEMMA AcctStartInv ==
  ASSUME TokenInv, NEW p \in Procs, AcctStart(p), UNCHANGED <<granted, backlog>>
  PROVE  TokenInv'
<1>1. PICK r \in RadiusIds, m \in Macs : \E s \in GetSessionByRadius(r) :
        Goto(p, "acct_touch", [NoFrame EXCEPT !.op = "acct_start", !.sid = s,
                                              !.ses = Touched(session[s], m)])
  BY DEF AcctStart
<1>2. PICK s \in GetSessionByRadius(r) :
        Goto(p, "acct_touch", [NoFrame EXCEPT !.op = "acct_start", !.sid = s,
                                              !.ses = Touched(session[s], m)])
  BY <1>1
<1> DEFINE new == Touched(session[s], m)
           f   == [NoFrame EXCEPT !.op = "acct_start", !.sid = s, !.ses = new]
<1>3. s \in Sessions /\ new \in SessionRow /\ Owned(new)
  BY RadiusFound, SessionRows, RowOwner
<1>4. Goto(p, "acct_touch", f)
  BY <1>2
<1> HIDE DEF new
<1>5. f \in Frame /\ f.sid = s /\ f.todo = {} /\ f.ses = new
  BY <1>3, IdleFrame DEF Frame, NoFrame, AllOps
<1> HIDE DEF f
<1>6. FrameOK("acct_touch", f)
  BY <1>3, <1>5, SessionFrame
  DEF SessionLabels, TokenLabels, RedeemLabels, WriteLabels, UsageLabels
<1>7. QED
  BY <1>4, <1>5, <1>6, LocalStepInv
  DEF AcctStart, Arrives, TxLabels, Labels, TokenInv, TypeOK, gatewayVars

LEMMA AcctTouchInv ==
  ASSUME TokenInv, NEW p \in Procs, AcctTouch(p), UNCHANGED <<granted, backlog>>
  PROVE  TokenInv'
BY Known, IdleFrame, SessionStepInv
DEF AcctTouch, Finish, TxLabels, SessionLabels, TokenInv, TypeOK, gatewayVars

\* What a packet adds is a natural number, whatever order the packets come in
LEMMA DeltaType ==
  ASSUME NEW total \in Nat, NEW row \in SessionRow
  PROVE  Delta(total, row) \in Nat
BY DEF Delta, SessionRow

\* Past the start packets there are two kinds
LEMMA PacketKinds == PacketOps \ {"acct_start"} = {"acct_interim", "acct_stop"}
BY DEF PacketOps

\* Whatever a packet carries reads as a byte count
LEMMA OctetsType ==
  ASSUME NEW total \in Totals, NEW gigawords \in {total \div Word, 0}
  PROVE  Octets(total % Word, gigawords) \in Nat
<1>1. total \in Nat /\ Word \in Nat /\ Word > 0
  BY ByteAssumption, WordAssumption
<1>2. total % Word \in Nat /\ total \div Word \in Nat
  BY <1>1
<1>3. \A i, j, k \in Nat : i * j + k \in Nat
  OBVIOUS
<1>4. QED
  BY <1>1, <1>2, <1>3 DEF Octets

LEMMA AcctUpdateInv ==
  ASSUME TokenInv, NEW p \in Procs, AcctUpdate(p), UNCHANGED <<granted, backlog>>
  PROVE  TokenInv'
<1> DEFINE f(op, s) == [NoFrame EXCEPT !.op = op, !.sid = s]
           g(op, s, n) == [f(op, s) EXCEPT !.add = n]
<1> DEFINE Packet(op, total, seen, s) ==
             /\ Arrives(p, op)
             /\ Report(s, total)
             /\ online' = IF op = "acct_stop" THEN online \ {s} ELSE online
             /\ \/ Goto(p, "usage_read", g(op, s, Delta(seen, session[s])))
                \/ Goto(p, "stop_read", f(op, s))
<1> DEFINE Body(op, total, s, gigawords) ==
             LET delta == Delta(Octets(total % Word, gigawords), session[s])
             IN /\ session[s].status = "active" /\ ledger[s] < MaxBytes
                /\ Report(s, total)
                /\ online' = IF op = "acct_stop" THEN online \ {s} ELSE online
                /\ \/ delta > 0 /\ Goto(p, "usage_read", [f(op, s) EXCEPT !.add = delta])
                   \/ delta = 0 /\ op = "acct_stop" /\ Goto(p, "stop_read", f(op, s))
<1>0. PICK op \in PacketOps \ {"acct_start"}, r \in RadiusIds, total \in Totals :
        /\ Arrives(p, op)
        /\ \E s \in GetSessionByRadius(r), gigawords \in {total \div Word, 0} :
             Body(op, total, s, gigawords)
  BY Zenon DEF AcctUpdate
<1>1. PICK s \in GetSessionByRadius(r), gigawords \in {total \div Word, 0} :
        Packet(op, total, Octets(total % Word, gigawords), s)
  <2> HIDE DEF f
  <2>1. PICK s \in GetSessionByRadius(r), gigawords \in {total \div Word, 0} :
          Body(op, total, s, gigawords)
    BY <1>0
  <2>2. QED
    BY <1>0, <2>1
<1>1a. op \in {"acct_interim", "acct_stop"}
  BY PacketKinds
<1> DEFINE seen == Octets(total % Word, gigawords)
<1>2. s \in Sessions /\ session[s] \in SessionRow /\ total \in Nat /\ seen \in Nat
  BY RadiusFound, ByteAssumption, OctetsType
<1> HIDE DEF seen
<1>3. \A n \in Nat : /\ g(op, s, n) \in Frame /\ g(op, s, n).sid = s
                     /\ g(op, s, n).todo = {} /\ g(op, s, n).ses = AbsentSession
  <2>1. ASSUME NEW n \in Nat
        PROVE  g(op, s, n) \in Frame
    BY <1>1a, <1>2, IdleFrame, Names DEF Frame
  <2>2. QED
    BY <1>2, <2>1 DEF NoFrame
<1>4. f(op, s) \in Frame /\ f(op, s).sid = s /\ f(op, s).todo = {}
      /\ f(op, s).ses = AbsentSession
  <2>1. f(op, s) \in Frame
    BY <1>1a, <1>2, IdleFrame, Names DEF Frame
  <2>2. QED
    BY <1>2, <2>1 DEF NoFrame
<1> HIDE DEF f, g
<1>5. PICK l \in {"usage_read", "stop_read"}, h \in Frame :
        /\ Goto(p, l, h)
        /\ h.sid = s /\ h.todo = {} /\ h.ses = AbsentSession
  BY <1>1, <1>2, <1>3, <1>4, DeltaType DEF seen
<1>6. l \in Labels /\ l \notin TxLabels /\ FrameOK(l, h)
  BY <1>2, <1>5, SessionFrame
  DEF SessionLabels, TokenLabels, RedeemLabels, WriteLabels, UsageLabels, Owned,
      AbsentSession
<1>7. reported' \in [Sessions -> Nat] /\ online' \subseteq Sessions
  BY <1>1, <1>2 DEF Report, TokenInv, TypeOK
<1>8. pc[p] \notin TxLabels
  BY <1>1 DEF Arrives, TxLabels
<1>9. QED
  BY <1>5, <1>6, <1>7, <1>8, LocalStepInv DEF AcctUpdate, TokenInv, TypeOK

\* An accounting step keeps the invariant
LEMMA AccountingInv ==
  ASSUME TokenInv, NEW p \in Procs, AccountingBegin(p) \/ AccountingStep(p),
         UNCHANGED <<granted, backlog>>
  PROVE  TokenInv'
BY StartFindInv, StartSaveInv, StartCreateInv, BeginInterimInv, UsageReadInv,
   UsageWriteInv, UsageRecordInv, QuotaCheckInv, QuotaEndInv, QuotaConsumeInv,
   BeginStopInv, StopReadInv, StopWriteInv, AcctStartInv, AcctTouchInv, AcctUpdateInv
DEF AccountingBegin, AccountingStep
==============================================================================
