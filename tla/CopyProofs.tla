------------------------------ MODULE CopyProofs ------------------------------
(***************************************************************************)
(* What the copies of session rows say that handlers carry across calls    *)
(* and write back, for every instance: a session that ended for its quota  *)
(* comes with a token that is over, recovery closes no session whose token *)
(* could still be used, and over the memory store leaves none active whose *)
(* token had run out, RADIUS charges no byte twice, usage records account  *)
(* for every byte a counter shows, a token has one expiry, and a session   *)
(* that ended is not forgotten while the gateway forwards it.              *)
(***************************************************************************)
EXTENDS SessionProofs, FiniteSetTheorems

------------------------------------------------------------------------------
(* What no step takes back *)

\* Of all the steps, two are taken by a handler that is closing a token over quota
LEMMA QuotaSteps ==
  ASSUME NEW p \in Procs, Begin(p) \/ Step(p), pc[p] \in {"quota_end", "quota_consume"}
  PROVE  QuotaEnd(p) \/ QuotaConsume(p)
<1>1. ~TokenBegin(p) /\ ~AccountingBegin(p) /\ ~GatewayBegin(p) /\ ~RecoverList(p)
  BY DEF TokenBegin, BeginRedeem, BeginPortal, BeginAuth, Enter, RevokeRead, SweepList,
         AccountingBegin, StartFind, BeginInterim, BeginStop, AcctStart, AcctUpdate,
         GatewayBegin, BeginDisconnect, BeginRetry, RecoverList, Arrives, Dequeues
<1>2. ~RedeemStep(p)
  BY DEF RedeemStep, RedeemUnknown, RedeemLock, ResumeUnused, RedeemRefused, RedeemExpired,
         RedeemExpiredKept, RedeemActivate, ResumeFind, ResumeAttach, ResumeReopen, Holds,
         Expires
<1>3. ~TokenStep(p)
  BY <1>2 DEF TokenStep, RevokeWrite, RevokeFind, RevokeEnd, SweepExpire, SweepFind, SweepEnd
<1>4. ~GatewayStoreStep(p) /\ ~ControllerStep(p) /\ ~RecoveryStep(p)
  BY DEF GatewayStoreStep, DisconnectRead, DisconnectMark, DisconnectClear, ControllerStep,
         GatewayAck, GatewayFail, RecoveryStep, RecoverRead, RecoverEnd, RecoverDone
<1>5. AccountingStep(p) => QuotaEnd(p) \/ QuotaConsume(p)
  BY DEF AccountingStep, StartSave, StartCreate, UsageRead, UsageWrite, UsageRecord,
         QuotaCheck, StopRead, StopWrite, AcctTouch
<1>6. QED
  BY <1>1, <1>3, <1>4, <1>5 DEF Begin, Step

\* Without a fault, that handler closes the token
LEMMA OverStep ==
  ASSUME TokenInv, [Next]_vars, NEW t \in Tokens, Over(t), faults' = 0
  PROVE  Over(t)'
<1>1. CASE Terminal(t)
  BY <1>1, TerminalStep DEF Over
<1>2. ASSUME NEW q \in Procs, pc[q] \in {"quota_end", "quota_consume"}, loc[q].tid = t
      PROVE  Over(t)'
  <2>1. CASE pc'[q] = pc[q] /\ loc'[q] = loc[q]
    BY <1>2, <2>1 DEF Over
  <2>2. CASE QuotaEnd(q)
    BY <1>2, <2>2 DEF QuotaEnd, Goto, Over, TokenInv, TypeOK
  <2>3. CASE QuotaConsume(q)
    <3>1. loc[q].tok.status \in TerminalStatus
      BY <1>2, Known DEF FrameOK, WriteLabels
    <3>2. Terminal(t)'
      BY <1>2, <2>3, <3>1 DEF QuotaConsume, UpdateToken, Terminal, TokenInv, TypeOK
    <3>3. QED
      BY <3>2 DEF Over
  <2>4. CASE Abort(q)
    BY <2>4 DEF Abort, Fault, TokenInv, TypeOK
  <2>5. QED
    BY <1>2, <2>1, <2>2, <2>3, <2>4, OneMoves, QuotaSteps DEF TokenInv
<1>3. QED
  BY <1>1, <1>2 DEF Over

LEMMA LateStep ==
  ASSUME TokenInv, [Next]_vars, NEW t \in Tokens, Late(t)
  PROVE  Late(t)'
<1>0. now \in Nat /\ token[t].expires \in Nat /\ now' >= now /\ now' \in Nat
  BY MetersStep DEF TokenInv, TypeOK, TokenRow, Meters
<1>1. CASE Terminal(t)
  BY <1>1, TerminalStep DEF Late
<1>2. CASE token[t].status = "active" /\ Overdue(token[t], now)
  <2>1. CASE token'[t] = token[t]
    BY <1>0, <1>2, <2>1 DEF Late, Overdue
  <2>2. ASSUME NEW u \in Tokens, GenerateToken(u) \/ Closes(u)
        PROVE  token'[t] = token[t] \/ Terminal(t)'
    BY <1>2, <2>2, Closing, Issuing DEF Terminal
  <2>3. ASSUME NEW p \in Procs, RedeemActivate(p)
        PROVE  token'[t] = token[t]
    <3>1. t # loc[p].tid
      BY <1>2, <2>3, Activation
    <3>2. QED
      BY <2>3, <3>1 DEF RedeemActivate, TokenInv, TypeOK
  <2>4. ASSUME NEW p \in Procs, ResumeAttach(p) \/ ResumeReopen(p)
        PROVE  token'[t] = token[t]
    BY <2>4, Resumption
  <2>5. QED
    BY <2>1, <2>2, <2>3, <2>4, StepKinds DEF Late
<1>3. QED
  BY <1>1, <1>2 DEF Late
------------------------------------------------------------------------------
(* What is owed to the usage records *)

\* The part of it that is handler p's
Share(p, l, f, s) ==
  IF l \in OwingLabels /\ f.sid = s THEN {p} \X (1 .. f.add) ELSE {}

LEMMA ShareSize ==
  ASSUME NEW p, NEW n \in Nat
  PROVE  IsFiniteSet({p} \X (1 .. n)) /\ Cardinality({p} \X (1 .. n)) = n
<1>1. IsFiniteSet({p}) /\ Cardinality({p}) = 1
  BY FS_Singleton
<1>2. IsFiniteSet(1 .. n) /\ Cardinality(1 .. n) = n
  BY FS_Interval
<1>3. /\ IsFiniteSet({p} \X (1 .. n))
      /\ Cardinality({p} \X (1 .. n)) = Cardinality({p}) * Cardinality(1 .. n)
  BY <1>1, <1>2, FS_Product
<1>4. QED
  BY <1>1, <1>2, <1>3

LEMMA ShareFinite ==
  ASSUME NEW p, NEW l, NEW f, f.add \in Nat, NEW s
  PROVE  IsFiniteSet(Share(p, l, f, s))
BY ShareSize, FS_EmptySet DEF Share

\* A step changes what is owed by the share of the handler that takes it
LEMMA OwedMoved ==
  ASSUME TypeOK, NEW p \in Procs, NEW l, NEW f, Goto(p, l, f), NEW s
  PROVE  /\ Share(p, pc[p], loc[p], s) \subseteq Owed(s)
         /\ Owed(s)' = (Owed(s) \ Share(p, pc[p], loc[p], s)) \cup Share(p, l, f, s)
<1> DEFINE Owes(q)  == pc[q] \in OwingLabels /\ loc[q].sid = s
           Owing(q) == pc'[q] \in OwingLabels /\ loc'[q].sid = s
<1>1. /\ pc'[p] = l /\ loc'[p] = f
      /\ \A q \in Procs : q # p => pc'[q] = pc[q] /\ loc'[q] = loc[q]
  BY DEF Goto, TypeOK
<1>2. \A x : x \in Owed(s) <=>
               \E q \in Procs : Owes(q) /\ x \in {q} \X (1 .. loc[q].add)
  BY DEF Owed
<1>3. \A x : x \in Owed(s)' <=>
               \E q \in Procs : Owing(q) /\ x \in {q} \X (1 .. loc'[q].add)
  BY DEF Owed
<1>4. \A x : x \in Share(p, pc[p], loc[p], s) <=> Owes(p) /\ x \in {p} \X (1 .. loc[p].add)
  BY DEF Share
<1>5. \A x : x \in Share(p, l, f, s) <=> Owing(p) /\ x \in {p} \X (1 .. loc'[p].add)
  BY <1>1 DEF Share
<1>6. \A q \in Procs : q # p => /\ Owing(q) <=> Owes(q)
                               /\ {q} \X (1 .. loc'[q].add) = {q} \X (1 .. loc[q].add)
  BY <1>1
<1>7. \A q \in Procs : q # p =>
        \A x : x \in {q} \X (1 .. loc[q].add) => x \notin {p} \X (1 .. loc[p].add)
  OBVIOUS
<1> HIDE DEF Owes, Owing
<1>8. Share(p, pc[p], loc[p], s) \subseteq Owed(s)
  BY <1>2, <1>4
<1>9. ASSUME NEW x
      PROVE  x \in Owed(s)' <=>
               \/ x \in Owed(s) /\ x \notin Share(p, pc[p], loc[p], s)
               \/ x \in Share(p, l, f, s)
  BY <1>2, <1>3, <1>4, <1>5, <1>6, <1>7
<1>10. QED
  BY <1>8, <1>9

\* The steps of a handler that owes
LEMMA OwingSteps ==
  ASSUME NEW p \in Procs, Begin(p) \/ Step(p), pc[p] \in OwingLabels
  PROVE  UsageWrite(p) \/ UsageRecord(p)
<1>1. ~TokenBegin(p) /\ ~AccountingBegin(p) /\ ~GatewayBegin(p) /\ ~RecoverList(p)
  BY DEF OwingLabels, TokenBegin, BeginRedeem, BeginPortal, BeginAuth, Enter, RevokeRead,
         SweepList, AccountingBegin, StartFind, BeginInterim, BeginStop, AcctStart, AcctUpdate,
         GatewayBegin, BeginDisconnect, BeginRetry, RecoverList, Arrives, Dequeues
<1>2. ~RedeemStep(p)
  BY DEF OwingLabels, RedeemStep, RedeemUnknown, RedeemLock, ResumeUnused, RedeemRefused,
         RedeemExpired, RedeemExpiredKept, RedeemActivate, ResumeFind, ResumeAttach,
         ResumeReopen, Holds, Expires
<1>3. ~TokenStep(p)
  BY <1>2 DEF OwingLabels, TokenStep, RevokeWrite, RevokeFind, RevokeEnd, SweepExpire,
              SweepFind, SweepEnd
<1>4. ~GatewayStoreStep(p) /\ ~ControllerStep(p) /\ ~RecoveryStep(p)
  BY DEF OwingLabels, GatewayStoreStep, DisconnectRead, DisconnectMark, DisconnectClear,
         ControllerStep, GatewayAck, GatewayFail, RecoveryStep, RecoverRead, RecoverEnd,
         RecoverDone
<1>5. AccountingStep(p) => UsageWrite(p) \/ UsageRecord(p)
  BY DEF OwingLabels, AccountingStep, StartSave, StartCreate, UsageRead, QuotaCheck, QuotaEnd,
         QuotaConsume, StopRead, StopWrite, AcctTouch
<1>6. QED
  BY <1>1, <1>3, <1>4, <1>5 DEF Begin, Step

LEMMA DueType ==
  ASSUME TypeOK, OwedFinite, NEW s \in Sessions
  PROVE  Due(s) \in Nat /\ ledger[s] \in Nat /\ Cardinality(Owed(s)) \in Nat /\ ledger[s] <= Due(s)
<1>1. ledger[s] \in Nat
  BY DEF TypeOK
<1>2. Cardinality(Owed(s)) \in Nat
  BY FS_CardinalityType DEF OwedFinite
<1>3. QED
  BY <1>1, <1>2 DEF Due

\* Nothing that is owed is forgotten, but for a fault: it is owed until it is recorded
LEMMA DueStep ==
  ASSUME TokenInv, OwedFinite, [Next]_vars
  PROVE  /\ OwedFinite'
         /\ \A s \in Sessions : Due(s)' \in Nat /\ (faults' = 0 => Due(s) <= Due(s)')
<1>0. TypeOK /\ TypeOK' /\ Meters
  BY MetersStep, NextInv DEF TokenInv
<1> SUFFICES ASSUME NEW s \in Sessions
             PROVE  IsFiniteSet(Owed(s))' /\ (faults' = 0 => Due(s) <= Due(s)')
  <2>1. ASSUME NEW s \in Sessions, IsFiniteSet(Owed(s))'
        PROVE  Due(s)' \in Nat
    <3>1. PICK O : O = Owed(s)'
      OBVIOUS
    <3>2. ledger'[s] \in Nat /\ Cardinality(O) \in Nat
      BY <1>0, <2>1, <3>1, FS_CardinalityType DEF TypeOK
    <3>3. QED
      BY <3>1, <3>2 DEF Due
  <2>2. QED
    BY <2>1 DEF OwedFinite
<1>1. /\ ledger[s] \in Nat /\ ledger'[s] \in Nat /\ ledger[s] <= ledger'[s]
      /\ IsFiniteSet(Owed(s)) /\ Cardinality(Owed(s)) \in Nat
  BY <1>0, DueType DEF Meters, TypeOK, OwedFinite
<1>2. ASSUME Owed(s)' = Owed(s)
      PROVE  IsFiniteSet(Owed(s))' /\ Due(s) <= Due(s)'
  BY <1>1, <1>2 DEF Due
<1>3. ASSUME NEW p \in Procs, Moved(p), Begin(p) \/ Step(p) \/ Abort(p)
      PROVE  IsFiniteSet(Owed(s))' /\ (faults' = 0 => Due(s) <= Due(s)')
  <2>1. PICK l, f : Goto(p, l, f)
    BY <1>3 DEF Moved
  <2> DEFINE had  == Share(p, pc[p], loc[p], s)
             have == Share(p, l, f, s)
  <2>2. had \subseteq Owed(s) /\ Owed(s)' = (Owed(s) \ had) \cup have
    BY <1>0, <2>1, OwedMoved
  <2>3. IsFiniteSet(have) /\ IsFiniteSet(Owed(s) \ had)
    <3>1. f.add \in Nat
      BY <1>0, <2>1 DEF Goto, TypeOK, Frame
    <3>2. QED
      BY <1>1, <3>1, ShareFinite, FS_Difference
  <2>4. IsFiniteSet(Owed(s))'
    BY <2>2, <2>3, FS_Union
  <2>5. ASSUME pc[p] \notin OwingLabels
        PROVE  Due(s) <= Due(s)'
    <3>1. Owed(s) \subseteq Owed(s)'
      BY <2>2, <2>5 DEF Share
    <3>2. PICK O : O = Owed(s)'
      OBVIOUS
    <3>3. Cardinality(Owed(s)) <= Cardinality(O) /\ Cardinality(O) \in Nat
      BY <2>4, <3>1, <3>2, FS_Subset, FS_CardinalityType
    <3>4. QED
      BY <1>1, <3>2, <3>3 DEF Due
  <2>6. CASE UsageWrite(p)
    <3>1. Goto(p, "usage_record", loc[p]) /\ pc[p] = "usage_write"
      BY <2>6 DEF UsageWrite
    <3>2. Owed(s)' = Owed(s)
      BY <1>0, <3>1, OwedMoved DEF Share, OwingLabels
    <3>3. QED
      BY <1>2, <3>2
  <2>7. CASE UsageRecord(p)
    <3>1. /\ Goto(p, "quota_check", loc[p]) /\ pc[p] = "usage_record"
          /\ ledger' = [ledger EXCEPT ![loc[p].sid] = @ + loc[p].add]
          /\ loc[p].add \in Nat
      BY <1>0, <2>7 DEF UsageRecord, CreateUsageRecord, TypeOK, Frame
    <3>2. Owed(s)' = Owed(s) \ had /\ had \subseteq Owed(s)
      BY <1>0, <3>1, OwedMoved DEF Share, OwingLabels
    <3>3. CASE loc[p].sid # s
      BY <1>2, <3>2, <3>3 DEF Share
    <3>4. CASE loc[p].sid = s
      <4>1. Cardinality(had) = loc[p].add
        BY <3>1, <3>4, ShareSize DEF Share, OwingLabels
      <4>2. ledger'[s] = ledger[s] + loc[p].add
        BY <1>0, <3>1, <3>4 DEF TypeOK
      <4> HIDE DEF had
      <4>3. Cardinality(Owed(s) \ had) = Cardinality(Owed(s)) - Cardinality(had)
        <5>1. Owed(s) \cap had = had
          BY <3>2
        <5>2. QED
          BY <1>1, <5>1, FS_Difference
      <4>4. QED
        BY <1>1, <2>4, <3>1, <3>2, <4>1, <4>2, <4>3 DEF Due
    <3>5. QED
      BY <3>3, <3>4
  <2>8. CASE Abort(p)
    BY <1>0, <2>4, <2>8 DEF Abort, Fault, TypeOK
  <2>9. QED
    BY <1>3, <2>4, <2>5, <2>6, <2>7, <2>8, OwingSteps
<1>4. CASE \E p \in Procs : Begin(p) \/ Step(p) \/ Abort(p)
  BY <1>3, <1>4, TokenMoved, AccountingMoved, GatewayMoved, EndMoved DEF Begin, Step, Abort
<1>5. CASE UNCHANGED <<pc, loc>>
  BY <1>2, <1>5 DEF Owed
<1>6. CASE (\E t \in Tokens : GenerateToken(t) /\ UNCHANGED <<reported, backlog>>) \/ Tick
            \/ UNCHANGED vars
  BY <1>5, <1>6 DEF GenerateToken, Tick, vars, requestVars
<1>7. QED
  BY <1>4, <1>6 DEF Next

------------------------------------------------------------------------------
\* What is true of a token, a clock and a counter stays true
Steady ==
  /\ Meters /\ TypeOK'
  /\ \A t \in Tokens : (Begun(t) => Begun(t)') /\ (Late(t) => Late(t)')
  /\ faults' = 0 => \A t \in Tokens : Over(t) => Over(t)'
  /\ OwedFinite'
  /\ \A s \in Sessions : Due(s)' \in Nat /\ (faults' = 0 => Due(s) <= Due(s)')

LEMMA SteadyStep ==
  ASSUME TokenInv, OwedFinite, [Next]_vars
  PROVE  Steady
<1>1. Meters /\ TypeOK'
  BY MetersStep, NextInv DEF TokenInv
<1>2. QED
  BY <1>1, BegunStep, LateStep, OverStep, DueStep DEF Steady

------------------------------------------------------------------------------
(* What a step leaves true of the copies *)

LEMMA JustKept ==
  ASSUME TypeOK, Steady, NEW t \in Tokens, NEW why, Just(why, t)
  PROVE  Just(why, t)'
<1>1. faults' = 0 => faults = 0
  BY DEF Steady, Meters, TypeOK
<1>2. QED
  BY <1>1 DEF Just, Steady

\* Sessions keep their token, and none vanishes
SessionsKept ==
  \A s \in Sessions : session[s].status # "absent" =>
    session'[s].status # "absent" /\ session'[s].tok = session[s].tok

LEMMA CoveredKept ==
  ASSUME TypeOK, OwedFinite, Steady, NEW s \in Sessions, NEW n \in Nat,
         faults = 0 => n <= Due(s)
  PROVE  faults' = 0 => n <= Due(s)'
<1>1. faults' = 0 => faults = 0
  BY DEF Steady, Meters, TypeOK
<1>2. PICK had, have : had = Due(s) /\ have = Due(s)'
  OBVIOUS
<1>3. had \in Nat /\ have \in Nat /\ (faults' = 0 => had <= have)
  BY <1>2, DueType DEF Steady
<1>4. QED
  BY <1>1, <1>2, <1>3

LEMMA CopyKept ==
  ASSUME TokenInv, OwedFinite, Steady, SessionsKept, NEW s \in Sessions,
         NEW row \in SessionRow, Copy(s, row)
  PROVE  Copy(s, row)'
<1>1. session[s].status # "absent" /\ row.tok = session[s].tok /\ session[s].tok \in Tokens
  BY FoundRow DEF Copy
<1>2. session'[s].status # "absent" /\ row.tok = session'[s].tok
  BY <1>1 DEF SessionsKept
<1>3. Just(row.reason, row.tok)'
  BY <1>1, JustKept DEF Copy, Fit, TokenInv
<1>4. OneReporter => row.bytes <= reported'[s]
  <2>1. reported[s] \in Nat /\ reported'[s] \in Nat /\ reported[s] <= reported'[s]
    BY DEF Steady, Meters, TokenInv, TypeOK
  <2>2. row.bytes \in Nat
    BY DEF SessionRow
  <2>3. OneReporter => row.bytes <= reported[s]
    BY DEF Copy, Fit
  <2>4. QED
    BY <2>1, <2>2, <2>3
<1>5. faults' = 0 => row.bytes <= Due(s)'
  BY CoveredKept DEF Copy, Fit, SessionRow, TokenInv
<1>6. row.status # "absent"
  BY DEF Copy, Fit
<1>7. QED
  BY <1>2, <1>3, <1>4, <1>5, <1>6 DEF Copy, Fit, OneReporter

LEMMA ToldKept ==
  ASSUME TokenInv, Steady, SessionsKept, NEW s \in Sessions, NEW why, Told(why, s)
  PROVE  Told(why, s)'
<1> SUFFICES ASSUME why \in {"data_limit_reached", "recovered_closed"}
             PROVE  session'[s].status # "absent" /\ Just(why, session[s].tok)'
  BY DEF Told, SessionsKept
<1>1. session[s].status # "absent" /\ Just(why, session[s].tok) /\ session[s].tok \in Tokens
  BY FoundRow DEF Told
<1> DEFINE t == session[s].tok
<1> HIDE DEF t
<1>2. QED
  BY <1>1, JustKept DEF SessionsKept, TokenInv

\* What p knows stays true, but for the byte count a report is about to add
LEMMA FrameKept ==
  ASSUME TokenInv, OwedFinite, Steady, SessionsKept, NEW p \in Procs, NEW l, NEW f \in Frame,
         l \in SessionLabels => f.sid \in Sessions,
         FrameFit(p, l, f), l # "usage_read"
  PROVE  FrameFit(p, l, f)'
<1>1. f.ses \in SessionRow /\ f.at \in Nat
  BY DEF Frame
<1>2. l \in CopyLabels => Copy(f.sid, f.ses)'
  BY <1>1, CopyKept DEF FrameFit, CopyLabels, SessionLabels, EndingLabels, QuotaLabels,
                        UsageLabels
<1>3. l = "found" /\ f.sid # None => Copy(f.sid, f.ses)'
  BY <1>1, CopyKept DEF FrameFit, Frame
<1>4. l \in CallLabels => Told(f.reason, f.sid)'
  BY ToldKept DEF FrameFit, CallLabels, SessionLabels
<1>5. f.at <= now'
  <2>1. now \in Nat /\ now' \in {now, now + 1}
    BY DEF Steady, Meters, TokenInv, TypeOK
  <2>2. QED
    BY <1>1, <2>1 DEF FrameFit
<1>6. QED
  BY <1>2, <1>3, <1>4, <1>5 DEF FrameFit, OneReporter
\* The session rows p writes: none, a copy of the row, or the row of a new session
Opens(s) ==
  /\ session[s].status = "absent" /\ session'[s].status # "absent"
  /\ session'[s].reason = "none" /\ session'[s].bytes = 0
  /\ session'[s].tok \in Tokens /\ ("start" \notin Ops => Begun(session[s].tok)')

Writes(p) ==
  \A s \in Sessions :
    \/ session'[s] = session[s]
    \/ /\ Copy(s, session'[s])
       /\ OneReporter /\ p \in Workers => session'[s].status = "ended"
    \/ Opens(s)

\* The tasks p queues
Queues == \A s \in Sessions, why \in EndReason :
            queue'[<<s, why>>] > 0 => queue[<<s, why>>] > 0 \/ Told(why, s)

\* The rows p lists
Lists == \A q \in Procs : \A d \in backlog'[q] : d \in backlog[q] \/ Copy(d[1], d[2])

LEMMA WritesKeep ==
  ASSUME TypeOK, NEW p, Writes(p)
  PROVE  SessionsKept
BY DEF Writes, SessionsKept, Copy, Fit, Opens

\* A report under way is the only one, so that the row it read has not been
\* charged since, or has ended
LEMMA ReportKept ==
  ASSUME TokenInv, CopyInv, Steady, NEW p \in Procs, Writes(p),
         NEW q \in Procs, q # p, pc[q] = "usage_read", NEW f, f = loc[q]
  PROVE  FrameFit(q, "usage_read", f)'
<1> DEFINE s == f.sid
           n == f.add
<1>1. s \in Sessions /\ n \in Nat /\ session[s].status # "absent"
  BY Known DEF SessionLabels, CopyInv, FramesFit, FrameFit, Frame
<1>2. session'[s].status # "absent"
  BY <1>1, WritesKeep DEF SessionsKept, TokenInv
<1> HIDE DEF s, n
<1>3. ASSUME OneReporter, session'[s].status = "active"
      PROVE  session'[s].bytes + n <= reported'[s]
  <2>1. q \notin Workers /\ p \in Workers
    BY <1>3 DEF CopyInv, FramesFit, FrameFit, WorkerLabels, CallLabels, OneReporter
  <2>2. session'[s] = session[s]
    BY <1>1, <1>3, <2>1 DEF Writes, Opens
  <2>3. session[s].bytes + n <= reported[s]
    BY <1>3, <2>2 DEF CopyInv, FramesFit, FrameFit, s, n
  <2>4. /\ reported[s] \in Nat /\ reported'[s] \in Nat /\ reported[s] <= reported'[s]
        /\ session[s].bytes \in Nat
    BY <1>1 DEF Steady, Meters, TokenInv, TypeOK, SessionRow
  <2>5. QED
    BY <1>1, <2>2, <2>3, <2>4
<1>4. OneReporter' = OneReporter
  BY DEF OneReporter
<1>5. OneReporter => q \notin Workers
  BY DEF CopyInv, FramesFit, FrameFit, WorkerLabels, CallLabels
<1>6. f.at <= now'
  <2>1. f.at \in Nat /\ f.at <= now /\ now \in Nat /\ now' \in {now, now + 1}
    BY Known DEF CopyInv, FramesFit, FrameFit, Frame, Steady, Meters, TokenInv, TypeOK
  <2>2. QED
    BY <2>1
<1>7. f.reason = "none"
  BY DEF CopyInv, FramesFit, FrameFit, CallLabels
<1>8. QED
  BY <1>2, <1>3, <1>4, <1>5, <1>6, <1>7
  DEF FrameFit, CopyLabels, CallLabels, QuotaLabels, EndingLabels, UsageLabels, s, n

\* A step of p that knows what it has to for its next call keeps the invariant
LEMMA StepCopies ==
  ASSUME TokenInv, CopyInv, Steady, TokenInv', NEW p \in Procs, NEW l, NEW f, Goto(p, l, f),
         FrameFit(p, l, f)' \/ (FrameFit(p, l, f) /\ l # "usage_read"),
         Writes(p), Queues, Lists
  PROVE  CopyInv'
<1>1. SessionsKept /\ OwedFinite
  BY WritesKeep DEF TokenInv, CopyInv
<1>2. pc'[p] = l /\ loc'[p] = f
  BY DEF Goto, TokenInv, TypeOK
<1>3. f \in Frame /\ (l \in SessionLabels => f.sid \in Sessions)
  BY <1>2 DEF TokenInv, TypeOK, FramesOK, FrameOK
<1>4. FramesFit'
  <2> SUFFICES ASSUME NEW q \in Procs PROVE FrameFit(q, pc[q], loc[q])'
    BY DEF FramesFit
  <2>1. CASE q = p
    BY <1>1, <1>2, <1>3, <2>1, FrameKept
  <2>2. CASE q # p
    <3>1. pc'[q] = pc[q] /\ loc'[q] = loc[q]
      BY <2>2 DEF Goto, TokenInv, TypeOK
    <3>2. FrameFit(q, pc[q], loc[q])
      BY DEF CopyInv, FramesFit
    <3>3. PICK k, g : k = pc[q] /\ g = loc[q]
      OBVIOUS
    <3>4. g \in Frame /\ (k \in SessionLabels => g.sid \in Sessions)
      BY <3>3, Known
    <3>5. FrameFit(q, k, g)'
      BY <1>1, <2>2, <3>2, <3>3, <3>4, FrameKept, ReportKept
    <3>6. QED
      BY <3>1, <3>3, <3>5
  <2>3. QED
    BY <2>1, <2>2
<1>5. RowsFit'
  <2> SUFFICES ASSUME NEW s \in Sessions
               PROVE  (session[s] = AbsentSession \/ Copy(s, session[s]))'
    BY DEF RowsFit
  <2>1. CASE session'[s] = session[s] /\ session[s] = AbsentSession
    BY <2>1
  <2>2. CASE Copy(s, session'[s])
    <3>1. PICK row : row = session'[s]
      OBVIOUS
    <3>2. row \in SessionRow
      BY <3>1 DEF TokenInv, TypeOK
    <3>3. Copy(s, row)'
      BY <1>1, <2>2, <3>1, <3>2, CopyKept
    <3>4. QED
      BY <3>1, <3>3
  <2>3. CASE Opens(s)
    <3>1. Just("none", session[s].tok)'
      BY DEF Just
    <3>2. 0 <= reported'[s] /\ 0 <= Due(s)'
      BY DEF Steady, TypeOK
    <3>3. QED
      BY <2>3, <3>1, <3>2 DEF Opens, Copy, Fit
  <2>4. QED
    BY <2>1, <2>2, <2>3 DEF Writes, CopyInv, RowsFit
<1>6. BacklogFit'
  <2> SUFFICES ASSUME NEW q \in Procs, NEW d \in backlog'[q] PROVE Copy(d[1], d[2])'
    BY DEF BacklogFit
  <2>1. Copy(d[1], d[2])
    BY DEF Lists, CopyInv, BacklogFit
  <2>2. d[1] \in Sessions /\ d[2] \in SessionRow
    BY DEF TokenInv, TypeOK
  <2>3. QED
    BY <1>1, <2>1, <2>2, CopyKept
<1>7. QueueFit'
  <2> SUFFICES ASSUME NEW s \in Sessions, NEW why \in EndReason, queue'[<<s, why>>] > 0
               PROVE  Told(why, s)'
    BY DEF QueueFit
  <2>1. Told(why, s)
    BY DEF Queues, CopyInv, QueueFit
  <2>2. QED
    BY <1>1, <2>1, ToldKept
<1>8. SessionsBegun'
  <2> SUFFICES ASSUME "start" \notin Ops, NEW s \in Sessions, session'[s].status # "absent"
               PROVE  Begun(session[s].tok)'
    BY DEF SessionsBegun
  <2>1. CASE Opens(s)
    BY <2>1 DEF Opens
  <2>2. CASE ~Opens(s)
    <3>1. session[s].status # "absent" /\ session'[s].tok = session[s].tok
      BY <2>2 DEF Writes, Copy
    <3>2. PICK t \in Tokens : t = session[s].tok
      BY <3>1, FoundRow
    <3>3. Begun(t)'
      BY <3>1, <3>2 DEF CopyInv, SessionsBegun, Steady
    <3>4. QED
      BY <3>1, <3>2, <3>3 DEF Begun
  <2>3. QED
    BY <2>1, <2>2
<1>9. QED
  BY <1>4, <1>5, <1>6, <1>7, <1>8 DEF CopyInv, Steady

------------------------------------------------------------------------------
(* Frames and rows *)

\* The columns the row operators keep
LEMMA RowColumns ==
  ASSUME NEW row \in SessionRow
  PROVE  /\ \A why, b : LET r == EndedSession(row, why, b) IN
              r.status = "ended" /\ r.tok = row.tok /\ r.bytes = row.bytes /\ r.reason = why
         /\ \A b : LET r == Pending(row, b) IN
              /\ r.status = row.status /\ r.tok = row.tok
              /\ r.bytes = row.bytes /\ r.reason = row.reason
         /\ \A k : LET r == Attached(row, k) IN
              /\ r.status = row.status /\ r.tok = row.tok
              /\ r.bytes = row.bytes /\ r.reason = row.reason
         /\ \A m : LET r == Touched(row, m) IN
              /\ r.status = row.status /\ r.tok = row.tok
              /\ r.bytes = row.bytes /\ r.reason = row.reason
         /\ \A n : LET r == Charged(row, n) IN
              /\ r.status = row.status /\ r.tok = row.tok
              /\ r.bytes = row.bytes + n /\ r.reason = row.reason
<1>1. \A why, b : LET r == EndedSession(row, why, b) IN
        r.status = "ended" /\ r.tok = row.tok /\ r.bytes = row.bytes /\ r.reason = why
  BY DEF EndedSession, SessionRow
<1>2. \A b : LET r == Pending(row, b) IN
        /\ r.status = row.status /\ r.tok = row.tok
        /\ r.bytes = row.bytes /\ r.reason = row.reason
  BY DEF Pending, SessionRow
<1>3. \A k : LET r == Attached(row, k) IN
        /\ r.status = row.status /\ r.tok = row.tok
        /\ r.bytes = row.bytes /\ r.reason = row.reason
  BY DEF Attached, SessionRow
<1>4. \A m : LET r == Touched(row, m) IN
        /\ r.status = row.status /\ r.tok = row.tok
        /\ r.bytes = row.bytes /\ r.reason = row.reason
  BY DEF Touched, SessionRow
<1>5. \A n : LET r == Charged(row, n) IN
        /\ r.status = row.status /\ r.tok = row.tok
        /\ r.bytes = row.bytes + n /\ r.reason = row.reason
  BY DEF Charged, SessionRow
<1>6. QED
  BY <1>1, <1>2, <1>3, <1>4, <1>5

\* They make copies of copies
LEMMA CopyRows ==
  ASSUME NEW s, NEW row \in SessionRow, Copy(s, row)
  PROVE  /\ \A why, b : Just(why, row.tok) => Copy(s, EndedSession(row, why, b))
         /\ \A why : Just(why, row.tok) => Copy(s, Marked(row, why))
         /\ \A b : Copy(s, Pending(row, b))
         /\ \A k : Copy(s, Attached(row, k))
         /\ \A m : Copy(s, Touched(row, m))
<1>1. \A why, b : Just(why, row.tok) => Copy(s, EndedSession(row, why, b))
  BY RowColumns DEF Copy, Fit
<1>2. \A b : Copy(s, Pending(row, b))
  BY RowColumns DEF Copy, Fit
<1>3. (\A k : Copy(s, Attached(row, k))) /\ \A m : Copy(s, Touched(row, m))
  BY RowColumns DEF Copy, Fit
<1>4. QED
  BY <1>1, <1>2, <1>3 DEF Marked

\* A session read now
LEMMA StoredCopy ==
  ASSUME CopyInv, NEW s \in Sessions, session[s].status # "absent"
  PROVE  Copy(s, session[s])
BY DEF CopyInv, RowsFit, AbsentSession

\* Reasons that say nothing of the token
LEMMA PlainReasons ==
  ASSUME NEW why \in {"none", "revoked", "expired", "disconnect", "stop"}
  PROVE  (\A t : Just(why, t)) /\ \A s : Told(why, s)
BY DEF Just, Told

\* What every frame has to be
Common(p, l, f) ==
  /\ f.at <= now
  /\ l \notin CallLabels => f.reason = "none"
  /\ OneReporter /\ p \in Workers => l \in WorkerLabels /\ f.op # "recover"

LEMMA Commons ==
  ASSUME TokenInv, CopyInv, NEW p \in Procs
  PROVE  /\ Common(p, pc[p], loc[p])
         /\ p \notin Workers => \A l, f :
              f.at <= now /\ (l \notin CallLabels => f.reason = "none") => Common(p, l, f)
         /\ now \in Nat /\ 0 <= now
BY DEF CopyInv, FramesFit, FrameFit, Common, TokenInv, TypeOK

\* p goes on to a call for which it knows what it has to, ...
Fits(p) ==
  \E l, f : Goto(p, l, f) /\ (FrameFit(p, l, f)' \/ (FrameFit(p, l, f) /\ l # "usage_read"))

\* ... and writes, queues and lists nothing else either
Keeps(p) == Fits(p) /\ Writes(p) /\ Queues /\ Lists

\* Frames without a session row
LEMMA PlainFit ==
  ASSUME NEW p, NEW l \in {"idle", "sweep", "revoke_write", "revoke_find", "sweep_find",
                           "stop_read", "redeem", "locked", "recover"},
         NEW f, Goto(p, l, f), Common(p, l, f), l \in {"redeem", "locked"} => f.sid = None
  PROVE  Fits(p)
<1>1. FrameFit(p, l, f) /\ l # "usage_read"
  BY DEF FrameFit, Common, CopyLabels, CallLabels, QuotaLabels, EndingLabels, UsageLabels
<1>2. QED
  BY <1>1 DEF Fits

\* Frames with a session row to write, outside DisconnectSession and the quota check
LEMMA RowFit ==
  ASSUME NEW p, NEW l \in {"revoke_end", "sweep_end", "recover_end", "stop_write",
                           "start_save", "acct_touch", "found"},
         NEW f, Goto(p, l, f), Common(p, l, f),
         (l = "found" /\ f.sid = None) \/ Copy(f.sid, f.ses),
         l = "recover_end" => f.ses.reason = "recovered_closed",
         OneReporter /\ p \in Workers => f.ses.status = "ended"
  PROVE  Fits(p)
<1>1. FrameFit(p, l, f) /\ l # "usage_read"
  BY DEF FrameFit, Common, CopyLabels, CallLabels, QuotaLabels, EndingLabels, UsageLabels
<1>2. QED
  BY <1>1 DEF Fits

\* Frames inside DisconnectSession
LEMMA CallFit ==
  ASSUME NEW p, NEW l \in CallLabels, NEW f, Goto(p, l, f), Common(p, l, f),
         Told(f.reason, f.sid),
         l = "dc_read" \/ Copy(f.sid, f.ses),
         OneReporter /\ p \in Workers /\ l # "dc_read" => f.ses.status = "ended"
  PROVE  Fits(p)
<1>1. FrameFit(p, l, f) /\ l # "usage_read"
  BY DEF FrameFit, Common, CopyLabels, CallLabels, QuotaLabels, EndingLabels, UsageLabels
<1>2. QED
  BY <1>1 DEF Fits

\* Frames of ApplyUsage and the quota check
LEMMA QuotaFit ==
  ASSUME NEW p, NEW l \in QuotaLabels, NEW f, Goto(p, l, f), Common(p, l, f),
         Copy(f.sid, f.ses),
         f.ses.tok = f.tid, ~(OneReporter /\ p \in Workers)
  PROVE  Fits(p)
<1>1. FrameFit(p, l, f) /\ l # "usage_read"
  BY DEF FrameFit, Common, CopyLabels, CallLabels, QuotaLabels, EndingLabels, UsageLabels
<1>2. QED
  BY <1>1 DEF Fits

LEMMA Quietly ==
  /\ session' = session => \A p : Writes(p)
  /\ queue' = queue => Queues
  /\ backlog' = backlog => Lists
BY DEF Writes, Queues, Lists

\* A handler that returns or goes on with the sweep or the recovery
LEMMA EndFits ==
  ASSUME TokenInv, CopyInv, NEW p \in Procs,
         \/ Finish(p) \/ Returned(p) \/ GaveUp(p) \/ Failed(p)
         \/ pc[p] = "recover" /\ RecoverNext(p)
  PROVE  Fits(p)
<1>1. CASE Finish(p)
  <2>1. Common(p, "idle", NoFrame)
    BY Commons DEF Common, NoFrame, WorkerLabels
  <2>2. QED
    BY <1>1, <2>1, PlainFit DEF Finish
<1>2. CASE RecoverNext(p) /\ (pc[p] = "recover" \/ loc[p].op = "recover")
  <2> DEFINE f == LoopFrame(loc[p].at)
  <2>1. Goto(p, "recover", f)
    BY <1>2 DEF RecoverNext, LoopFrame
  <2>2. f.at = loc[p].at /\ f.reason = "none"
    BY Known, LoopFrameType DEF Frame
  <2>3. loc[p].at <= now /\ ~(OneReporter /\ p \in Workers)
    BY <1>2, Commons DEF Common, WorkerLabels, CallLabels
  <2> HIDE DEF f
  <2>4. Common(p, "recover", f)
    BY <2>2, <2>3 DEF Common
  <2>5. QED
    BY <2>1, <2>4, PlainFit
<1>3. CASE Goto(p, "sweep", [NoFrame EXCEPT !.op = loc[p].op, !.todo = loc[p].todo])
  <2> DEFINE f == [NoFrame EXCEPT !.op = loc[p].op, !.todo = loc[p].todo]
  <2>1. f.at = 0 /\ f.op = loc[p].op /\ f.reason = "none"
    BY DEF NoFrame
  <2>2. Common(p, "sweep", f)
    BY <2>1, Commons DEF Common, WorkerLabels
  <2>3. QED
    BY <1>3, <2>2, PlainFit
<1>4. CASE Returned(p) \/ GaveUp(p) \/ Failed(p)
  BY <1>1, <1>2, <1>3, <1>4 DEF Returned, GaveUp, Failed
<1>5. QED
  BY <1>1, <1>2, <1>4

\* A handler that calls DisconnectSession
LEMMA CallFits ==
  ASSUME TokenInv, CopyInv, NEW p \in Procs, NEW s, NEW why, CallDisconnect(p, s, why),
         Told(why, s)
  PROVE  Fits(p)
<1> DEFINE f == CallFrame(loc[p], s, why)
<1>1. Goto(p, "dc_read", f)
  BY DEF CallDisconnect, CallFrame
<1>2. f.op = loc[p].op /\ f.at = loc[p].at /\ f.sid = s /\ f.reason = why
  BY DEF CallFrame, NoFrame
<1> HIDE DEF f
<1>3. Common(p, "dc_read", f)
  BY <1>2, Commons DEF Common, WorkerLabels, CallLabels
<1>4. QED
  BY <1>1, <1>2, <1>3, CallFit DEF CallLabels

\* The write of a copy
LEMMA CopyWrites ==
  ASSUME TypeOK, NEW p, NEW s \in Sessions, NEW row, UpdateSession(s, row), Copy(s, row),
         OneReporter /\ p \in Workers => row.status = "ended"
  PROVE  Writes(p)
BY DEF UpdateSession, Writes, TypeOK

\* The write of the row a handler carries
LEMMA CarriedWrites ==
  ASSUME TokenInv, CopyInv, NEW p \in Procs, pc[p] \in CopyLabels,
         UpdateSession(loc[p].sid, loc[p].ses)
  PROVE  Writes(p) /\ Copy(loc[p].sid, loc[p].ses)
<1>1. loc[p].sid \in Sessions
  BY Known DEF CopyLabels, SessionLabels, EndingLabels, QuotaLabels, UsageLabels
<1>2. /\ Copy(loc[p].sid, loc[p].ses)
      /\ OneReporter /\ p \in Workers => loc[p].ses.status = "ended"
  BY DEF CopyInv, FramesFit, FrameFit
<1>3. QED
  BY <1>1, <1>2, CopyWrites DEF TokenInv

\* The tasks that keep a reason told
LEMMA ToldQueues ==
  ASSUME TypeOK, NEW s, NEW why, NEW n \in Nat, Told(why, s),
         \/ Enqueue(s, why, n)
         \/ QueueRetry(s, why, n)
  PROVE  Queues
<1>1. CASE queue' = queue
  BY <1>1, Quietly
<1>2. ASSUME NEW m \in Nat, Enqueue(s, why, m)
      PROVE  Queues
  <2> SUFFICES ASSUME NEW r \in Sessions, NEW y \in EndReason, queue'[<<r, y>>] > 0
               PROVE  queue[<<r, y>>] > 0 \/ Told(y, r)
    BY DEF Queues
  <2>1. CASE <<r, y>> = <<s, why>>
    BY <2>1
  <2>2. CASE <<r, y>> # <<s, why>>
    BY <1>2, <2>2 DEF Enqueue, TypeOK, Payload
  <2>3. QED
    BY <2>1, <2>2
<1>3. QED
  BY <1>1, <1>2 DEF QueueRetry
------------------------------------------------------------------------------
(* The token service *)

\* A redeem or resume is no task
LEMMA NoTask ==
  ASSUME CopyInv, NEW p \in Procs, pc[p] \notin WorkerLabels
  PROVE  ~(OneReporter /\ p \in Workers)
BY DEF CopyInv, FramesFit, FrameFit

LEMMA InvalidTokenFits ==
  ASSUME TokenInv, CopyInv, NEW p \in Procs, pc[p] \in {"redeem", "locked"}, InvalidToken(p)
  PROVE  Fits(p)
<1>1. CASE Finish(p)
  BY <1>1, EndFits
<1>2. CASE Goto(p, "redeem", [loc[p] EXCEPT !.strict = FALSE, !.at = now, !.tok = AbsentToken])
  <2> DEFINE f == [loc[p] EXCEPT !.strict = FALSE, !.at = now, !.tok = AbsentToken]
  <2>0. Goto(p, "redeem", f)
    BY <1>2
  <2>1. f.at = now /\ f.sid = None /\ f.reason = "none"
    BY Known DEF Frame, CopyInv, FramesFit, FrameFit, CallLabels
  <2> HIDE DEF f
  <2>2. Common(p, "redeem", f)
    BY <2>1, NoTask, Commons DEF Common, WorkerLabels, CallLabels
  <2>3. QED
    BY <2>0, <2>1, <2>2, PlainFit
<1>3. QED
  BY <1>1, <1>2 DEF InvalidToken

LEMMA EnterKeeps ==
  ASSUME TokenInv, CopyInv, NEW p \in Procs, BeginRedeem(p), backlog' = backlog
  PROVE  Keeps(p)
<1>1. PICK op, r, strict : Enter(p, op, r, strict)
  BY DEF BeginRedeem, BeginPortal, BeginAuth
<1>2. PICK t \in Tokens, m \in Macs :
        Goto(p, "redeem", [NoFrame EXCEPT !.op = op, !.tid = t, !.mac = m, !.rid = r,
                                          !.at = now, !.strict = strict])
  BY <1>1, Zenon DEF Enter
<1> DEFINE f == [NoFrame EXCEPT !.op = op, !.tid = t, !.mac = m, !.rid = r,
                                !.at = now, !.strict = strict]
<1>3. f.at = now /\ f.sid = None /\ f.reason = "none" /\ p \notin Workers
  BY <1>1 DEF NoFrame, Enter, Arrives
<1>0. Goto(p, "redeem", f)
  BY <1>2
<1> HIDE DEF f
<1>4. Common(p, "redeem", f)
  BY <1>3, Commons
<1>5. Fits(p)
  BY <1>0, <1>3, <1>4, PlainFit
<1>6. QED
  BY <1>1, <1>5, Quietly DEF Enter, storeVars, gatewayVars, Keeps

LEMMA LockKeeps ==
  ASSUME TokenInv, CopyInv, NEW p \in Procs, RedeemLock(p), backlog' = backlog
  PROVE  Keeps(p)
<1> DEFINE f == [loc[p] EXCEPT !.tok = token[loc[p].tid], !.at = LockedAt(p)]
<1>1. Goto(p, "locked", f) /\ session' = session /\ queue' = queue /\ pc[p] = "redeem"
  BY DEF RedeemLock, gatewayVars
<1>2. f.at <= now /\ f.sid = None /\ f.reason = "none"
  <2>1. f.at = LockedAt(p) /\ f.sid = loc[p].sid /\ f.reason = loc[p].reason
    BY Known DEF Frame
  <2>2. loc[p].sid = None /\ loc[p].reason = "none"
    BY <1>1 DEF CopyInv, FramesFit, FrameFit, CallLabels
  <2>3. QED
    BY <2>1, <2>2, Commons DEF LockedAt, Common
<1>3. Common(p, "locked", f)
  BY <1>1, <1>2, NoTask DEF Common, WorkerLabels, CallLabels
<1>4. QED
  BY <1>1, <1>2, <1>3, PlainFit, Quietly DEF Keeps

LEMMA FindKeeps ==
  ASSUME TokenInv, CopyInv, NEW p \in Procs, ResumeFind(p), backlog' = backlog
  PROVE  Keeps(p)
<1>1. pc[p] = "locked" /\ session' = session /\ queue' = queue
  BY DEF ResumeFind, Holds, storeVars, gatewayVars
<1>2. /\ loc[p] \in Frame /\ loc[p].at <= now /\ ~(OneReporter /\ p \in Workers)
      /\ loc[p].tid \in Tokens
  BY <1>1, Known, Commons, NoTask, InTx DEF Common, WorkerLabels, CallLabels, TxLabels
<1>3. CASE Goto(p, "found", loc[p])
  <2>1. loc[p].sid = None /\ loc[p].reason = "none"
    BY <1>1 DEF CopyInv, FramesFit, FrameFit, CallLabels
  <2>2. Fits(p)
    BY <1>2, <1>3, <2>1, RowFit DEF Common
  <2>3. QED
    BY <1>1, <2>2, Quietly DEF Keeps
<1>4. ASSUME NEW s \in GetActiveSessionByToken(loc[p].tid),
             Goto(p, "found", [loc[p] EXCEPT !.sid = s, !.ses = session[s]])
      PROVE  Keeps(p)
  <2> DEFINE row == session[s]
             f   == [loc[p] EXCEPT !.sid = s, !.ses = row]
  <2>1. Copy(s, row)
    BY <1>2, ActiveFound, StoredCopy
  <2>2. f.sid = s /\ f.ses = row /\ f.at = loc[p].at /\ f.reason = "none"
    BY <1>1, <1>2 DEF Frame, CopyInv, FramesFit, FrameFit, CallLabels
  <2>3. Common(p, "found", f) /\ Copy(f.sid, f.ses)
    BY <1>2, <2>1, <2>2 DEF Common
  <2>4. Goto(p, "found", f)
    BY <1>4
  <2> HIDE DEF f
  <2>5. Fits(p)
    BY <1>2, <2>3, <2>4, RowFit
  <2>6. QED
    BY <1>1, <2>5, Quietly DEF Keeps
<1>5. QED
  BY <1>3, <1>4, Zenon DEF ResumeFind
LEMMA RefusedKeeps ==
  ASSUME TokenInv, CopyInv, NEW p \in Procs, backlog' = backlog,
         \/ RedeemUnknown(p) \/ ResumeUnused(p) \/ RedeemRefused(p)
         \/ RedeemExpired(p) \/ RedeemExpiredKept(p)
  PROVE  Keeps(p)
<1>1. CASE RedeemUnknown(p) \/ ResumeUnused(p)
  <2>1. Fits(p)
    BY <1>1, InvalidTokenFits DEF RedeemUnknown, ResumeUnused, Holds
  <2>2. session' = session /\ queue' = queue
    BY <1>1 DEF RedeemUnknown, ResumeUnused, storeVars, gatewayVars
  <2>3. QED
    BY <2>1, <2>2, Quietly DEF Keeps
<1>2. CASE RedeemRefused(p)
  <2>1. Fits(p)
    BY <1>2, EndFits DEF RedeemRefused
  <2>2. session' = session /\ queue' = queue
    BY <1>2 DEF RedeemRefused, gatewayVars
  <2>3. QED
    BY <2>1, <2>2, Quietly DEF Keeps
<1>3. ASSUME RedeemExpired(p) \/ RedeemExpiredKept(p)
      PROVE  Fits(p) /\ Queues /\ Lists
  <2>1. Fits(p)
    BY <1>3, EndFits DEF RedeemExpired, RedeemExpiredKept
  <2>2. queue' = queue \/ \E s : QueueRetry(s, "expired", 0)
    BY <1>3 DEF RedeemExpired, RedeemExpiredKept, CutsExpired, gatewayVars
  <2>3. QED
    BY <2>1, <2>2, Quietly, ToldQueues, PlainReasons DEF TokenInv
<1>4. CASE RedeemExpired(p)
  BY <1>3, <1>4, Quietly DEF RedeemExpired, Keeps
<1>5. CASE RedeemExpiredKept(p)
  <2>1. pc[p] \in TxLabels /\ ~(OneReporter /\ p \in Workers)
    BY <1>5, NoTask DEF RedeemExpiredKept, Expires, TxLabels, WorkerLabels, CallLabels
  <2>2. ASSUME NEW s \in GetActiveSessionByToken(loc[p].tid), NEW b,
               UpdateSession(s, EndedSession(session[s], "expired", b))
        PROVE  Writes(p)
    <3>1. s \in Sessions /\ session[s] \in SessionRow /\ Copy(s, session[s])
      BY <2>1, InTx, ActiveFound, StoredCopy
    <3>2. Copy(s, EndedSession(session[s], "expired", b))
      BY <3>1, CopyRows, PlainReasons
    <3>3. QED
      BY <2>1, <2>2, <3>1, <3>2, CopyWrites DEF TokenInv
  <2>3. Writes(p)
    BY <1>5, <2>2, Quietly DEF RedeemExpiredKept
  <2>4. QED
    BY <1>3, <1>5, <2>3 DEF Keeps
<1>6. QED
  BY <1>1, <1>2, <1>4, <1>5

\* A new session of a token that is active by then
LEMMA OpenedWrites ==
  ASSUME TokenInv, NEW p \in Procs, pc[p] \in TxLabels,
         NEW s \in Sessions, CreateSession(p, s, Opened(p)),
         NEW t \in Tokens, t = loc[p].tid, Begun(t)'
  PROVE  Writes(p)
<1> DEFINE row == Opened(p)
<1>1. session[s].status = "absent" /\ session' = [session EXCEPT ![s] = row]
  BY DEF CreateSession
<1>2. row.tok = t /\ row.status # "absent" /\ row.reason = "none" /\ row.bytes = 0
  BY DEF Opened, NewSession, AbsentSession
<1> HIDE DEF row
<1>3. session'[s] = row /\ \A r \in Sessions : r # s => session'[r] = session[r]
  BY <1>1 DEF TokenInv, TypeOK
<1>4. Opens(s)
  BY <1>1, <1>2, <1>3 DEF Opens, Begun
<1>5. QED
  BY <1>3, <1>4 DEF Writes

LEMMA AdmitKeeps ==
  ASSUME TokenInv, CopyInv, NEW p \in Procs, backlog' = backlog,
         RedeemActivate(p) \/ ResumeAttach(p) \/ ResumeReopen(p)
  PROVE  Keeps(p)
<1>0. PICK t : t = loc[p].tid
  OBVIOUS
<1>1. /\ pc[p] \in TxLabels /\ ~(OneReporter /\ p \in Workers)
      /\ Fits(p) /\ queue' = queue
  BY NoTask, EndFits DEF RedeemActivate, ResumeAttach, ResumeReopen, Holds, TxLabels,
                         WorkerLabels, CallLabels
<1>2. CASE RedeemActivate(p) \/ ResumeReopen(p)
  <2>1. t \in Tokens /\ Begun(t)'
    BY <1>0, <1>2, Activation, Resumption DEF Begun
  <2>2. \E s \in Sessions : CreateSession(p, s, Opened(p))
    BY <1>2 DEF RedeemActivate, ResumeReopen
  <2>3. QED
    BY <1>0, <1>1, <2>1, <2>2, OpenedWrites, Quietly DEF Keeps
<1>3. CASE ResumeAttach(p)
  <2>1. pc[p] = "found" /\ loc[p].sid # None
    BY <1>3 DEF ResumeAttach
  <2>2. loc[p].sid \in Sessions /\ loc[p].ses \in SessionRow /\ Copy(loc[p].sid, loc[p].ses)
    BY <2>1, Known DEF Frame, CopyInv, FramesFit, FrameFit
  <2>3. Copy(loc[p].sid, Attached(loc[p].ses, loc[p].rid))
    BY <2>2, CopyRows
  <2>4. Writes(p)
    BY <1>1, <1>3, <2>2, <2>3, CopyWrites DEF ResumeAttach, TokenInv
  <2>5. QED
    BY <1>1, <2>4, Quietly DEF Keeps
<1>4. QED
  BY <1>2, <1>3
\* The look-up that a revocation or a sweep ends a session with
LEMMA EndFound ==
  ASSUME TokenInv, CopyInv, NEW p \in Procs, NEW t \in Tokens,
         NEW s \in GetActiveSessionByToken(t), NEW l \in {"revoke_end", "sweep_end"},
         NEW why \in {"revoked", "expired"}, pc[p] \notin CallLabels,
         Goto(p, l, [loc[p] EXCEPT !.sid = s, !.ses = EndedSession(session[s], why, TRUE)]),
         OneReporter /\ p \in Workers => l = "sweep_end"
  PROVE  Fits(p)
<1> DEFINE row == EndedSession(session[s], why, TRUE)
           f   == [loc[p] EXCEPT !.sid = s, !.ses = row]
<1>1. Copy(s, row) /\ row.status = "ended"
  <2>1. s \in Sessions /\ session[s] \in SessionRow /\ Copy(s, session[s])
    BY ActiveFound, StoredCopy
  <2>2. Just(why, session[s].tok)
    BY PlainReasons
  <2>3. \A b : LET r == EndedSession(session[s], why, b) IN Copy(s, r) /\ r.status = "ended"
    BY <2>1, <2>2, CopyRows, EndedRows
  <2>4. QED
    BY <2>3, Zenon
<1>2. /\ f.sid = s /\ f.ses = row /\ f.at = loc[p].at /\ f.op = loc[p].op
      /\ f.reason = loc[p].reason
  BY Known DEF Frame
<1>3. Goto(p, l, f)
  OBVIOUS
<1> HIDE DEF f, row
<1>4. Common(p, l, f)
  BY <1>2, Commons DEF Common, WorkerLabels
<1>5. QED
  BY <1>1, <1>2, <1>3, <1>4, RowFit

LEMMA RevokeKeeps ==
  ASSUME TokenInv, CopyInv, NEW p \in Procs, backlog' = backlog,
         RevokeRead(p) \/ RevokeWrite(p) \/ RevokeFind(p) \/ RevokeEnd(p)
  PROVE  Keeps(p)
<1>0. queue' = queue
  BY DEF RevokeRead, RevokeWrite, RevokeFind, RevokeEnd, gatewayVars
<1>1. CASE RevokeRead(p)
  <2>1. PICK t \in Tokens :
          Goto(p, "revoke_write", [NoFrame EXCEPT !.op = "revoke", !.tid = t,
                                                  !.tok = Closed(token[t], "revoked")])
    BY <1>1, Zenon DEF RevokeRead
  <2> DEFINE f == [NoFrame EXCEPT !.op = "revoke", !.tid = t,
                                  !.tok = Closed(token[t], "revoked")]
  <2>2. f.at = 0 /\ f.reason = "none" /\ p \notin Workers /\ session' = session
    BY <1>1 DEF NoFrame, RevokeRead, Arrives, storeVars
  <2>3. Goto(p, "revoke_write", f)
    BY <2>1
  <2> HIDE DEF f
  <2>4. Common(p, "revoke_write", f)
    BY <2>2, Commons
  <2>5. QED
    BY <1>0, <2>2, <2>3, <2>4, PlainFit, Quietly DEF Keeps
<1>2. CASE RevokeWrite(p)
  <2> DEFINE f == [loc[p] EXCEPT !.tok = AbsentToken]
  <2>1. Goto(p, "revoke_find", f) /\ session' = session /\ pc[p] = "revoke_write"
    BY <1>2 DEF RevokeWrite
  <2>2. f.at = loc[p].at /\ f.reason = loc[p].reason
    BY Known DEF Frame
  <2> HIDE DEF f
  <2>3. Common(p, "revoke_find", f)
    BY <2>1, <2>2, Commons DEF Common, WorkerLabels, CallLabels
  <2>4. QED
    BY <1>0, <2>1, <2>3, PlainFit, Quietly DEF Keeps
<1>3. CASE RevokeFind(p)
  <2>1. /\ loc[p].tid \in Tokens /\ ~(OneReporter /\ p \in Workers) /\ session' = session
        /\ pc[p] \notin CallLabels
    BY <1>3, Known, NoTask
    DEF RevokeFind, FrameOK, TokenLabels, WorkerLabels, CallLabels, storeVars
  <2>2. Fits(p)
    BY <1>3, <2>1, EndFound, EndFits, Zenon DEF RevokeFind
  <2>3. QED
    BY <1>0, <2>1, <2>2, Quietly DEF Keeps
<1>4. CASE RevokeEnd(p)
  <2>1. /\ pc[p] \in CopyLabels /\ UpdateSession(loc[p].sid, loc[p].ses)
        /\ CallDisconnect(p, loc[p].sid, "revoked")
    BY <1>4 DEF RevokeEnd, CopyLabels, EndingLabels
  <2>2. QED
    BY <1>0, <2>1, CarriedWrites, CallFits, PlainReasons, Quietly DEF Keeps
<1>5. QED
  BY <1>1, <1>2, <1>3, <1>4

LEMMA SweepKeeps ==
  ASSUME TokenInv, CopyInv, NEW p \in Procs, backlog' = backlog,
         SweepList(p) \/ SweepExpire(p) \/ SweepFind(p) \/ SweepEnd(p)
  PROVE  Keeps(p)
<1>0. queue' = queue
  BY DEF SweepList, SweepExpire, SweepFind, SweepEnd, gatewayVars
<1>1. CASE SweepList(p)
  <2>1. PICK due :
          Goto(p, "sweep", [NoFrame EXCEPT !.op = "sweep", !.todo = due])
    BY <1>1, Zenon DEF SweepList
  <2> DEFINE f == [NoFrame EXCEPT !.op = "sweep", !.todo = due]
  <2>2. f.at = 0 /\ f.op = "sweep" /\ f.reason = "none" /\ session' = session
    BY <1>1 DEF NoFrame, SweepList, storeVars
  <2>3. Goto(p, "sweep", f)
    BY <2>1
  <2> HIDE DEF f
  <2>4. Common(p, "sweep", f)
    BY <2>2, Commons DEF Common, WorkerLabels
  <2>5. QED
    BY <1>0, <2>2, <2>3, <2>4, PlainFit, Quietly DEF Keeps
<1>2. CASE SweepExpire(p)
  <2>1. PICK d : Goto(p, "sweep_find", [loc[p] EXCEPT !.tid = d[1], !.todo = @ \ {d}])
    BY <1>2, Zenon DEF SweepExpire
  <2> DEFINE f == [loc[p] EXCEPT !.tid = d[1], !.todo = @ \ {d}]
  <2>2. /\ f.at = loc[p].at /\ f.op = loc[p].op /\ f.reason = loc[p].reason
        /\ session' = session /\ pc[p] = "sweep"
    BY <1>2, Known DEF Frame, SweepExpire
  <2>3. Goto(p, "sweep_find", f)
    BY <2>1
  <2> HIDE DEF f
  <2>4. Common(p, "sweep_find", f)
    BY <2>2, Commons DEF Common, WorkerLabels, CallLabels
  <2>5. QED
    BY <1>0, <2>2, <2>3, <2>4, PlainFit, Quietly DEF Keeps
<1>3. CASE SweepFind(p)
  <2>1. loc[p].tid \in Tokens /\ session' = session /\ pc[p] \notin CallLabels
    BY <1>3, Known DEF SweepFind, FrameOK, TokenLabels, CallLabels, storeVars
  <2>2. Fits(p)
    BY <1>3, <2>1, EndFound, EndFits, Zenon DEF SweepFind
  <2>3. QED
    BY <1>0, <2>1, <2>2, Quietly DEF Keeps
<1>4. CASE SweepEnd(p)
  <2>1. /\ pc[p] \in CopyLabels /\ UpdateSession(loc[p].sid, loc[p].ses)
        /\ CallDisconnect(p, loc[p].sid, "expired")
    BY <1>4 DEF SweepEnd, CopyLabels, EndingLabels
  <2>2. QED
    BY <1>0, <2>1, CarriedWrites, CallFits, PlainReasons, Quietly DEF Keeps
<1>5. QED
  BY <1>1, <1>2, <1>3, <1>4
------------------------------------------------------------------------------
(* DisconnectSession *)

LEMMA GatewayBeginKeeps ==
  ASSUME TokenInv, CopyInv, NEW p \in Procs, GatewayBegin(p), backlog' = backlog
  PROVE  Keeps(p)
<1>1. CASE BeginDisconnect(p)
  <2>1. PICK s \in Sessions, force \in BOOLEAN :
          Goto(p, "dc_read", [NoFrame EXCEPT !.op = "disconnect", !.sid = s,
                                             !.reason = "disconnect", !.flag = force])
    BY <1>1, Zenon DEF BeginDisconnect
  <2> DEFINE f == [NoFrame EXCEPT !.op = "disconnect", !.sid = s,
                                  !.reason = "disconnect", !.flag = force]
  <2>2. /\ f.at = 0 /\ f.reason = "disconnect" /\ p \notin Workers
        /\ session' = session /\ queue' = queue
    BY <1>1 DEF NoFrame, BeginDisconnect, Arrives, storeVars, gatewayVars
  <2>3. Goto(p, "dc_read", f)
    BY <2>1
  <2> HIDE DEF f
  <2>4. Common(p, "dc_read", f) /\ Told(f.reason, f.sid)
    BY <2>2, Commons, PlainReasons DEF CallLabels
  <2>5. QED
    BY <2>2, <2>3, <2>4, CallFit, Quietly DEF Keeps, CallLabels
<1>2. CASE BeginRetry(p)
  <2>1. PICK d \in Payload :
          /\ queue[d] > 0
          /\ queue' = [queue EXCEPT ![d] = @ - 1]
          /\ Goto(p, "dc_read", [NoFrame EXCEPT !.op = "retry", !.sid = d[1],
                                                !.reason = d[2], !.flag = TRUE])
    BY <1>2, Zenon DEF BeginRetry
  <2> DEFINE f == [NoFrame EXCEPT !.op = "retry", !.sid = d[1], !.reason = d[2],
                                  !.flag = TRUE]
  <2>2. /\ f.at = 0 /\ f.op = "retry" /\ f.sid = d[1] /\ f.reason = d[2]
        /\ session' = session
    BY <1>2 DEF NoFrame, BeginRetry, storeVars
  <2>3. Goto(p, "dc_read", f)
    BY <2>1
  <2> HIDE DEF f
  <2>4. Told(d[2], d[1])
    BY <2>1 DEF CopyInv, QueueFit, Payload
  <2>5. Common(p, "dc_read", f)
    BY <2>2, Commons DEF Common, CallLabels, WorkerLabels
  <2>6. Queues
    <3> SUFFICES ASSUME NEW s \in Sessions, NEW why \in EndReason, queue'[<<s, why>>] > 0
                 PROVE  queue[<<s, why>>] > 0
      BY DEF Queues
    <3>1. CASE <<s, why>> = d
      BY <2>1, <3>1
    <3>2. CASE <<s, why>> # d
      BY <2>1, <3>2 DEF TokenInv, TypeOK, Payload
    <3>3. QED
      BY <3>1, <3>2
  <2>7. QED
    BY <2>2, <2>3, <2>4, <2>5, <2>6, CallFit, Quietly DEF Keeps, CallLabels
<1>3. QED
  BY <1>1, <1>2 DEF GatewayBegin

LEMMA DisconnectReadKeeps ==
  ASSUME TokenInv, CopyInv, NEW p \in Procs, DisconnectRead(p), backlog' = backlog
  PROVE  Keeps(p)
<1> DEFINE row == session[loc[p].sid]
<1>1. /\ session' = session /\ pc[p] = "dc_read" /\ loc[p].sid \in Sessions
      /\ loc[p] \in Frame /\ Told(loc[p].reason, loc[p].sid) /\ Common(p, pc[p], loc[p])
  BY Known, Commons DEF DisconnectRead, storeVars, SessionLabels, CopyInv, FramesFit, FrameFit,
                        CallLabels
<1>2. CASE Failed(p)
  <2>1. loc[p].reason \in EndReason
    BY <1>1 DEF Frame
  <2>2. Queues
    BY <1>1, <1>2, ToldQueues, Quietly DEF Failed, TokenInv
  <2>3. QED
    BY <1>1, <1>2, <2>2, EndFits, Quietly DEF Keeps
<1>3. CASE Returned(p) /\ queue' = queue
  BY <1>1, <1>3, EndFits, Quietly DEF Keeps
<1>4. CASE /\ row.status # "absent" /\ queue' = queue
           /\ Goto(p, "dc_mark", [loc[p] EXCEPT !.ses = Marked(row, loc[p].reason)])
  <2> DEFINE f == [loc[p] EXCEPT !.ses = Marked(row, loc[p].reason)]
  <2>1. Goto(p, "dc_mark", f)
    BY <1>4
  <2>2. /\ f.sid = loc[p].sid /\ f.ses = Marked(row, loc[p].reason) /\ f.at = loc[p].at
        /\ f.op = loc[p].op /\ f.reason = loc[p].reason
    BY <1>1 DEF Frame
  <2>3. Just(loc[p].reason, row.tok)
    BY <1>1, <1>4 DEF Told, Just
  <2>4. row \in SessionRow /\ Copy(loc[p].sid, row)
    BY <1>1, <1>4, StoredCopy DEF TokenInv, TypeOK
  <2> HIDE DEF row, f
  <2>5. Copy(loc[p].sid, Marked(row, loc[p].reason))
    BY <2>3, <2>4, CopyRows
  <2>6. Marked(row, loc[p].reason).status = "ended"
    BY <2>4, EndedRows DEF Marked
  <2>7. Common(p, "dc_mark", f)
    BY <1>1, <2>2 DEF Common, CallLabels, WorkerLabels
  <2>8. QED
    BY <1>1, <1>4, <2>1, <2>2, <2>5, <2>6, <2>7, CallFit, Quietly DEF Keeps, CallLabels
<1>5. QED
  BY <1>2, <1>3, <1>4 DEF DisconnectRead

LEMMA GatewayWriteKeeps ==
  ASSUME TokenInv, CopyInv, NEW p \in Procs, DisconnectMark(p) \/ DisconnectClear(p),
         backlog' = backlog
  PROVE  Keeps(p)
<1>1. /\ pc[p] \in CopyLabels \cap CallLabels /\ UpdateSession(loc[p].sid, loc[p].ses)
      /\ queue' = queue
  BY DEF DisconnectMark, DisconnectClear, CopyLabels, EndingLabels, CallLabels, gatewayVars
<1>2. CASE Goto(p, "dc_call", loc[p])
  <2>1. FrameFit(p, pc[p], loc[p])
    BY DEF CopyInv, FramesFit
  <2>2. Common(p, "dc_call", loc[p])
    BY <1>1, Commons DEF Common, CallLabels, WorkerLabels
  <2>3. Fits(p)
    BY <1>1, <1>2, <2>1, <2>2, CallFit DEF FrameFit, CallLabels
  <2>4. QED
    BY <1>1, <2>3, CarriedWrites, Quietly DEF Keeps
<1>3. CASE Returned(p)
  BY <1>1, <1>3, EndFits, CarriedWrites, Quietly DEF Keeps
<1>4. QED
  BY <1>2, <1>3 DEF DisconnectMark, DisconnectClear

LEMMA ControllerKeeps ==
  ASSUME TokenInv, CopyInv, NEW p \in Procs, ControllerStep(p), backlog' = backlog
  PROVE  Keeps(p)
<1>1. /\ pc[p] = "dc_call" /\ session' = session /\ loc[p] \in Frame
      /\ Told(loc[p].reason, loc[p].sid) /\ Common(p, pc[p], loc[p])
      /\ Copy(loc[p].sid, loc[p].ses)
      /\ OneReporter /\ p \in Workers => loc[p].ses.status = "ended"
  BY Known, Commons DEF ControllerStep, GatewayAck, GatewayFail, storeVars, CopyInv, FramesFit,
                        FrameFit, CallLabels, CopyLabels, EndingLabels
<1>2. CASE GatewayAck(p)
  <2> DEFINE row == loc[p].ses
             f   == [loc[p] EXCEPT !.ses = Pending(row, FALSE)]
  <2>1. Goto(p, "dc_clear", f)
    BY <1>2 DEF GatewayAck
  <2>2. /\ f.sid = loc[p].sid /\ f.ses = Pending(row, FALSE) /\ f.at = loc[p].at
        /\ f.op = loc[p].op /\ f.reason = loc[p].reason
    BY <1>1 DEF Frame
  <2>3. row \in SessionRow
    BY <1>1 DEF Frame
  <2> HIDE DEF f
  <2>4. \A b : Copy(loc[p].sid, Pending(row, b)) /\ Pending(row, b).status = row.status
    BY <1>1, <2>3, CopyRows, RowColumns
  <2>5. /\ Copy(f.sid, f.ses)
        /\ OneReporter /\ p \in Workers => f.ses.status = "ended"
    BY <1>1, <2>2, <2>4, Zenon
  <2>6. Common(p, "dc_clear", f)
    BY <1>1, <2>2 DEF Common, CallLabels, WorkerLabels
  <2>7. Fits(p)
    BY <1>1, <2>1, <2>2, <2>5, <2>6, CallFit DEF CallLabels
  <2>8. QED
    BY <1>1, <1>2, <2>7, Quietly DEF Keeps, GatewayAck
<1>3. CASE GatewayFail(p)
  <2>1. Fits(p)
    BY <1>3, EndFits DEF GatewayFail
  <2>2. PICK n \in {0, 1} : QueueRetry(loc[p].sid, loc[p].reason, n)
    BY <1>3 DEF GatewayFail
  <2>3. QED
    BY <1>1, <2>1, <2>2, ToldQueues, Quietly DEF Keeps, TokenInv
<1>4. QED
  BY <1>2, <1>3 DEF ControllerStep
------------------------------------------------------------------------------
(* The recovery *)

LEMMA RecoverListKeeps ==
  ASSUME TokenInv, CopyInv, NEW p \in Procs, RecoverList(p)
  PROVE  Keeps(p)
<1> DEFINE f == LoopFrame(now)
<1>1. /\ session' = session /\ queue' = queue /\ p \notin Workers
      /\ Goto(p, "recover", f)
      /\ \E S \in SUBSET Sessions :
           /\ \A s \in S : session[s].status = "active"
           /\ backlog' = [backlog EXCEPT ![p] = {<<s, session[s]>> : s \in S}]
  BY DEF RecoverList, LoopFrame, storeVars, gatewayVars, Arrives
<1>2. f.at = now /\ f.reason = "none"
  BY LoopFrameType, Commons
<1> HIDE DEF f
<1>3. Common(p, "recover", f)
  BY <1>1, <1>2, Commons
<1>4. Lists
  <2> SUFFICES ASSUME NEW q \in Procs, NEW d \in backlog'[q]
               PROVE  d \in backlog[q] \/ Copy(d[1], d[2])
    BY DEF Lists
  <2>1. CASE q # p
    BY <1>1, <2>1 DEF TokenInv, TypeOK
  <2>2. CASE q = p
    <3>1. PICK s \in Sessions : d = <<s, session[s]>> /\ session[s].status = "active"
      BY <1>1, <2>2 DEF TokenInv, TypeOK
    <3>2. Copy(s, session[s])
      BY <3>1, StoredCopy
    <3>3. QED
      BY <3>1, <3>2
  <2>3. QED
    BY <2>1, <2>2
<1>5. QED
  BY <1>1, <1>3, <1>4, PlainFit, Quietly DEF Keeps

\* A token that was activated and whose row has been left over is late
LEMMA LeftoverLate ==
  ASSUME TypeOK, NEW t \in Tokens, Begun(t), NEW k \in Nat, k <= now, Leftover(token[t], k)
  PROVE  Late(t)
<1>1. token[t].expires \in Nat /\ token[t].status \in TokenStatus /\ now \in Nat
  BY DEF TypeOK, TokenRow
<1>2. QED
  BY <1>1 DEF Leftover, Late, Overdue, Begun, Terminal, TokenStatus

LEMMA RecoverReadKeeps ==
  ASSUME TokenInv, CopyInv, NEW p \in Procs, RecoverRead(p)
  PROVE  Keeps(p)
<1>1. /\ pc[p] = "recover" /\ session' = session /\ queue' = queue
      /\ loc[p] \in Frame /\ loc[p].at \in Nat /\ Common(p, pc[p], loc[p])
      /\ ~(OneReporter /\ p \in Workers)
  BY Known, Commons, NoTask DEF RecoverRead, storeVars, gatewayVars, Frame, WorkerLabels,
                                CallLabels
<1>2. PICK d \in backlog[p] :
        /\ backlog' = [backlog EXCEPT ![p] = @ \ {d}]
        /\ IF Leftover(token[d[2].tok], loc[p].at)
           THEN Goto(p, "recover_end",
                     [loc[p] EXCEPT !.sid = d[1],
                                    !.ses = EndedSession(d[2], "recovered_closed", TRUE)])
           ELSE RecoverNext(p)
  BY Zenon DEF RecoverRead
<1>3. Lists
  BY <1>2 DEF Lists, TokenInv, TypeOK
<1>4. CASE RecoverNext(p)
  BY <1>1, <1>3, <1>4, EndFits, Quietly DEF Keeps
<1>5. CASE /\ Leftover(token[d[2].tok], loc[p].at)
           /\ Goto(p, "recover_end",
                   [loc[p] EXCEPT !.sid = d[1],
                                  !.ses = EndedSession(d[2], "recovered_closed", TRUE)])
  <2> DEFINE row == EndedSession(d[2], "recovered_closed", TRUE)
             f   == [loc[p] EXCEPT !.sid = d[1], !.ses = row]
  <2>1. Goto(p, "recover_end", f)
    BY <1>5
  <2>2. f.sid = d[1] /\ f.ses = row /\ f.at = loc[p].at /\ f.reason = loc[p].reason
    BY <1>1 DEF Frame
  <2>3. PICK s \in Sessions, r \in SessionRow : d[1] = s /\ d[2] = r
    BY DEF TokenInv, TypeOK
  <2>4. Copy(s, r) /\ session[s].status # "absent" /\ r.tok = session[s].tok
    BY <2>3 DEF CopyInv, BacklogFit, Copy
  <2>5. PICK t \in Tokens : t = r.tok
    BY <2>4, FoundRow
  <2>6. "start" \notin Ops => Begun(t)
    BY <2>4, <2>5 DEF CopyInv, SessionsBegun
  <2>7. "start" \notin Ops => Late(t)
    BY <1>1, <1>5, <2>3, <2>5, <2>6, LeftoverLate DEF Common, TokenInv
  <2>8. Just("recovered_closed", r.tok)
    BY <2>5, <2>7 DEF Just
  <2>9. \A b : LET e == EndedSession(r, "recovered_closed", b) IN
                 Copy(s, e) /\ e.status = "ended" /\ e.reason = "recovered_closed"
    BY <2>4, <2>8, CopyRows, RowColumns
  <2>10. row = EndedSession(r, "recovered_closed", TRUE)
    BY <2>3
  <2> HIDE DEF f, row
  <2>11. Copy(s, row) /\ row.status = "ended" /\ row.reason = "recovered_closed"
    BY <2>9, <2>10, Zenon
  <2>12. Common(p, "recover_end", f)
    BY <1>1, <2>2 DEF Common, CallLabels
  <2>13. Fits(p)
    BY <2>1, <2>2, <2>3, <2>11, <2>12, RowFit
  <2>14. QED
    BY <1>1, <1>3, <2>13, Quietly DEF Keeps
<1>6. QED
  BY <1>2, <1>4, <1>5

LEMMA RecoveryKeeps ==
  ASSUME TokenInv, CopyInv, NEW p \in Procs, RecoveryStep(p)
  PROVE  Keeps(p)
<1>1. CASE RecoverEnd(p)
  <2>1. /\ pc[p] = "recover_end" /\ pc[p] \in CopyLabels /\ pc[p] \in SessionLabels
        /\ UpdateSession(loc[p].sid, loc[p].ses)
        /\ CallDisconnect(p, loc[p].sid, "recovered_closed")
        /\ queue' = queue /\ backlog' = backlog
    BY <1>1 DEF RecoverEnd, CopyLabels, EndingLabels, SessionLabels, gatewayVars
  <2>2. Writes(p) /\ Copy(loc[p].sid, loc[p].ses)
    BY <2>1, CarriedWrites
  <2>3. loc[p].ses.reason = "recovered_closed"
    BY <2>1 DEF CopyInv, FramesFit, FrameFit
  <2>4. Told("recovered_closed", loc[p].sid)
    BY <2>2, <2>3 DEF Told, Copy, Fit
  <2>5. QED
    BY <2>1, <2>2, <2>4, CallFits, Quietly DEF Keeps
<1>2. CASE RecoverDone(p)
  BY <1>2, EndFits, Quietly DEF RecoverDone, Keeps, storeVars, gatewayVars
<1>3. QED
  BY <1>1, <1>2, RecoverReadKeeps DEF RecoveryStep
------------------------------------------------------------------------------
(* Accounting *)

LEMMA StartFindKeeps ==
  ASSUME TokenInv, CopyInv, NEW p \in Procs, StartFind(p), backlog' = backlog
  PROVE  Keeps(p)
<1>1. PICK t \in Tokens, m \in Macs, r \in RadiusIds \cup {None}, flag \in BOOLEAN :
        LET f == [NoFrame EXCEPT !.op = "start", !.tid = t, !.mac = m, !.rid = r,
                                 !.at = now, !.flag = flag]
            S == GetActiveSessionByToken(t)
        IN /\ token[t].status # "absent"
           /\ \/ S = {} /\ Goto(p, "start_create", f) /\ UNCHANGED faults
              \/ S # {} /\ StoreFails /\ Goto(p, "start_create", f)
              \/ \E s \in S :
                   /\ Goto(p, "start_save",
                           [f EXCEPT !.sid = s,
                                     !.ses = Pending(Attached(session[s], r), flag)])
                   /\ UNCHANGED faults
  BY DEF StartFind
<1> DEFINE f == [NoFrame EXCEPT !.op = "start", !.tid = t, !.mac = m, !.rid = r,
                                !.at = now, !.flag = flag]
<1>2. /\ session' = session /\ queue' = queue /\ p \notin Workers /\ "start" \in Ops
      /\ f.at = now /\ f.reason = "none"
  <2>1. f.at = now /\ f.reason = "none"
    BY DEF NoFrame
  <2> HIDE DEF f
  <2>2. QED
    BY <2>1 DEF StartFind, Arrives, storeVars, gatewayVars
<1>3. CASE Goto(p, "start_create", f)
  <2>1. Goto(p, "start_create", f)
    BY <1>3
  <2> HIDE DEF f
  <2>2. FrameFit(p, "start_create", f)
    BY <1>2, Commons DEF FrameFit, CopyLabels, CallLabels, QuotaLabels, EndingLabels,
                         UsageLabels
  <2>3. QED
    BY <1>2, <2>1, <2>2, Quietly DEF Keeps, Fits
<1>4. ASSUME NEW s \in GetActiveSessionByToken(t),
             Goto(p, "start_save",
                  [f EXCEPT !.sid = s, !.ses = Pending(Attached(session[s], r), flag)])
      PROVE  Keeps(p)
  <2> DEFINE old == session[s]
             row == Attached(old, r)
             g   == [f EXCEPT !.sid = s, !.ses = Pending(row, flag)]
  <2>1. Goto(p, "start_save", g)
    BY <1>4
  <2>2. g.sid = s /\ g.ses = Pending(row, flag) /\ g.at = f.at /\ g.reason = f.reason
    BY DEF NoFrame
  <2>3. old \in SessionRow /\ Copy(s, old)
    BY ActiveFound, StoredCopy
  <2> HIDE DEF old, f, g
  <2>4. row \in SessionRow /\ Copy(s, row)
    BY <2>3, SessionRows, CopyRows
  <2> HIDE DEF row
  <2>5. Copy(s, Pending(row, flag))
    BY <2>4, CopyRows
  <2>6. Common(p, "start_save", g)
    BY <1>2, <2>2, Commons
  <2>7. Fits(p)
    BY <1>2, <2>1, <2>2, <2>5, <2>6, RowFit
  <2>8. QED
    BY <1>2, <2>7, Quietly DEF Keeps
<1>5. QED
  BY <1>1, <1>3, <1>4, Zenon

LEMMA StartKeeps ==
  ASSUME TokenInv, CopyInv, NEW p \in Procs, StartSave(p) \/ StartCreate(p) \/ AcctTouch(p),
         backlog' = backlog
  PROVE  Keeps(p)
<1>1. Fits(p) /\ queue' = queue
  BY EndFits DEF StartSave, StartCreate, AcctTouch, gatewayVars
<1>2. CASE StartSave(p) \/ AcctTouch(p)
  <2>1. pc[p] \in CopyLabels /\ UpdateSession(loc[p].sid, loc[p].ses)
    BY <1>2 DEF StartSave, AcctTouch, CopyLabels
  <2>2. QED
    BY <1>1, <2>1, CarriedWrites, Quietly DEF Keeps
<1>3. CASE StartCreate(p)
  <2>1. PICK s \in Sessions :
          CreateSession(None, s, NewSession(loc[p].tid, loc[p].mac, loc[p].rid, loc[p].at,
                                            loc[p].flag))
    BY <1>3 DEF StartCreate
  <2> DEFINE row == NewSession(loc[p].tid, loc[p].mac, loc[p].rid, loc[p].at, loc[p].flag)
  <2>2. loc[p].tid \in Tokens /\ "start" \in Ops
    BY <1>3, Known DEF StartCreate, FrameOK, TokenLabels, CopyInv, FramesFit, FrameFit
  <2>3. row.tok = loc[p].tid /\ row.status # "absent" /\ row.reason = "none" /\ row.bytes = 0
    BY DEF NewSession, AbsentSession
  <2>4. session[s].status = "absent" /\ session' = [session EXCEPT ![s] = row]
    BY <2>1 DEF CreateSession
  <2> HIDE DEF row
  <2>5. session'[s] = row /\ \A r \in Sessions : r # s => session'[r] = session[r]
    BY <2>4 DEF TokenInv, TypeOK
  <2>6. Opens(s)
    BY <2>2, <2>3, <2>4, <2>5 DEF Opens
  <2>7. Writes(p)
    BY <2>5, <2>6 DEF Writes
  <2>8. QED
    BY <1>1, <2>7, Quietly DEF Keeps
<1>4. QED
  BY <1>2, <1>3

LEMMA ReportBegins ==
  ASSUME TokenInv, CopyInv, NEW p \in Procs,
         BeginInterim(p) \/ BeginStop(p) \/ AcctStart(p), backlog' = backlog
  PROVE  Keeps(p)
<1>1. session' = session /\ queue' = queue /\ now' = now /\ p \notin Workers
  BY DEF BeginInterim, BeginStop, AcctStart, Arrives, storeVars, gatewayVars
<1>2. CASE BeginInterim(p)
  <2>1. PICK s \in Sessions, n \in Adds :
          /\ session[s].status # "absent"
          /\ Goto(p, "usage_read", [NoFrame EXCEPT !.op = "interim", !.sid = s, !.add = n])
    BY <1>2, Zenon DEF BeginInterim
  <2> DEFINE f == [NoFrame EXCEPT !.op = "interim", !.sid = s, !.add = n]
  <2>2. f.sid = s /\ f.at = 0 /\ f.reason = "none" /\ ~OneReporter
    BY <1>2 DEF NoFrame, BeginInterim, Arrives, OneReporter
  <2>3. Goto(p, "usage_read", f)
    BY <2>1
  <2> HIDE DEF f
  <2>4. FrameFit(p, "usage_read", f)'
    BY <1>1, <2>1, <2>2, Commons DEF FrameFit, CopyLabels, CallLabels, QuotaLabels,
                                     EndingLabels, UsageLabels, OneReporter
  <2>5. QED
    BY <1>1, <2>3, <2>4, Quietly DEF Keeps, Fits
<1>3. CASE BeginStop(p)
  <2>1. PICK s \in Sessions :
          Goto(p, "stop_read", [NoFrame EXCEPT !.op = "stop", !.sid = s])
    BY <1>3, Zenon DEF BeginStop
  <2> DEFINE f == [NoFrame EXCEPT !.op = "stop", !.sid = s]
  <2>2. f.at = 0 /\ f.reason = "none"
    BY DEF NoFrame
  <2>3. Goto(p, "stop_read", f)
    BY <2>1
  <2> HIDE DEF f
  <2>4. Common(p, "stop_read", f)
    BY <1>1, <2>2, Commons
  <2>5. QED
    BY <1>1, <2>3, <2>4, PlainFit, Quietly DEF Keeps
<1>4. CASE AcctStart(p)
  <2>1. PICK r, m, s :
          /\ s \in GetSessionByRadius(r)
          /\ Goto(p, "acct_touch", [NoFrame EXCEPT !.op = "acct_start", !.sid = s,
                                                   !.ses = Touched(session[s], m)])
    BY <1>4, Zenon DEF AcctStart
  <2> DEFINE row == session[s]
             f   == [NoFrame EXCEPT !.op = "acct_start", !.sid = s, !.ses = Touched(row, m)]
  <2>2. f.sid = s /\ f.ses = Touched(row, m) /\ f.at = 0 /\ f.reason = "none"
    BY DEF NoFrame
  <2>3. Goto(p, "acct_touch", f)
    BY <2>1
  <2>4. s \in GetSessionByRadius(r)
    BY <2>1
  <2> HIDE DEF f
  <2>5. row \in SessionRow /\ Copy(s, row)
    BY <2>4, RadiusFound, StoredCopy
  <2> HIDE DEF row
  <2>6. Copy(s, Touched(row, m))
    BY <2>5, CopyRows
  <2>7. Common(p, "acct_touch", f)
    BY <1>1, <2>2, Commons
  <2>8. Fits(p)
    BY <1>1, <2>2, <2>3, <2>6, <2>7, RowFit
  <2>9. QED
    BY <1>1, <2>8, Quietly DEF Keeps
<1>5. QED
  BY <1>2, <1>3, <1>4

LEMMA StopKeeps ==
  ASSUME TokenInv, CopyInv, NEW p \in Procs, StopRead(p) \/ StopWrite(p), backlog' = backlog
  PROVE  Keeps(p)
<1>0. queue' = queue
  BY DEF StopRead, StopWrite, gatewayVars
<1>1. CASE StopRead(p)
  <2> DEFINE row == session[loc[p].sid]
             f   == [loc[p] EXCEPT !.ses = EndedSession(row, "stop", FALSE)]
  <2>1. /\ session' = session /\ pc[p] = "stop_read" /\ loc[p].sid \in Sessions
        /\ loc[p] \in Frame /\ Common(p, pc[p], loc[p]) /\ ~(OneReporter /\ p \in Workers)
    BY <1>1, Known, Commons, NoTask DEF StopRead, storeVars, SessionLabels, WorkerLabels,
                                        CallLabels
  <2>2. CASE Finish(p)
    BY <1>0, <2>1, <2>2, EndFits, Quietly DEF Keeps
  <2>3. CASE row.status = "active" /\ Goto(p, "stop_write", f)
    <3>1. Goto(p, "stop_write", f) /\ row.status = "active"
      BY <2>3
    <3>2. /\ f.sid = loc[p].sid /\ f.ses = EndedSession(row, "stop", FALSE)
          /\ f.at = loc[p].at /\ f.reason = loc[p].reason
      BY <2>1 DEF Frame
    <3>3. row \in SessionRow /\ Copy(loc[p].sid, row)
      BY <2>1, <2>3, StoredCopy DEF TokenInv, TypeOK
    <3> HIDE DEF f, row
    <3>4. \A b : Copy(loc[p].sid, EndedSession(row, "stop", b))
      BY <3>3, CopyRows, PlainReasons
    <3>5. Copy(loc[p].sid, EndedSession(row, "stop", FALSE))
      BY <3>4, Zenon
    <3>6. Common(p, "stop_write", f)
      BY <2>1, <3>2 DEF Common, CallLabels
    <3>7. Fits(p)
      BY <2>1, <3>1, <3>2, <3>5, <3>6, RowFit
    <3>8. QED
      BY <1>0, <2>1, <3>7, Quietly DEF Keeps
  <2>4. QED
    BY <1>1, <2>2, <2>3, Zenon DEF StopRead
<1>2. CASE StopWrite(p)
  <2>1. pc[p] \in CopyLabels /\ UpdateSession(loc[p].sid, loc[p].ses)
    BY <1>2 DEF StopWrite, CopyLabels, EndingLabels
  <2>2. QED
    BY <1>0, <1>2, <2>1, CarriedWrites, EndFits, Quietly DEF Keeps, StopWrite
<1>3. QED
  BY <1>1, <1>2

LEMMA DisjointUnion ==
  ASSUME NEW S, NEW T, IsFiniteSet(S), IsFiniteSet(T), S \cap T = {}
  PROVE  Cardinality(S \cup T) = Cardinality(S) + Cardinality(T)
<1>1. Cardinality(S) \in Nat /\ Cardinality(T) \in Nat /\ Cardinality({}) = 0
  BY FS_CardinalityType, FS_EmptySet
<1>2. Cardinality(S \cup T) = Cardinality(S) + Cardinality(T) - Cardinality(S \cap T)
  BY FS_Union
<1>3. Cardinality(S \cap T) = 0
  BY <1>1
<1>4. QED
  BY <1>1, <1>2, <1>3

\* A charged copy is covered as soon as its handler owes the charge
LEMMA ChargedCopy ==
  ASSUME TypeOK, OwedFinite, NEW p \in Procs, pc[p] \notin OwingLabels,
         NEW f, Goto(p, "usage_write", f), f.add \in Nat, ledger' = ledger,
         NEW s \in Sessions, f.sid = s
  PROVE  Due(s)' = Due(s) + f.add
<1> DEFINE have == {p} \X (1 .. f.add)
<1>1. Owed(s)' = Owed(s) \cup have
  BY OwedMoved DEF Share, OwingLabels
<1>2. Owed(s) \cap have = {}
  BY DEF Owed
<1>3. IsFiniteSet(have) /\ Cardinality(have) = f.add
  BY ShareSize
<1>4. Cardinality({}) = 0 /\ Cardinality(Owed(s)) \in Nat /\ ledger[s] \in Nat
  BY FS_EmptySet, DueType
<1> HIDE DEF have
<1>5. PICK O : O = Owed(s)'
  OBVIOUS
<1>6. Cardinality(O) = Cardinality(Owed(s)) + f.add
  BY <1>1, <1>2, <1>3, <1>5, DisjointUnion DEF OwedFinite
<1>7. QED
  BY <1>4, <1>5, <1>6 DEF Due

LEMMA UsageReadKeeps ==
  ASSUME TokenInv, CopyInv, Steady, NEW p \in Procs, UsageRead(p), backlog' = backlog
  PROVE  Keeps(p)
<1> DEFINE row == session[loc[p].sid]
           f   == [loc[p] EXCEPT !.tid = row.tok, !.ses = Charged(row, loc[p].add)]
<1>1. /\ UNCHANGED <<session, queue, reported, now, faults, ledger>> /\ pc[p] = "usage_read"
      /\ loc[p].sid \in Sessions /\ loc[p] \in Frame /\ Common(p, pc[p], loc[p])
      /\ ~(OneReporter /\ p \in Workers)
  BY Known, Commons, NoTask DEF UsageRead, storeVars, gatewayVars, SessionLabels,
                                WorkerLabels, CallLabels
<1>2. CASE Finish(p)
  BY <1>1, <1>2, EndFits, Quietly DEF Keeps
<1>3. CASE row.status = "active" /\ Goto(p, "usage_write", f)
  <2>1. Goto(p, "usage_write", f) /\ row.status = "active"
    BY <1>3
  <2>2. /\ f.sid = loc[p].sid /\ f.tid = row.tok /\ f.ses = Charged(row, f.add)
        /\ f.at = loc[p].at /\ f.reason = loc[p].reason /\ f.add = loc[p].add /\ f.add \in Nat
    BY <1>1 DEF Frame
  <2>3. row \in SessionRow /\ Copy(loc[p].sid, row)
    BY <1>1, <1>3, StoredCopy DEF TokenInv, TypeOK
  <2>4. OneReporter => row.bytes + loc[p].add <= reported[loc[p].sid]
    BY <1>1, <1>3 DEF CopyInv, FramesFit, FrameFit
  <2> HIDE DEF f, row
  <2>5. PICK g, s, charged : g = f /\ s \in Sessions /\ s = f.sid /\ charged = f.ses
    BY <1>1, <2>2
  <2>6. /\ charged.status = row.status /\ charged.tok = row.tok
        /\ charged.bytes = row.bytes + f.add /\ charged.reason = row.reason
    BY <2>2, <2>3, <2>5, RowColumns
  <2>7. faults' = 0 => charged.bytes <= Due(s)'
    <3>1. Due(s)' = Due(s) + f.add
      BY <1>1, <2>1, <2>2, <2>5, ChargedCopy DEF OwingLabels, TokenInv, CopyInv
    <3>2. faults = 0 => row.bytes <= Due(s)
      BY <2>2, <2>3, <2>5 DEF Copy, Fit
    <3>3. row.bytes \in Nat /\ Due(s) \in Nat
      BY <2>3, <2>5, DueType DEF SessionRow, TokenInv, CopyInv
    <3>4. QED
      BY <1>1, <2>2, <2>6, <3>1, <3>2, <3>3
  <2>8. Just(charged.reason, charged.tok)'
    <3>1. row.tok \in Tokens /\ Just(row.reason, row.tok) /\ row.status # "absent"
      BY <1>1, <2>1, <2>2, <2>3, FoundRow DEF Copy, Fit
    <3>2. QED
      BY <2>6, <3>1, JustKept DEF TokenInv
  <2>9. Copy(s, charged)'
    <3>1. session'[s].status # "absent" /\ charged.tok = session'[s].tok
      BY <1>1, <2>1, <2>2, <2>3, <2>5, <2>6 DEF Copy
    <3>2. charged.status # "absent"
      BY <2>1, <2>6
    <3>3. OneReporter => charged.bytes <= reported'[s]
      BY <1>1, <2>2, <2>4, <2>5, <2>6
    <3>4. QED
      BY <2>7, <2>8, <3>1, <3>2, <3>3 DEF Copy, Fit, OneReporter
  <2>10. FrameFit(p, "usage_write", g)'
    <3>1. g.at <= now' /\ g.reason = "none" /\ g.ses.tok = g.tid
      BY <1>1, <2>2, <2>5, <2>6 DEF Common, CallLabels
    <3>2. ~(OneReporter' /\ p \in Workers)
      BY <1>1 DEF OneReporter
    <3>3. Copy(g.sid, g.ses)'
      BY <2>5, <2>9
    <3>4. QED
      BY <3>1, <3>2, <3>3
      DEF FrameFit, CopyLabels, CallLabels, QuotaLabels, EndingLabels, UsageLabels
  <2>11. Fits(p)
    BY <2>1, <2>5, <2>10 DEF Fits
  <2>12. QED
    BY <1>1, <2>11, Quietly DEF Keeps
<1>4. QED
  BY <1>2, <1>3, Zenon DEF UsageRead

\* The steps that take the frame along
LEMMA UsageKeeps ==
  ASSUME TokenInv, CopyInv, NEW p \in Procs, UsageWrite(p) \/ UsageRecord(p) \/ QuotaEnd(p),
         backlog' = backlog
  PROVE  Keeps(p)
<1>1. /\ pc[p] \in QuotaLabels /\ queue' = queue
      /\ session' = session \/ UpdateSession(loc[p].sid, loc[p].ses)
      /\ \E l \in QuotaLabels : Goto(p, l, loc[p])
  BY DEF UsageWrite, UsageRecord, QuotaEnd, QuotaLabels, UsageLabels, gatewayVars
<1>2. /\ pc[p] \in CopyLabels /\ pc[p] \notin CallLabels /\ pc[p] \notin WorkerLabels
      /\ \A l \in QuotaLabels : l \notin CallLabels
  BY <1>1 DEF CopyLabels, CallLabels, WorkerLabels, QuotaLabels, UsageLabels
<1>3. /\ Copy(loc[p].sid, loc[p].ses) /\ loc[p].ses.tok = loc[p].tid
      /\ ~(OneReporter /\ p \in Workers) /\ Common(p, pc[p], loc[p])
  BY <1>1, <1>2, Commons, NoTask DEF CopyInv, FramesFit, FrameFit
<1>4. Fits(p)
  BY <1>1, <1>2, <1>3, QuotaFit DEF Common
<1>5. QED
  BY <1>1, <1>2, <1>4, CarriedWrites, Quietly DEF Keeps

LEMMA QuotaCheckKeeps ==
  ASSUME TokenInv, CopyInv, Steady, NEW p \in Procs, QuotaCheck(p), backlog' = backlog
  PROVE  Keeps(p)
<1>1. /\ session' = session /\ queue' = queue /\ now' = now /\ reported' = reported
      /\ pc[p] = "quota_check" /\ loc[p] \in Frame /\ Common(p, pc[p], loc[p])
      /\ ~(OneReporter /\ p \in Workers)
      /\ Copy(loc[p].sid, loc[p].ses) /\ loc[p].ses.tok = loc[p].tid
  BY Known, Commons, NoTask
  DEF QuotaCheck, storeVars, gatewayVars, WorkerLabels, CallLabels, CopyInv, FramesFit,
      FrameFit, CopyLabels, QuotaLabels, UsageLabels
<1>2. CASE Goto(p, "quota_end",
                [loc[p] EXCEPT !.ses = EndedSession(@, "data_limit_reached", TRUE),
                               !.tok = Closed(token[loc[p].tid], "consumed")])
  <2> DEFINE old == loc[p].ses
             row == EndedSession(old, "data_limit_reached", TRUE)
             f   == [loc[p] EXCEPT !.ses = row,
                                   !.tok = Closed(token[loc[p].tid], "consumed")]
  <2>1. Goto(p, "quota_end", f)
    BY <1>1, <1>2
  <2>2. /\ f.sid = loc[p].sid /\ f.tid = loc[p].tid /\ f.ses = row
        /\ f.at = loc[p].at /\ f.reason = loc[p].reason
    BY <1>1 DEF Frame
  <2>3. old \in SessionRow
    BY <1>1 DEF Frame
  <2>4. \A b : LET r == EndedSession(old, "data_limit_reached", b) IN
                 /\ r.status # "absent" /\ r.tok = old.tok /\ r.bytes = old.bytes
                 /\ r.reason = "data_limit_reached"
    BY <2>3, RowColumns
  <2>5. /\ row.status # "absent" /\ row.tok = old.tok /\ row.bytes = old.bytes
        /\ row.reason = "data_limit_reached"
    BY <2>4, Zenon
  <2> HIDE DEF f, row
  <2>6. PICK t : t = loc[p].tid
    OBVIOUS
  <2>7. pc'[p] = "quota_end" /\ loc'[p].tid = t
    BY <2>1, <2>2, <2>6 DEF Goto, TokenInv, TypeOK
  <2>8. Just("data_limit_reached", t)'
    BY <2>7 DEF Just, Over
  <2>9. PICK g, s, r : g = f /\ s = f.sid /\ r = row
    OBVIOUS
  <2>10. Copy(s, r)'
    <3>1. s \in Sessions /\ r.bytes \in Nat /\ (faults = 0 => r.bytes <= Due(s))
      BY <1>1, <2>2, <2>3, <2>5, <2>9, Known DEF SessionLabels, SessionRow, Copy, Fit
    <3>2. faults' = 0 => r.bytes <= Due(s)'
      BY <3>1, CoveredKept DEF TokenInv, CopyInv
    <3>3. QED
      BY <1>1, <2>2, <2>5, <2>6, <2>8, <2>9, <3>2 DEF Copy, Fit, OneReporter
  <2>11. /\ g.sid = s /\ g.ses = r /\ r.tok = g.tid /\ g.at <= now /\ g.reason = "none"
         /\ ~(OneReporter /\ p \in Workers)
    BY <1>1, <2>2, <2>5, <2>9 DEF Common, CallLabels
  <2>12. FrameFit(p, "quota_end", g)'
    BY <1>1, <2>10, <2>11 DEF FrameFit, CopyLabels, CallLabels, QuotaLabels, EndingLabels,
                              UsageLabels, OneReporter
  <2>13. QED
    BY <1>1, <2>1, <2>9, <2>12, Quietly DEF Keeps, Fits
<1>3. CASE Goto(p, "stop_read", [NoFrame EXCEPT !.op = "acct_stop", !.sid = loc[p].sid])
  <2> DEFINE f == [NoFrame EXCEPT !.op = "acct_stop", !.sid = loc[p].sid]
  <2>1. Goto(p, "stop_read", f)
    BY <1>3
  <2>2. f.at = 0 /\ f.reason = "none"
    BY DEF NoFrame
  <2> HIDE DEF f
  <2>3. Common(p, "stop_read", f)
    BY <1>1, <2>2, Commons DEF Common
  <2>4. QED
    BY <1>1, <2>1, <2>3, PlainFit, Quietly DEF Keeps
<1>4. CASE Finish(p)
  BY <1>1, <1>4, EndFits, Quietly DEF Keeps
<1>5. QED
  BY <1>2, <1>3, <1>4 DEF QuotaCheck

LEMMA QuotaConsumeKeeps ==
  ASSUME TokenInv, CopyInv, NEW p \in Procs, QuotaConsume(p), backlog' = backlog
  PROVE  Keeps(p)
<1>1. /\ pc[p] = "quota_consume" /\ session' = session /\ queue' = queue
      /\ CallDisconnect(p, loc[p].sid, "data_limit_reached")
      /\ Copy(loc[p].sid, loc[p].ses) /\ loc[p].ses.tok = loc[p].tid
  BY DEF QuotaConsume, gatewayVars, CopyInv, FramesFit, FrameFit, CopyLabels, QuotaLabels
<1>2. Over(loc[p].tid)
  BY <1>1 DEF Over
<1>3. Told("data_limit_reached", loc[p].sid)
  BY <1>1, <1>2 DEF Told, Just, Copy
<1>4. QED
  BY <1>1, <1>3, CallFits, Quietly DEF Keeps

LEMMA Division ==
  ASSUME NEW n \in Nat, NEW w \in Nat, w > 0
  PROVE  n = w * (n \div w) + (n % w) /\ n \div w \in Nat /\ n % w \in Nat
<1>1. n = w * (n \div w) + (n % w)
  OBVIOUS
<1>2. n \div w \in Nat /\ n % w \in Nat
  OBVIOUS
<1>3. QED
  BY <1>1, <1>2

\* A counter of which the gigawords were lost reads lower, and never higher
LEMMA OctetsBound ==
  ASSUME NEW total \in Totals, NEW gigawords \in {total \div Word, 0}
  PROVE  Octets(total % Word, gigawords) \in Nat /\ Octets(total % Word, gigawords) <= total
<1>1. total \in Nat /\ Word \in Nat /\ Word > 0
  BY ByteAssumption, WordAssumption
<1>2. PICK high, low \in Nat :
        high = total \div Word /\ low = total % Word /\ total = Word * high + low
  BY <1>1, Division
<1>3. \A i \in Nat : Word * i = i * Word /\ Word * i \in Nat /\ 0 * Word = 0
  BY <1>1
<1>4. Octets(low, high) <= total /\ Octets(low, 0) <= total
  BY <1>1, <1>2, <1>3 DEF Octets
<1>5. QED
  BY <1>2, <1>4, OctetsType

LEMMA AcctUpdateKeeps ==
  ASSUME TokenInv, CopyInv, NEW p \in Procs, AcctUpdate(p), backlog' = backlog
  PROVE  Keeps(p)
<1> DEFINE F(op, s) == [NoFrame EXCEPT !.op = op, !.sid = s]
           G(op, s, n) == [F(op, s) EXCEPT !.add = n]
           D(total, gigawords, s) == Delta(Octets(total % Word, gigawords), session[s])
           Body(op, total, gigawords, s) ==
             LET delta == Delta(Octets(total % Word, gigawords), session[s])
             IN /\ session[s].status = "active" /\ ledger[s] < MaxBytes
                /\ Report(s, total)
                /\ online' = IF op = "acct_stop" THEN online \ {s} ELSE online
                /\ \/ delta > 0 /\ Goto(p, "usage_read", [F(op, s) EXCEPT !.add = delta])
                   \/ delta = 0 /\ op = "acct_stop" /\ Goto(p, "stop_read", F(op, s))
<1>1. session' = session /\ queue' = queue /\ now' = now /\ p \notin Workers
  BY DEF AcctUpdate, Arrives, storeVars
<1>0. PICK op \in PacketOps \ {"acct_start"}, r \in RadiusIds, total \in Totals :
        /\ Arrives(p, op)
        /\ \E s \in GetSessionByRadius(r), gigawords \in {total \div Word, 0} :
             Body(op, total, gigawords, s)
  BY Zenon DEF AcctUpdate
<1>2. PICK s \in GetSessionByRadius(r), gigawords \in {total \div Word, 0} :
        Body(op, total, gigawords, s)
  BY <1>0, Zenon
<1> DEFINE f == F(op, s)
           delta == D(total, gigawords, s)
           g == G(op, s, delta)
<1>3. f.sid = s /\ f.at = 0 /\ f.reason = "none"
  BY DEF NoFrame
<1>4. g.sid = s /\ g.at = 0 /\ g.reason = "none" /\ g.add = delta
  BY DEF NoFrame
<1>5. Report(s, total) /\ s \in GetSessionByRadius(r)
  BY <1>2, Zenon
<1>6. (delta > 0 /\ Goto(p, "usage_read", g)) \/ Goto(p, "stop_read", f)
  BY <1>2, Zenon
<1> HIDE DEF f, g, F, G, Body
<1>7. CASE Goto(p, "stop_read", f)
  <2>1. Common(p, "stop_read", f)
    BY <1>1, <1>3, Commons
  <2>2. QED
    BY <1>1, <1>7, <2>1, PlainFit, Quietly DEF Keeps
<1>8. CASE delta > 0 /\ Goto(p, "usage_read", g)
  <2>1. s \in Sessions /\ session[s].status # "absent" /\ session[s].bytes \in Nat
    BY <1>5, RadiusFound DEF SessionRow
  <2>2. PICK seen : seen = Octets(total % Word, gigawords)
    OBVIOUS
  <2>3. seen \in Nat /\ seen <= total /\ total \in Nat
    BY <1>2, <2>2, OctetsBound, ByteAssumption
  <2>4. session[s].bytes + delta <= total
    BY <1>8, <2>1, <2>2, <2>3 DEF Delta
  <2>5. total <= reported'[s] /\ reported'[s] \in Nat /\ delta \in Nat
    BY <1>5, <2>1, <2>2, <2>3 DEF Report, TokenInv, TypeOK, Delta
  <2> HIDE DEF delta
  <2>6. PICK h : h = g
    OBVIOUS
  <2>7. /\ h.sid = s /\ h.at <= now' /\ h.reason = "none"
        /\ session'[s].bytes + h.add <= reported'[s]
    BY <1>1, <1>4, <2>1, <2>3, <2>4, <2>5, <2>6, Commons
  <2>8. FrameFit(p, "usage_read", h)'
    BY <1>1, <2>1, <2>7 DEF FrameFit, CopyLabels, CallLabels, QuotaLabels, EndingLabels,
                            UsageLabels, OneReporter
  <2>9. QED
    BY <1>1, <1>8, <2>6, <2>8, Quietly DEF Keeps, Fits
<1>9. QED
  BY <1>6, <1>7, <1>8

LEMMA AccountingKeeps ==
  ASSUME TokenInv, CopyInv, Steady, NEW p \in Procs, AccountingBegin(p) \/ AccountingStep(p),
         backlog' = backlog
  PROVE  Keeps(p)
BY StartFindKeeps, StartKeeps, ReportBegins, StopKeeps, UsageReadKeeps, UsageKeeps,
   QuotaCheckKeeps, QuotaConsumeKeeps, AcctUpdateKeeps DEF AccountingBegin, AccountingStep
------------------------------------------------------------------------------
(* The invariant *)

LEMMA AbortKeeps ==
  ASSUME TokenInv, CopyInv, NEW p \in Procs, Abort(p)
  PROVE  Keeps(p)
<1>1. Failed(p) /\ session' = session /\ backlog' = [backlog EXCEPT ![p] = {}]
  BY DEF Abort
<1>2. Lists
  BY <1>1 DEF Lists, TokenInv, TypeOK
<1>3. Told(loc[p].reason, loc[p].sid)
  <2>1. CASE pc[p] \in CallLabels
    BY <2>1 DEF CopyInv, FramesFit, FrameFit
  <2>2. CASE pc[p] \notin CallLabels
    BY <2>2, PlainReasons DEF CopyInv, FramesFit, FrameFit
  <2>3. QED
    BY <2>1, <2>2
<1>4. Queues
  BY <1>1, <1>3, ToldQueues, Quietly DEF Failed, TokenInv
<1>5. QED
  BY <1>1, <1>2, <1>4, EndFits, Quietly DEF Keeps

LEMMA HandlerKeeps ==
  ASSUME TokenInv, CopyInv, Steady, NEW p \in Procs, Begin(p) \/ Step(p)
  PROVE  Keeps(p)
<1>1. CASE TokenBegin(p) /\ backlog' = backlog
  BY <1>1, EnterKeeps, RevokeKeeps, SweepKeeps DEF TokenBegin
<1>2. CASE TokenStep(p) /\ backlog' = backlog
  BY <1>2, RefusedKeeps, LockKeeps, FindKeeps, AdmitKeeps, RevokeKeeps, SweepKeeps
  DEF TokenStep, RedeemStep
<1>3. CASE (AccountingBegin(p) \/ AccountingStep(p)) /\ backlog' = backlog
  BY <1>3, AccountingKeeps
<1>4. CASE (GatewayBegin(p) \/ GatewayStoreStep(p) \/ ControllerStep(p)) /\ backlog' = backlog
  BY <1>4, GatewayBeginKeeps, DisconnectReadKeeps, GatewayWriteKeeps, ControllerKeeps
  DEF GatewayStoreStep
<1>5. CASE RecoverList(p) \/ RecoveryStep(p)
  BY <1>5, RecoverListKeeps, RecoveryKeeps
<1>6. QED
  BY <1>1, <1>2, <1>3, <1>4, <1>5 DEF Begin, Step

\* Steps of nobody: a token is issued, or time passes
LEMMA UnmovedCopies ==
  ASSUME TokenInv, CopyInv, Steady, UNCHANGED <<session, reported, pc, loc, queue, backlog>>
  PROVE  CopyInv'
<1>1. SessionsKept /\ OwedFinite
  BY DEF SessionsKept, CopyInv
<1>2. FramesFit'
  <2> SUFFICES ASSUME NEW q \in Procs PROVE FrameFit(q, pc[q], loc[q])'
    BY DEF FramesFit
  <2>1. PICK l, f : l = pc[q] /\ f = loc[q]
    OBVIOUS
  <2>2. /\ FrameFit(q, l, f) /\ f \in Frame /\ f.at \in Nat
        /\ l \in SessionLabels => f.sid \in Sessions
    BY <2>1, Known DEF CopyInv, FramesFit, Frame
  <2>3. CASE l = "usage_read"
    <3>1. now \in Nat /\ now' \in {now, now + 1}
      BY DEF Steady, Meters, TokenInv, TypeOK
    <3>2. f.at <= now'
      BY <2>2, <3>1 DEF FrameFit
    <3>3. QED
      BY <2>1, <2>2, <2>3, <3>2 DEF FrameFit, CopyLabels, CallLabels, QuotaLabels,
                                    EndingLabels, UsageLabels, OneReporter
  <2>4. CASE l # "usage_read"
    BY <1>1, <2>1, <2>2, <2>4, FrameKept
  <2>5. QED
    BY <2>3, <2>4
<1>3. RowsFit'
  <2> SUFFICES ASSUME NEW s \in Sessions, session[s] # AbsentSession
               PROVE  Copy(s, session[s])'
    BY DEF RowsFit
  <2>1. PICK row : row = session[s]
    OBVIOUS
  <2>2. Copy(s, row) /\ row \in SessionRow
    BY <2>1 DEF CopyInv, RowsFit, TokenInv, TypeOK
  <2>3. QED
    BY <1>1, <2>1, <2>2, CopyKept
<1>4. BacklogFit'
  <2> SUFFICES ASSUME NEW q \in Procs, NEW d \in backlog[q] PROVE Copy(d[1], d[2])'
    BY DEF BacklogFit
  <2>1. Copy(d[1], d[2]) /\ d[1] \in Sessions /\ d[2] \in SessionRow
    BY DEF CopyInv, BacklogFit, TokenInv, TypeOK
  <2>2. QED
    BY <1>1, <2>1, CopyKept
<1>5. QueueFit'
  BY <1>1, ToldKept DEF QueueFit, CopyInv
<1>6. SessionsBegun'
  BY FoundRow DEF SessionsBegun, CopyInv, Steady, Begun
<1>7. QED
  BY <1>2, <1>3, <1>4, <1>5, <1>6 DEF CopyInv, Steady

LEMMA InitCopies == Init => CopyInv
<1> SUFFICES ASSUME Init PROVE CopyInv
  OBVIOUS
<1>1. FramesFit
  <2> SUFFICES ASSUME NEW p \in Procs PROVE FrameFit(p, pc[p], loc[p])
    BY DEF FramesFit
  <2>1. pc[p] = "idle" /\ loc[p] = NoFrame /\ now = 0
    BY DEF Init, RequestInit, StoreInit
  <2>2. NoFrame.at = 0 /\ NoFrame.reason = "none" /\ NoFrame.op = "none"
    BY DEF NoFrame
  <2>3. QED
    BY <2>1, <2>2 DEF FrameFit, CopyLabels, CallLabels, WorkerLabels, QuotaLabels,
                      EndingLabels, UsageLabels
<1>2. RowsFit /\ SessionsBegun
  BY DEF Init, StoreInit, RowsFit, SessionsBegun, AbsentSession
<1>3. BacklogFit /\ QueueFit
  BY DEF Init, RecoveryInit, GatewayInit, BacklogFit, QueueFit, Payload
<1>4. OwedFinite
  <2> SUFFICES ASSUME NEW s \in Sessions PROVE IsFiniteSet(Owed(s))
    BY DEF OwedFinite
  <2>1. Owed(s) = {}
    BY DEF Init, RequestInit, Owed, OwingLabels
  <2>2. QED
    BY <2>1, FS_EmptySet
<1>5. QED
  BY <1>1, <1>2, <1>3, <1>4 DEF CopyInv

LEMMA NextCopies == TokenInv /\ CopyInv /\ [Next]_vars => CopyInv'
<1> SUFFICES ASSUME TokenInv, CopyInv, [Next]_vars PROVE CopyInv'
  OBVIOUS
<1>1. Steady /\ TokenInv'
  BY SteadyStep, NextInv DEF CopyInv
<1>2. ASSUME NEW p \in Procs, Keeps(p)
      PROVE  CopyInv'
  BY <1>1, <1>2, StepCopies DEF Keeps, Fits
<1>3. ASSUME NEW p \in Procs, Begin(p) \/ Step(p) \/ Abort(p)
      PROVE  CopyInv'
  BY <1>1, <1>2, <1>3, HandlerKeeps, AbortKeeps
<1>4. CASE \E t \in Tokens : GenerateToken(t) /\ UNCHANGED <<reported, backlog>>
  BY <1>1, <1>4, UnmovedCopies DEF GenerateToken, requestVars, gatewayVars
<1>5. CASE Tick \/ UNCHANGED vars
  BY <1>1, <1>5, UnmovedCopies DEF Tick, vars, storeVars, requestVars, gatewayVars
<1>6. QED
  BY <1>3, <1>4, <1>5 DEF Next

\* What the copies of session rows say, in handlers, in the recovery's backlog and
\* in the store, is true as long as they may be written
THEOREM CopyInvariant == Spec => []CopyInv
<1>1. Init => TokenInv /\ CopyInv
  BY InitInv, InitCopies
<1>2. TokenInv /\ CopyInv /\ [Next]_vars => (TokenInv /\ CopyInv)'
  BY NextInv, NextCopies
<1>3. QED
  BY <1>1, <1>2, PTL DEF Spec

\* RADIUS counters are absolute: with one request at a time next to the asynq slots,
\* and no other usage reports, no packet, lost, repeated or late, charges a session
\* more bytes than the network access server counted
THEOREM ChargedOnce ==
  ASSUME OneReporter PROVE Spec => []RadiusCountedOnce
<1>1. ASSUME TokenInv, CopyInv PROVE RadiusCountedOnce
  <2> SUFFICES ASSUME NEW s \in Sessions PROVE session[s].bytes <= reported[s]
    BY DEF RadiusCountedOnce
  <2>1. CASE session[s] = AbsentSession
    BY <1>1, <2>1 DEF AbsentSession, TokenInv, TypeOK
  <2>2. CASE Copy(s, session[s])
    BY <2>2 DEF Copy, Fit
  <2>3. QED
    BY <1>1, <2>1, <2>2 DEF CopyInv, RowsFit
<1>2. QED
  BY <1>1, TokenInvariant, CopyInvariant, PTL

\* The recovery works through a list of sessions read earlier, and closes none whose
\* token could still be used, unless /v1/accounting/start opened it on a token that
\* was not activated
THEOREM RecoversOnlyOver ==
  ASSUME "start" \notin Ops PROVE Spec => []RecoveredIsOver
<1>1. ASSUME CopyInv PROVE RecoveredIsOver
  BY <1>1 DEF CopyInv, RowsFit, RecoveredIsOver, Copy, Fit, Just, Late, AbsentSession
<1>2. QED
  BY <1>1, CopyInvariant, PTL

\* Quota exhaustion is written to the session and then to the token: once nothing is
\* in flight, and if no call failed, the token of such a session is over
THEOREM QuotaAgrees == Spec => [](faults = 0 => QuotaEndConsumesToken)
<1>1. ASSUME CopyInv, faults = 0 PROVE QuotaEndConsumesToken
  BY <1>1 DEF CopyInv, RowsFit, QuotaEndConsumesToken, Quiet, Copy, Fit, Just, Over,
              AbsentSession
<1>2. QED
  BY <1>1, CopyInvariant, PTL

\* Usage reports race each other, and the counter of a session may lose what they
\* added, or get back what another one's copy held: once nothing is in flight, and if
\* no call failed, the usage records account for every byte it shows
THEOREM LedgerCovers == Spec => [](faults = 0 => LedgerCoversCounter)
<1>1. ASSUME TokenInv, CopyInv, faults = 0
      PROVE  LedgerCoversCounter
  <2> SUFFICES ASSUME Quiet, NEW s \in Sessions
               PROVE  session[s].bytes <= ledger[s]
    BY DEF LedgerCoversCounter
  <2>1. Owed(s) = {}
    BY DEF Quiet, Owed, OwingLabels
  <2>2. Due(s) = ledger[s] /\ 0 <= ledger[s]
    BY <1>1, <2>1, FS_EmptySet DEF Due, TokenInv, TypeOK
  <2>3. CASE session[s] = AbsentSession
    BY <2>2, <2>3 DEF AbsentSession
  <2>4. CASE Copy(s, session[s])
    BY <1>1, <2>2, <2>4 DEF Copy, Fit
  <2>5. QED
    BY <1>1, <2>3, <2>4 DEF CopyInv, RowsFit
<1>2. QED
  BY <1>1, TokenInvariant, CopyInvariant, PTL

------------------------------------------------------------------------------
(* What a recovery leaves *)

\* The next call of p and what it carries there are no new expiry, over the memory
\* store no transaction with an old clock, and no new recovery
Follows(p, l, f) ==
  /\ \A t \in Tokens : Held(l, f, t) \subseteq Expiries(t)
  /\ Backend = "memory" /\ l \in TxLabels =>
       f.at = now \/ (pc[p] \in TxLabels /\ f.at = loc[p].at)
  /\ f.op = "recover" => loc[p].op = "recover"
  /\ l \in RecoverLabels => f.op = "recover"

Steers(p) == \E l, f : Goto(p, l, f) /\ Follows(p, l, f)

\* A step writes a token row, if any, to close it, and from a copy
ClosesOnly ==
  \A t \in Tokens : \/ token'[t] = token[t]
                    \/ token'[t].status \in TerminalStatus /\ token'[t].expires \in Expiries(t)

\* Handlers that carry no copy of a token row, but perhaps the rest of a sweep's list
LEMMA PlainFollows ==
  ASSUME NEW p \in Procs, NEW l, NEW f, l \notin WriteLabels \cup TxLabels,
         f.todo \subseteq loc[p].todo, f.op = "recover" => loc[p].op = "recover",
         l \in RecoverLabels => f.op = "recover"
  PROVE  Follows(p, l, f)
<1>1. ASSUME NEW t \in Tokens
      PROVE  Held(l, f, t) \subseteq Expiries(t)
  <2>1. Held(l, f, t) \subseteq Held(pc[p], loc[p], t)
    BY DEF Held
  <2>2. QED
    BY <2>1 DEF Expiries
<1>2. QED
  BY <1>1 DEF Follows

LEMMA EndSteers ==
  ASSUME NEW p \in Procs, loc[p] \in Frame,
         \/ Finish(p) \/ Returned(p) \/ GaveUp(p) \/ Failed(p) \/ InvalidToken(p)
         \/ loc[p].op = "recover" /\ RecoverNext(p)
         \/ \E s, why : CallDisconnect(p, s, why)
  PROVE  Steers(p)
<1> USE DEF WriteLabels, TxLabels, RecoverLabels
<1>1. Finish(p) => Steers(p)
  <2>1. Follows(p, "idle", NoFrame)
    BY PlainFollows DEF NoFrame
  <2>2. QED
    BY <2>1, Zenon DEF Finish, Steers
<1>2. ASSUME RecoverNext(p), loc[p].op = "recover"
      PROVE  Steers(p)
  <2> DEFINE f == [NoFrame EXCEPT !.op = "recover", !.at = loc[p].at]
  <2>1. f.op = "recover" /\ f.todo = {}
    BY DEF NoFrame
  <2> HIDE DEF f
  <2>2. Follows(p, "recover", f)
    BY <1>2, <2>1, PlainFollows
  <2>3. QED
    BY <1>2, <2>2, Zenon DEF RecoverNext, Steers, f
<1>3. ASSUME NEW s, NEW why, CallDisconnect(p, s, why)
      PROVE  Steers(p)
  <2> DEFINE f == [NoFrame EXCEPT !.op = loc[p].op, !.sid = s, !.reason = why,
                                  !.flag = TRUE, !.todo = loc[p].todo, !.at = loc[p].at]
  <2>1. f.op = loc[p].op /\ f.todo = loc[p].todo
    BY DEF NoFrame
  <2> HIDE DEF f
  <2>2. Follows(p, "dc_read", f)
    BY <2>1, PlainFollows
  <2>3. QED
    BY <1>3, <2>2, Zenon DEF CallDisconnect, Steers, f
<1>4. ASSUME Returned(p)
      PROVE  Steers(p)
  <2> DEFINE f == [NoFrame EXCEPT !.op = loc[p].op, !.todo = loc[p].todo]
  <2>1. f.op = loc[p].op /\ f.todo = loc[p].todo
    BY DEF NoFrame
  <2>2. CASE Goto(p, "sweep", f)
    <3> HIDE DEF f
    <3>1. Follows(p, "sweep", f)
      BY <2>1, PlainFollows
    <3>2. QED
      BY <2>2, <3>1, Zenon DEF Steers
  <2>3. QED
    BY <1>1, <1>2, <1>4, <2>2 DEF Returned
<1>5. ASSUME InvalidToken(p)
      PROVE  Steers(p)
  <2> DEFINE f == [loc[p] EXCEPT !.strict = FALSE, !.at = now, !.tok = AbsentToken]
  <2>1. f.op = loc[p].op /\ f.todo = loc[p].todo
    BY DEF Frame
  <2>2. CASE Goto(p, "redeem", f)
    <3> HIDE DEF f
    <3>1. Follows(p, "redeem", f)
      BY <2>1, PlainFollows
    <3>2. QED
      BY <2>2, <3>1, Zenon DEF Steers
  <2>3. QED
    BY <1>1, <1>5, <2>2 DEF InvalidToken
<1>6. QED
  BY <1>1, <1>2, <1>3, <1>4, <1>5 DEF GaveUp, Failed
\* Handlers that go on with what they have
LEMMA GoesOn ==
  ASSUME NEW p \in Procs, loc[p] \in Frame, NEW l, l \notin WriteLabels \cup TxLabels,
         l \in RecoverLabels => loc[p].op = "recover",
         \/ Goto(p, l, loc[p])
         \/ \E s, row : Goto(p, l, [loc[p] EXCEPT !.sid = s, !.ses = row])
         \/ \E row : Goto(p, l, [loc[p] EXCEPT !.ses = row])
         \/ \E row : Goto(p, l, [loc[p] EXCEPT !.tok = row])
  PROVE  Steers(p)
<1>1. ASSUME NEW f, Goto(p, l, f), f.op = loc[p].op, f.todo = loc[p].todo
      PROVE  Steers(p)
  BY <1>1, PlainFollows, Zenon DEF Steers
<1>2. ASSUME NEW s, NEW row
      PROVE  /\ [loc[p] EXCEPT !.sid = s, !.ses = row].op = loc[p].op
             /\ [loc[p] EXCEPT !.sid = s, !.ses = row].todo = loc[p].todo
             /\ [loc[p] EXCEPT !.ses = row].op = loc[p].op
             /\ [loc[p] EXCEPT !.ses = row].todo = loc[p].todo
             /\ [loc[p] EXCEPT !.tok = row].op = loc[p].op
             /\ [loc[p] EXCEPT !.tok = row].todo = loc[p].todo
  BY DEF Frame
<1>3. QED
  BY <1>1, <1>2, Zenon

\* Handlers that begin
LEMMA Begins ==
  ASSUME NEW p \in Procs, NEW l, l \notin WriteLabels \cup TxLabels \cup RecoverLabels,
         NEW f, Goto(p, l, f), f.todo = {}, f.op # "recover"
  PROVE  Steers(p)
<1>1. Follows(p, l, f)
  BY PlainFollows
<1>2. QED
  BY <1>1, Zenon DEF Steers

LEMMA RedeemSteers ==
  ASSUME TokenInv, NEW p \in Procs, BeginRedeem(p) \/ RedeemStep(p)
  PROVE  Steers(p) /\ (RedeemActivate(p) \/ ClosesOnly)
<1> USE DEF WriteLabels, TxLabels, RecoverLabels
<1>0. loc[p] \in Frame
  BY Known
<1>1. CASE BeginRedeem(p)
  <2>1. PICK op \in {"redeem", "resume", "auth"}, r \in RadiusIds \cup {None},
             strict \in BOOLEAN : Enter(p, op, r, strict)
    BY <1>1 DEF BeginRedeem, BeginPortal, BeginAuth
  <2>2. PICK t \in Tokens, m \in Macs :
          Goto(p, "redeem", [NoFrame EXCEPT !.op = op, !.tid = t, !.mac = m, !.rid = r,
                                            !.at = now, !.strict = strict])
    BY <2>1 DEF Enter
  <2> DEFINE f == [NoFrame EXCEPT !.op = op, !.tid = t, !.mac = m, !.rid = r,
                                  !.at = now, !.strict = strict]
  <2>3. f.todo = {} /\ f.op = op
    BY DEF NoFrame
  <2> HIDE DEF f
  <2>4. Steers(p)
    BY <2>2, <2>3, Begins DEF f
  <2>5. QED
    BY <2>1, <2>4 DEF Enter, storeVars, ClosesOnly
<1>2. CASE RedeemLock(p)
  <2> DEFINE f == [loc[p] EXCEPT !.tok = token[loc[p].tid], !.at = LockedAt(p)]
  <2>1. /\ f.op = loc[p].op /\ f.todo = loc[p].todo
        /\ Backend = "memory" => f.at = now
    BY <1>0 DEF Frame, LockedAt
  <2>2. Goto(p, "locked", f)
    BY <1>2 DEF RedeemLock
  <2> HIDE DEF f
  <2>3. \A t \in Tokens : Held("locked", f, t) \subseteq Expiries(t)
    <3> SUFFICES ASSUME NEW t \in Tokens PROVE Held("locked", f, t) \subseteq Expiries(t)
      OBVIOUS
    <3>1. Held("locked", f, t) \subseteq Held(pc[p], loc[p], t)
      BY <2>1 DEF Held
    <3>2. QED
      BY <3>1 DEF Expiries
  <2>4. Follows(p, "locked", f)
    BY <2>1, <2>3 DEF Follows
  <2>5. QED
    BY <1>2, <2>2, <2>4, Zenon DEF Steers, RedeemLock, ClosesOnly
<1>3. CASE ResumeFind(p)
  <2>1. ASSUME NEW f, Goto(p, "found", f), f.op = loc[p].op, f.todo = loc[p].todo,
               f.at = loc[p].at
        PROVE  Steers(p)
    <3>1. \A t \in Tokens : Held("found", f, t) \subseteq Expiries(t)
      <4> SUFFICES ASSUME NEW t \in Tokens PROVE Held("found", f, t) \subseteq Expiries(t)
        OBVIOUS
      <4>1. Held("found", f, t) \subseteq Held(pc[p], loc[p], t)
        BY <2>1 DEF Held
      <4>2. QED
        BY <4>1 DEF Expiries
    <3>2. pc[p] \in TxLabels
      BY <1>3 DEF ResumeFind, Holds
    <3>3. Follows(p, "found", f)
      BY <2>1, <3>1, <3>2 DEF Follows
    <3>4. QED
      BY <2>1, <3>3, Zenon DEF Steers
  <2>2. ASSUME NEW s, NEW row
        PROVE  /\ [loc[p] EXCEPT !.sid = s, !.ses = row].op = loc[p].op
               /\ [loc[p] EXCEPT !.sid = s, !.ses = row].todo = loc[p].todo
               /\ [loc[p] EXCEPT !.sid = s, !.ses = row].at = loc[p].at
    BY <1>0 DEF Frame
  <2>3. \/ Goto(p, "found", loc[p])
        \/ \E s : Goto(p, "found", [loc[p] EXCEPT !.sid = s, !.ses = session[s]])
    BY <1>3 DEF ResumeFind
  <2>4. Steers(p)
    BY <2>1, <2>2, <2>3, Zenon
  <2>5. QED
    BY <1>3, <2>4 DEF ResumeFind, storeVars, ClosesOnly
<1>4. CASE RedeemUnknown(p) \/ ResumeUnused(p)
  BY <1>0, <1>4, EndSteers DEF RedeemUnknown, ResumeUnused, storeVars, ClosesOnly
<1>5. CASE RedeemRefused(p) \/ RedeemExpired(p) \/ ResumeAttach(p) \/ ResumeReopen(p)
  BY <1>0, <1>5, EndSteers
  DEF RedeemRefused, RedeemExpired, ResumeAttach, ResumeReopen, ClosesOnly
<1>6. CASE RedeemActivate(p)
  BY <1>0, <1>6, EndSteers DEF RedeemActivate
<1>7. CASE RedeemExpiredKept(p)
  <2>1. Finish(p) /\ token' = [token EXCEPT ![loc[p].tid] = Closed(loc[p].tok, "expired")]
    BY <1>7 DEF RedeemExpiredKept
  <2>2. loc[p].tok = token[loc[p].tid] /\ loc[p].tok \in TokenRow
    BY <1>7, InTx DEF RedeemExpiredKept, Expires
  <2> DEFINE row == Closed(loc[p].tok, "expired")
  <2>3. row.status = "expired" /\ row.expires = loc[p].tok.expires
    BY <2>2 DEF Closed, TokenRow
  <2> HIDE DEF row
  <2>4. ClosesOnly
    BY <2>1, <2>2, <2>3 DEF ClosesOnly, TerminalStatus, TokenInv, TypeOK, Expiries, row
  <2>5. QED
    BY <1>0, <2>1, <2>4, EndSteers
<1>8. QED
  BY <1>1, <1>2, <1>3, <1>4, <1>5, <1>6, <1>7 DEF RedeemStep

LEMMA CloseSteers ==
  ASSUME TokenInv, NEW p \in Procs,
         \/ RevokeRead(p) \/ RevokeWrite(p) \/ RevokeFind(p) \/ RevokeEnd(p)
         \/ SweepList(p) \/ SweepExpire(p) \/ SweepFind(p) \/ SweepEnd(p)
  PROVE  Steers(p) /\ ClosesOnly
<1> USE DEF WriteLabels, TxLabels, RecoverLabels
<1>0. loc[p] \in Frame /\ token \in [Tokens -> TokenRow]
  BY Known DEF TokenInv, TypeOK
<1>1. CASE RevokeRead(p)
  <2>1. PICK u \in Tokens :
          Goto(p, "revoke_write", [NoFrame EXCEPT !.op = "revoke", !.tid = u,
                                                  !.tok = Closed(token[u], "revoked")])
    BY <1>1 DEF RevokeRead
  <2> DEFINE row == Closed(token[u], "revoked")
  <2>2. row.expires = token[u].expires
    BY <1>0 DEF Closed, TokenRow
  <2> HIDE DEF row
  <2> DEFINE f == [NoFrame EXCEPT !.op = "revoke", !.tid = u, !.tok = row]
  <2>3. f.op = "revoke" /\ f.tid = u /\ f.tok = row /\ f.todo = {}
    BY DEF NoFrame
  <2> HIDE DEF f
  <2>4. \A t \in Tokens : Held("revoke_write", f, t) \subseteq Expiries(t)
    BY <2>2, <2>3 DEF Held, Expiries
  <2>5. Follows(p, "revoke_write", f)
    BY <2>3, <2>4 DEF Follows
  <2>6. Goto(p, "revoke_write", f)
    BY <2>1 DEF f, row
  <2>7. QED
    BY <1>1, <2>5, <2>6, Zenon DEF RevokeRead, storeVars, ClosesOnly, Steers
<1>2. CASE RevokeWrite(p)
  <2>1. Steers(p)
    <3>1. Goto(p, "revoke_find", [loc[p] EXCEPT !.tok = AbsentToken])
      BY <1>2 DEF RevokeWrite
    <3>2. "revoke_find" \notin WriteLabels \cup TxLabels \cup RecoverLabels
      OBVIOUS
    <3>3. QED
      BY <1>0, <3>1, <3>2, GoesOn, Zenon
  <2>2. /\ token' = [token EXCEPT ![loc[p].tid] = loc[p].tok]
        /\ loc[p].tok.status \in TerminalStatus
    BY <1>2, Known DEF RevokeWrite, UpdateToken, FrameOK
  <2>3. loc[p].tok.expires \in Held(pc[p], loc[p], loc[p].tid)
    BY <1>2 DEF RevokeWrite, Held
  <2>4. QED
    BY <1>0, <2>1, <2>2, <2>3 DEF ClosesOnly, Expiries
<1>3. CASE SweepList(p)
  <2> DEFINE due == {t \in Tokens : token[t].status = "active" /\ Overdue(token[t], now)}
             todo == {<<t, token[t]>> : t \in due}
             f == [NoFrame EXCEPT !.op = "sweep", !.todo = todo]
  <2>1. Goto(p, "sweep", f)
    BY <1>3 DEF SweepList
  <2>2. f.op = "sweep" /\ f.todo = todo
    BY DEF NoFrame
  <2>3. \A d \in todo : d[2] = token[d[1]]
    OBVIOUS
  <2> HIDE DEF f, todo
  <2>4. \A t \in Tokens : Held("sweep", f, t) \subseteq Expiries(t)
    BY <2>2, <2>3 DEF Held, Expiries
  <2>5. Follows(p, "sweep", f)
    BY <2>2, <2>4 DEF Follows
  <2>6. QED
    BY <1>3, <2>1, <2>5, Zenon DEF SweepList, storeVars, ClosesOnly, Steers
<1>4. CASE SweepExpire(p)
  <2>1. PICK d \in loc[p].todo :
          /\ UpdateToken(d[1], Closed(d[2], "expired"))
          /\ Goto(p, "sweep_find", [loc[p] EXCEPT !.tid = d[1], !.todo = @ \ {d}])
    BY <1>4 DEF SweepExpire
  <2> DEFINE f == [loc[p] EXCEPT !.tid = d[1], !.todo = @ \ {d}]
  <2>2. f.op = loc[p].op /\ f.todo \subseteq loc[p].todo
    BY <1>0 DEF Frame
  <2> HIDE DEF f
  <2>3. Steers(p)
    <3>1. Follows(p, "sweep_find", f)
      BY <2>2, PlainFollows
    <3>2. QED
      BY <2>1, <3>1, Zenon DEF Steers, f
  <2>4. d[1] \in Tokens /\ d[2] \in TokenRow
    BY <1>0 DEF Frame
  <2> DEFINE row == Closed(d[2], "expired")
  <2>5. row.status \in TerminalStatus /\ row.expires = d[2].expires
    BY <2>4 DEF Closed, TokenRow, TerminalStatus
  <2> HIDE DEF row
  <2>6. d[2].expires \in Held(pc[p], loc[p], d[1])
    BY <2>1 DEF Held
  <2>7. token' = [token EXCEPT ![d[1]] = row]
    BY <2>1 DEF UpdateToken, row
  <2>8. QED
    BY <1>0, <2>3, <2>5, <2>6, <2>7 DEF ClosesOnly, Expiries
<1>5. CASE RevokeFind(p) \/ SweepFind(p)
  <2>1. Finish(p) \/ Returned(p) => Steers(p)
    BY <1>0, EndSteers
  <2>2. ASSUME NEW l \in {"revoke_end", "sweep_end"}, NEW s, NEW row,
               Goto(p, l, [loc[p] EXCEPT !.sid = s, !.ses = row])
        PROVE  Steers(p)
    BY <1>0, <2>2, GoesOn, Zenon
  <2>3. Steers(p)
    BY <1>5, <2>1, <2>2, Zenon DEF RevokeFind, SweepFind
  <2>4. QED
    BY <1>5, <2>3 DEF RevokeFind, SweepFind, storeVars, ClosesOnly
<1>6. CASE RevokeEnd(p) \/ SweepEnd(p)
  BY <1>0, <1>6, EndSteers DEF RevokeEnd, SweepEnd, ClosesOnly
<1>7. QED
  BY <1>1, <1>2, <1>3, <1>4, <1>5, <1>6
LEMMA GatewaySteers ==
  ASSUME TokenInv, NEW p \in Procs,
         GatewayBegin(p) \/ GatewayStoreStep(p) \/ ControllerStep(p)
  PROVE  Steers(p) /\ ClosesOnly
<1> USE DEF WriteLabels, TxLabels, RecoverLabels
<1>0. loc[p] \in Frame
  BY Known
<1>1. token' = token
  BY DEF GatewayBegin, GatewayStoreStep, ControllerStep, BeginDisconnect, BeginRetry,
         DisconnectRead, DisconnectMark, DisconnectClear, GatewayAck, GatewayFail, storeVars
<1>2. CASE BeginDisconnect(p)
  <2>1. PICK s \in Sessions, force \in BOOLEAN :
          Goto(p, "dc_read", [NoFrame EXCEPT !.op = "disconnect", !.sid = s,
                                             !.reason = "disconnect", !.flag = force])
    BY <1>2 DEF BeginDisconnect
  <2> DEFINE f == [NoFrame EXCEPT !.op = "disconnect", !.sid = s,
                                  !.reason = "disconnect", !.flag = force]
  <2>2. f.todo = {} /\ f.op = "disconnect"
    BY DEF NoFrame
  <2> HIDE DEF f
  <2>3. QED
    BY <1>1, <2>1, <2>2, Begins DEF ClosesOnly, f
<1>3. CASE BeginRetry(p)
  <2>1. PICK d \in Payload :
          Goto(p, "dc_read", [NoFrame EXCEPT !.op = "retry", !.sid = d[1],
                                             !.reason = d[2], !.flag = TRUE])
    BY <1>3 DEF BeginRetry
  <2> DEFINE f == [NoFrame EXCEPT !.op = "retry", !.sid = d[1],
                                  !.reason = d[2], !.flag = TRUE]
  <2>2. f.todo = {} /\ f.op = "retry"
    BY DEF NoFrame
  <2> HIDE DEF f
  <2>3. QED
    BY <1>1, <2>1, <2>2, Begins DEF ClosesOnly, f
<1>4. CASE DisconnectRead(p)
  <2>1. Returned(p) \/ Failed(p) => Steers(p)
    BY <1>0, EndSteers
  <2>2. ASSUME NEW row, Goto(p, "dc_mark", [loc[p] EXCEPT !.ses = row])
        PROVE  Steers(p)
    <3>1. "dc_mark" \notin WriteLabels \cup TxLabels \cup RecoverLabels
      OBVIOUS
    <3>2. QED
      BY <1>0, <2>2, <3>1, GoesOn, Zenon
  <2>3. Steers(p)
    BY <1>4, <2>1, <2>2, Zenon DEF DisconnectRead
  <2>4. QED
    BY <1>1, <2>3 DEF ClosesOnly
<1>5. CASE DisconnectMark(p)
  <2>1. Goto(p, "dc_call", loc[p])
    BY <1>5 DEF DisconnectMark
  <2>2. "dc_call" \notin WriteLabels \cup TxLabels \cup RecoverLabels
    OBVIOUS
  <2>3. Steers(p)
    BY <1>0, <2>1, <2>2, GoesOn, Zenon
  <2>4. QED
    BY <1>1, <2>3 DEF ClosesOnly
<1>6. CASE GatewayAck(p)
  <2>1. Goto(p, "dc_clear", [loc[p] EXCEPT !.ses = Pending(loc[p].ses, FALSE)])
    BY <1>6 DEF GatewayAck
  <2>2. "dc_clear" \notin WriteLabels \cup TxLabels \cup RecoverLabels
    OBVIOUS
  <2>3. Steers(p)
    BY <1>0, <2>1, <2>2, GoesOn, Zenon
  <2>4. QED
    BY <1>1, <2>3 DEF ClosesOnly
<1>7. CASE GatewayFail(p) \/ DisconnectClear(p)
  BY <1>0, <1>1, <1>7, EndSteers DEF GatewayFail, DisconnectClear, ClosesOnly
<1>8. QED
  BY <1>2, <1>3, <1>4, <1>5, <1>6, <1>7 DEF GatewayBegin, GatewayStoreStep, ControllerStep

LEMMA RecoverySteers ==
  ASSUME TokenInv, NEW p \in Procs, RecoveryStep(p), loc[p].op = "recover"
  PROVE  Steers(p) /\ ClosesOnly
<1> USE DEF WriteLabels, TxLabels, RecoverLabels
<1>0. loc[p] \in Frame
  BY Known
<1>1. token' = token
  BY DEF RecoveryStep, RecoverRead, RecoverEnd, RecoverDone, storeVars
<1>2. CASE RecoverRead(p)
  <2>1. ASSUME NEW s, NEW row, Goto(p, "recover_end", [loc[p] EXCEPT !.sid = s, !.ses = row])
        PROVE  Steers(p)
    <3>1. "recover_end" \notin WriteLabels \cup TxLabels
      OBVIOUS
    <3>2. QED
      BY <1>0, <2>1, <3>1, GoesOn, Zenon
  <2>2. RecoverNext(p) => Steers(p)
    BY <1>0, EndSteers
  <2>3. Steers(p)
    BY <1>2, <2>1, <2>2, Zenon DEF RecoverRead
  <2>4. QED
    BY <1>1, <2>3 DEF ClosesOnly
<1>3. CASE RecoverEnd(p) \/ RecoverDone(p)
  BY <1>0, <1>1, <1>3, EndSteers DEF RecoverEnd, RecoverDone, ClosesOnly
<1>4. QED
  BY <1>2, <1>3 DEF RecoveryStep

\* Of the accounting handlers only a stop report is left
LEMMA QuotaSteers ==
  ASSUME TokenInv, NEW p \in Procs, QuotaCheck(p) \/ QuotaEnd(p) \/ QuotaConsume(p)
  PROVE  Steers(p) /\ ClosesOnly
<1> USE DEF WriteLabels, TxLabels, RecoverLabels
<1>0. loc[p] \in Frame
  BY Known
<1>1. CASE QuotaCheck(p)
  <2>1. token' = token
    BY <1>1 DEF QuotaCheck, storeVars
  <2>2. ASSUME NEW ses,
               Goto(p, "quota_end", [loc[p] EXCEPT !.ses = ses,
                                                   !.tok = Closed(token[loc[p].tid], "consumed")])
        PROVE  Steers(p)
    <3>1. PICK f : f = [loc[p] EXCEPT !.ses = ses, !.tok = Closed(token[loc[p].tid], "consumed")]
      OBVIOUS
    <3>2. /\ f.tid = loc[p].tid /\ f.todo = loc[p].todo /\ f.op = loc[p].op
          /\ f.tok = Closed(token[f.tid], "consumed")
      BY <1>0, <3>1 DEF Frame
    <3>3. \A t \in Tokens : Held("quota_end", f, t) \subseteq Expiries(t)
      <4>1. \A t \in Tokens : Closed(token[t], "consumed").expires = token[t].expires
        BY DEF Closed, TokenRow, TokenInv, TypeOK
      <4>2. \A t \in Tokens : Held("quota_end", f, t)
                               \subseteq {token[t].expires} \cup Held(pc[p], loc[p], t)
        BY <3>2, <4>1 DEF Held
      <4>3. QED
        BY <4>2 DEF Expiries
    <3>4. Follows(p, "quota_end", f)
      BY <3>2, <3>3 DEF Follows
    <3>5. QED
      BY <2>2, <3>1, <3>4 DEF Steers
  <2>3. ASSUME Goto(p, "stop_read", [NoFrame EXCEPT !.op = "acct_stop", !.sid = loc[p].sid])
        PROVE  Steers(p)
    <3>1. PICK f : f = [NoFrame EXCEPT !.op = "acct_stop", !.sid = loc[p].sid]
      OBVIOUS
    <3>2. f.todo = {} /\ f.op = "acct_stop"
      BY <3>1 DEF NoFrame
    <3>3. QED
      BY <2>3, <3>1, <3>2, Begins
  <2>4. Finish(p) => Steers(p)
    BY <1>0, EndSteers
  <2>5. Steers(p)
    BY <1>1, <2>2, <2>3, <2>4, Zenon DEF QuotaCheck
  <2>6. QED
    BY <2>1, <2>5 DEF ClosesOnly
<1>2. CASE QuotaEnd(p)
  <2>1. \A t \in Tokens : Held("quota_consume", loc[p], t) = Held(pc[p], loc[p], t)
    BY <1>2 DEF QuotaEnd, Held
  <2>2. Follows(p, "quota_consume", loc[p])
    BY <2>1 DEF Follows, Expiries
  <2>3. QED
    BY <1>2, <2>2, Zenon DEF QuotaEnd, Steers, ClosesOnly
<1>3. CASE QuotaConsume(p)
  <2>1. PICK t, row : t = loc[p].tid /\ row = loc[p].tok
    OBVIOUS
  <2>2. /\ pc[p] = "quota_consume" /\ token' = [token EXCEPT ![t] = row]
        /\ \E s, why : CallDisconnect(p, s, why)
    BY <1>3, <2>1 DEF QuotaConsume, UpdateToken
  <2>3. t \in Tokens /\ row.status \in TerminalStatus
    BY <2>1, <2>2, Known DEF FrameOK, TokenLabels
  <2>4. row.expires \in Expiries(t)
    <3>1. row.expires \in Held(pc[p], loc[p], t)
      BY <2>1, <2>2 DEF Held
    <3>2. QED
      BY <3>1 DEF Expiries
  <2>5. ClosesOnly
    BY <2>2, <2>3, <2>4 DEF ClosesOnly, TokenInv, TypeOK
  <2>6. QED
    BY <1>0, <2>2, <2>5, EndSteers
<1>4. QED
  BY <1>1, <1>2, <1>3

LEMMA AccountingBegins ==
  ASSUME TokenInv, NEW p \in Procs, AccountingBegin(p)
  PROVE  Steers(p) /\ ClosesOnly
<1> USE DEF WriteLabels, TxLabels, RecoverLabels
<1>0. ClosesOnly
  BY DEF AccountingBegin, StartFind, BeginInterim, BeginStop, AcctStart, AcctUpdate,
         storeVars, ClosesOnly
<1>1. CASE StartFind(p)
  <2>1. PICK t \in Tokens, m \in Macs, r \in RadiusIds \cup {None}, flag \in BOOLEAN :
          LET f == [NoFrame EXCEPT !.op = "start", !.tid = t, !.mac = m, !.rid = r,
                                   !.at = now, !.flag = flag]
              S == GetActiveSessionByToken(t)
          IN /\ token[t].status # "absent"
             /\ \/ S = {} /\ Goto(p, "start_create", f) /\ UNCHANGED faults
                \/ S # {} /\ StoreFails /\ Goto(p, "start_create", f)
                \/ \E s \in S :
                     /\ Goto(p, "start_save",
                             [f EXCEPT !.sid = s,
                                       !.ses = Pending(Attached(session[s], r), flag)])
                     /\ UNCHANGED faults
    BY <1>1 DEF StartFind
  <2>2. PICK f : f = [NoFrame EXCEPT !.op = "start", !.tid = t, !.mac = m, !.rid = r,
                                     !.at = now, !.flag = flag]
    OBVIOUS
  <2>3. f.todo = {} /\ f.op = "start"
    BY <2>2 DEF NoFrame
  <2>4. ASSUME NEW s,
               Goto(p, "start_save",
                    [f EXCEPT !.sid = s, !.ses = Pending(Attached(session[s], r), flag)])
        PROVE  Steers(p)
    <3>1. PICK g : g = [f EXCEPT !.sid = s, !.ses = Pending(Attached(session[s], r), flag)]
      OBVIOUS
    <3>2. g.todo = {} /\ g.op = "start"
      BY <2>2, <3>1 DEF NoFrame
    <3>3. Goto(p, "start_save", g)
      BY <2>4, <3>1
    <3>4. QED
      BY <3>2, <3>3, Begins
  <2>5. Goto(p, "start_create", f) => Steers(p)
    BY <2>3, Begins
  <2>6. Goto(p, "start_create", f)
        \/ \E s \in GetActiveSessionByToken(t) :
             Goto(p, "start_save",
                  [f EXCEPT !.sid = s, !.ses = Pending(Attached(session[s], r), flag)])
    BY <2>1, <2>2, Zenon
  <2>7. QED
    BY <1>0, <2>4, <2>5, <2>6, Zenon
<1>2. CASE BeginInterim(p)
  <2>1. PICK s, n, f : /\ f = [NoFrame EXCEPT !.op = "interim", !.sid = s, !.add = n]
                       /\ Goto(p, "usage_read", f)
    BY <1>2, Zenon DEF BeginInterim
  <2>2. f.todo = {} /\ f.op = "interim"
    BY <2>1 DEF NoFrame
  <2>3. QED
    BY <1>0, <2>1, <2>2, Begins
<1>3. CASE BeginStop(p)
  <2>1. PICK s, f : /\ f = [NoFrame EXCEPT !.op = "stop", !.sid = s]
                    /\ Goto(p, "stop_read", f)
    BY <1>3, Zenon DEF BeginStop
  <2>2. f.todo = {} /\ f.op = "stop"
    BY <2>1 DEF NoFrame
  <2>3. QED
    BY <1>0, <2>1, <2>2, Begins
<1>4. CASE AcctStart(p)
  <2>1. PICK s, row, f : /\ f = [NoFrame EXCEPT !.op = "acct_start", !.sid = s, !.ses = row]
                         /\ Goto(p, "acct_touch", f)
    BY <1>4, Zenon DEF AcctStart
  <2>2. f.todo = {} /\ f.op = "acct_start"
    BY <2>1 DEF NoFrame
  <2>3. QED
    BY <1>0, <2>1, <2>2, Begins
<1>5. CASE AcctUpdate(p)
  <2>1. PICK op, s, n :
          /\ op \in PacketOps
          /\ LET f == [NoFrame EXCEPT !.op = op, !.sid = s]
             IN  Goto(p, "usage_read", [f EXCEPT !.add = n]) \/ Goto(p, "stop_read", f)
    BY <1>5, Zenon DEF AcctUpdate
  <2>2. op # "recover"
    BY <2>1 DEF PacketOps
  <2>3. PICK f, g : f = [NoFrame EXCEPT !.op = op, !.sid = s] /\ g = [f EXCEPT !.add = n]
    OBVIOUS
  <2>4. /\ f.todo = {} /\ f.op # "recover"
        /\ g.todo = {} /\ g.op # "recover"
    BY <2>2, <2>3 DEF NoFrame
  <2>5. Goto(p, "usage_read", g) \/ Goto(p, "stop_read", f)
    BY <2>1, <2>3
  <2>6. Goto(p, "usage_read", g) => Steers(p)
    BY <2>4, Begins
  <2>7. Goto(p, "stop_read", f) => Steers(p)
    BY <2>4, Begins
  <2>8. QED
    BY <1>0, <2>5, <2>6, <2>7
<1>6. QED
  BY <1>1, <1>2, <1>3, <1>4, <1>5 DEF AccountingBegin

LEMMA AccountingSteers ==
  ASSUME TokenInv, NEW p \in Procs, AccountingBegin(p) \/ AccountingStep(p)
  PROVE  Steers(p) /\ ClosesOnly
<1> USE DEF WriteLabels, TxLabels, RecoverLabels
<1>0. loc[p] \in Frame
  BY Known
<1>1. CASE StartSave(p) \/ StartCreate(p) \/ AcctTouch(p) \/ StopWrite(p)
  BY <1>0, <1>1, EndSteers DEF StartSave, StartCreate, AcctTouch, StopWrite, ClosesOnly
<1>2. CASE UsageRead(p)
  <2>1. ASSUME NEW t, NEW row, Goto(p, "usage_write", [loc[p] EXCEPT !.tid = t, !.ses = row])
        PROVE  Steers(p)
    <3>1. PICK f : f = [loc[p] EXCEPT !.tid = t, !.ses = row]
      OBVIOUS
    <3>2. f.op = loc[p].op /\ f.todo = loc[p].todo
      BY <1>0, <3>1 DEF Frame
    <3>3. Follows(p, "usage_write", f)
      BY <3>2, PlainFollows
    <3>4. QED
      BY <2>1, <3>1, <3>3 DEF Steers
  <2>2. Finish(p) => Steers(p)
    BY <1>0, EndSteers
  <2>3. Steers(p)
    BY <1>2, <2>1, <2>2, Zenon DEF UsageRead
  <2>4. QED
    BY <1>2, <2>3 DEF UsageRead, storeVars, ClosesOnly
<1>3. CASE UsageWrite(p) \/ UsageRecord(p)
  <2>1. PICK l \in {"usage_record", "quota_check"} : Goto(p, l, loc[p])
    BY <1>3 DEF UsageWrite, UsageRecord
  <2>2. QED
    BY <1>0, <1>3, <2>1, GoesOn DEF UsageWrite, UsageRecord, ClosesOnly
<1>4. CASE StopRead(p)
  <2>1. ASSUME NEW row, Goto(p, "stop_write", [loc[p] EXCEPT !.ses = row])
        PROVE  Steers(p)
    <3>1. "stop_write" \notin WriteLabels \cup TxLabels \cup RecoverLabels
      OBVIOUS
    <3>2. QED
      BY <1>0, <2>1, <3>1, GoesOn, Zenon
  <2>2. Finish(p) => Steers(p)
    BY <1>0, EndSteers
  <2>3. Steers(p)
    BY <1>4, <2>1, <2>2, Zenon DEF StopRead
  <2>4. QED
    BY <1>4, <2>3 DEF StopRead, storeVars, ClosesOnly
<1>5. QED
  BY <1>1, <1>2, <1>3, <1>4, AccountingBegins, QuotaSteers DEF AccountingStep

\* All handlers but those that begin a recovery
LEMMA HandlerSteers ==
  ASSUME TokenInv, ExpiryInv, NEW p \in Procs, Begin(p) \/ Step(p), ~RecoverList(p)
  PROVE  Steers(p) /\ (RedeemActivate(p) \/ ClosesOnly)
<1>1. TokenBegin(p) \/ TokenStep(p) => Steers(p) /\ (RedeemActivate(p) \/ ClosesOnly)
  BY RedeemSteers, CloseSteers DEF TokenBegin, TokenStep
<1>2. RecoveryStep(p) => loc[p].op = "recover"
  BY DEF RecoveryStep, RecoverRead, RecoverEnd, RecoverDone, ExpiryInv, RecoverLabels
<1>3. QED
  BY <1>1, <1>2, AccountingSteers, GatewaySteers, RecoverySteers DEF Begin, Step

\* A step leaves the row of t, or closes it from a copy, or is the first to give it an
\* expiry
Redated(t) ==
  \/ token'[t] = token[t]
  \/ token'[t].status \in TerminalStatus /\ token'[t].expires \in Expiries(t)
  \/ ~Begun(t) /\ (Begun(t)' \/ token'[t].expires = 0)

LEMMA ExpiriesMoved ==
  ASSUME TypeOK, NEW p \in Procs, NEW l, NEW f, Goto(p, l, f), NEW t \in Tokens,
         Held(l, f, t) \subseteq Expiries(t)
  PROVE  Expiries(t)' \subseteq Expiries(t) \cup {token'[t].expires}
<1>1. pc'[p] = l /\ loc'[p] = f
  BY DEF Goto, TypeOK
<1>2. ASSUME NEW q \in Procs, q # p
      PROVE  pc'[q] = pc[q] /\ loc'[q] = loc[q]
  BY <1>2 DEF Goto, TypeOK
<1>3. ASSUME NEW q \in Procs, NEW until \in Held(pc[q], loc[q], t)'
      PROVE  until \in Expiries(t)
  <2>1. CASE q = p
    BY <1>1, <1>3, <2>1 DEF Held
  <2>2. CASE q # p
    <3>1. until \in Held(pc[q], loc[q], t)
      BY <1>2, <1>3, <2>2 DEF Held
    <3>2. QED
      BY <3>1 DEF Expiries
  <2>3. QED
    BY <2>1, <2>2
<1>4. QED
  BY <1>3 DEF Expiries

\* Copies of token rows never bring back an expiry that the row did not have
LEMMA ExpiryStep ==
  ASSUME TokenInv, ExpiryInv, [Next]_vars
  PROVE  OneExpiry' /\ \A t \in Tokens : Begun(t) => Expiries(t)' \subseteq Expiries(t)
<1>1. ASSUME NEW p \in Procs, Begin(p) \/ Step(p), NEW t \in Tokens
      PROVE  Expiries(t)' \subseteq Expiries(t) \cup {token'[t].expires} /\ Redated(t)
  <2>1. CASE RecoverList(p)
    <3> DEFINE f == [NoFrame EXCEPT !.op = "recover", !.at = now]
    <3>1. Goto(p, "recover", f) /\ token' = token
      BY <2>1 DEF RecoverList, storeVars
    <3>2. f.todo = {}
      BY DEF NoFrame
    <3> HIDE DEF f
    <3>3. Held("recover", f, t) = {}
      BY <3>2 DEF Held, WriteLabels
    <3>4. QED
      BY <3>1, <3>3, ExpiriesMoved DEF TokenInv, Redated
  <2>2. CASE ~RecoverList(p)
    <3>1. Steers(p) /\ (RedeemActivate(p) \/ ClosesOnly)
      BY <1>1, <2>2, HandlerSteers
    <3>2. Expiries(t)' \subseteq Expiries(t) \cup {token'[t].expires}
      BY <3>1, ExpiriesMoved DEF Steers, Follows, TokenInv
    <3>3. CASE RedeemActivate(p)
      <4>1. /\ token' = [token EXCEPT ![loc[p].tid] = Activated(p)]
            /\ token[loc[p].tid].status = "unused"
        BY <3>3, InTx DEF RedeemActivate, Holds, TxLabels
      <4>2. Activated(p).status = "active"
        BY DEF Activated
      <4>3. Redated(t)
        BY <4>1, <4>2 DEF Redated, Begun, TokenInv, TypeOK
      <4>4. QED
        BY <3>2, <4>3
    <3>4. QED
      BY <3>1, <3>2, <3>3 DEF ClosesOnly, Redated
  <2>3. QED
    BY <2>1, <2>2
<1>2. ASSUME NEW u \in Tokens, GenerateToken(u), NEW t \in Tokens
      PROVE  Expiries(t)' \subseteq Expiries(t) \cup {token'[t].expires} /\ Redated(t)
  <2>1. UNCHANGED <<pc, loc>> /\ token' = [token EXCEPT ![u] = UnusedToken]
        /\ token[u].status = "absent"
    BY <1>2 DEF GenerateToken, requestVars
  <2>2. Expiries(t)' \subseteq Expiries(t) \cup {token'[t].expires}
    BY <2>1 DEF Expiries, Held
  <2>3. Redated(t)
    BY <2>1 DEF Redated, Begun, UnusedToken, TokenInv, TypeOK
  <2>4. QED
    BY <2>2, <2>3
<1>3. ASSUME Tick \/ UNCHANGED vars, NEW t \in Tokens
      PROVE  Expiries(t)' \subseteq Expiries(t) \cup {token'[t].expires} /\ Redated(t)
  <2>1. UNCHANGED <<pc, loc, token>>
    BY <1>3 DEF Tick, vars, storeVars, requestVars
  <2>2. QED
    BY <2>1 DEF Expiries, Held, Redated
<1>4. ASSUME NEW t \in Tokens
      PROVE  Expiries(t)' \subseteq Expiries(t) \cup {token'[t].expires} /\ Redated(t)
  <2>1. ASSUME NEW p \in Procs, Abort(p)
        PROVE  Expiries(t)' \subseteq Expiries(t) \cup {token'[t].expires} /\ Redated(t)
    <3>1. Steers(p) /\ token' = token
      BY <2>1, Known, EndSteers DEF Abort
    <3>2. QED
      BY <3>1, ExpiriesMoved DEF Steers, Follows, TokenInv, Redated
  <2>2. QED
    BY <1>1, <1>2, <1>3, <2>1 DEF Next
<1>5. ASSUME NEW t \in Tokens, Begun(t)
      PROVE  Expiries(t)' \subseteq Expiries(t)
  <2>1. token[t].expires \in Expiries(t)
    BY DEF Expiries
  <2>2. QED
    BY <1>4, <1>5, <2>1 DEF Redated
<1>6. ASSUME NEW t \in Tokens, ~Begun(t)'
      PROVE  token'[t].expires = 0
  <2>1. ~Begun(t)
    BY <1>6, BegunStep
  <2>2. token[t].expires = 0
    BY <2>1 DEF ExpiryInv, OneExpiry
  <2>3. token'[t].status \notin TerminalStatus
    BY <1>6 DEF Begun, TerminalStatus
  <2>4. QED
    BY <1>4, <1>6, <2>2, <2>3 DEF Redated
<1>7. ASSUME NEW t \in Tokens, ~Terminal(t)'
      PROVE  Expiries(t)' \subseteq {0, token'[t].expires}
  <2>1. CASE token'[t] = token[t]
    <3>1. Expiries(t) \subseteq {0, token[t].expires}
      BY <1>7, <2>1 DEF Terminal, ExpiryInv, OneExpiry
    <3>2. QED
      BY <1>4, <2>1, <3>1
  <2>2. CASE ~Begun(t)
    <3>1. token[t].expires = 0 /\ ~Terminal(t)
      BY <2>2 DEF ExpiryInv, OneExpiry, Begun, Terminal, TerminalStatus
    <3>2. Expiries(t) \subseteq {0}
      BY <3>1 DEF ExpiryInv, OneExpiry
    <3>3. QED
      BY <1>4, <3>2
  <2>3. QED
    BY <1>4, <1>7, <2>1, <2>2 DEF Redated, Terminal
<1>8. QED
  BY <1>5, <1>6, <1>7 DEF OneExpiry

\* Only a recovery is in its loop
LEMMA NextExpiry ==
  ASSUME TokenInv, ExpiryInv, [Next]_vars
  PROVE  ExpiryInv'
<1>1. ASSUME NEW q \in Procs, pc'[q] \in RecoverLabels
      PROVE  loc'[q].op = "recover"
  <2>1. CASE pc'[q] = pc[q] /\ loc'[q] = loc[q]
    BY <1>1, <2>1 DEF ExpiryInv
  <2>2. CASE RecoverList(q)
    BY <2>2 DEF RecoverList, Goto, NoFrame, TokenInv, TypeOK
  <2>3. CASE Abort(q) \/ ((Begin(q) \/ Step(q)) /\ ~RecoverList(q))
    <3>1. Steers(q)
      BY <2>3, Known, EndSteers, HandlerSteers DEF Abort
    <3>2. PICK l, f : Goto(q, l, f) /\ Follows(q, l, f)
      BY <3>1 DEF Steers
    <3>3. QED
      BY <1>1, <3>2 DEF Goto, Follows, TokenInv, TypeOK
  <2>4. QED
    BY <2>1, <2>2, <2>3, OneMoves DEF TokenInv
<1>2. QED
  BY <1>1, ExpiryStep DEF ExpiryInv

LEMMA InitExpiry == Init => ExpiryInv
<1> SUFFICES ASSUME Init PROVE ExpiryInv
  OBVIOUS
<1>1. \A p \in Procs : pc[p] = "idle" /\ loc[p].todo = {}
  BY DEF Init, RequestInit, NoFrame
<1>2. \A t \in Tokens : token[t].status = "absent" /\ token[t].expires = 0
  BY DEF Init, StoreInit, AbsentToken
<1>3. OneExpiry
  BY <1>1, <1>2 DEF OneExpiry, Begun, Expiries, Held, WriteLabels
<1>4. QED
  BY <1>1, <1>3 DEF ExpiryInv, RecoverLabels

\* Whatever stale token rows revocations and sweeps write back, a token has one
\* expiry, the one its activation gave it; only a token that is over may have lost it
THEOREM ExpiryInvariant == Spec => []ExpiryInv
<1>1. TokenInv /\ ExpiryInv /\ [Next]_vars => ExpiryInv'
  BY NextExpiry
<1>2. QED
  BY <1>1, InitExpiry, TokenInvariant, PTL DEF Spec

------------------------------------------------------------------------------
\* The calls of a recovery
LEMMA RecoveryCalls ==
  ASSUME NEW p \in Procs, Begin(p) \/ Step(p), pc[p] \in RecoverLabels \cup CallLabels
  PROVE  RecoveryStep(p) \/ GatewayStoreStep(p) \/ ControllerStep(p)
<1> USE DEF RecoverLabels, CallLabels
<1>1. ~TokenBegin(p) /\ ~AccountingBegin(p) /\ ~GatewayBegin(p) /\ ~RecoverList(p)
  BY DEF TokenBegin, BeginRedeem, BeginPortal, BeginAuth, Enter, RevokeRead, SweepList,
         AccountingBegin, StartFind, BeginInterim, BeginStop, AcctStart, AcctUpdate,
         GatewayBegin, BeginDisconnect, BeginRetry, RecoverList, Arrives, Dequeues
<1>2. ~RedeemStep(p)
  BY DEF RedeemStep, RedeemUnknown, RedeemLock, ResumeUnused, RedeemRefused, RedeemExpired,
         RedeemExpiredKept, RedeemActivate, ResumeFind, ResumeAttach, ResumeReopen, Holds,
         Expires
<1>3. ~TokenStep(p)
  BY <1>2 DEF TokenStep, RevokeWrite, RevokeFind, RevokeEnd, SweepExpire, SweepFind, SweepEnd
<1>4. ~AccountingStep(p)
  BY DEF AccountingStep, StartSave, StartCreate, UsageRead, UsageWrite, UsageRecord,
         QuotaCheck, QuotaEnd, QuotaConsume, StopRead, StopWrite, AcctTouch
<1>5. QED
  BY <1>1, <1>3, <1>4 DEF Begin, Step

\* Over the memory store a session that a step leaves active was active before, or was
\* opened by it
LEMMA ActiveBefore ==
  ASSUME TokenInv, SessionInv, CopyInv, Backend = "memory", Ops \cap StaleWriters = {},
         NEW p \in Procs, Begin(p) \/ Step(p), NEW s \in Sessions,
         session'[s].status = "active"
  PROVE  \/ session[s].status = "active" /\ session'[s].tok = session[s].tok
         \/ /\ RedeemActivate(p) \/ ResumeReopen(p)
            /\ session'[s].tok = loc[p].tid
<1>1. CASE Ending(p)
  BY <1>1 DEF Ending, Ends
<1>2. CASE ResumeFind(p)
  BY <1>2 DEF ResumeFind, storeVars
<1>3. CASE ResumeAttach(p)
  <2> DEFINE row == Attached(loc[p].ses, loc[p].rid)
  <2>1. /\ session' = [session EXCEPT ![loc[p].sid] = row]
        /\ pc[p] = "found" /\ loc[p].sid # None
    BY <1>3 DEF ResumeAttach, UpdateSession
  <2>2. session[loc[p].sid].status = "active"
    BY <2>1 DEF SessionInv, FoundAllOnly, FoundOnly
  <2>3. loc[p].ses.tok = session[loc[p].sid].tok
    BY <2>1 DEF CopyInv, FramesFit, FrameFit, Copy
  <2>4. row.tok = loc[p].ses.tok
    BY Known, RowColumns
  <2> HIDE DEF row
  <2>5. QED
    BY <2>1, <2>2, <2>3, <2>4 DEF TokenInv, TypeOK
<1>4. CASE RedeemActivate(p) \/ ResumeReopen(p)
  <2>1. pc[p] \in TxLabels
    BY <1>4 DEF RedeemActivate, ResumeReopen, Holds, TxLabels
  <2>2. PICK r \in Sessions : CreateSession(p, r, Opened(p))
    BY <1>4 DEF RedeemActivate, ResumeReopen
  <2>3. Opened(p).tok = loc[p].tid
    BY <2>1, OpenedSession
  <2>4. session' = [session EXCEPT ![r] = Opened(p)]
    BY <2>2 DEF CreateSession
  <2>5. QED
    BY <1>4, <2>3, <2>4 DEF TokenInv, TypeOK
<1>5. QED
  BY <1>1, <1>2, <1>3, <1>4, HandlerKinds DEF Admits

\* A transaction that opens a session next to a recovery read its clock after it
LEMMA OpenedOutlives ==
  ASSUME TokenInv, SessionInv, RecoverInv, Backend = "memory", Ops \cap StaleWriters = {},
         [Next]_vars, NEW p \in Procs, RedeemActivate(p) \/ ResumeReopen(p),
         NEW q \in Procs, loc[q].op = "recover", NEW t, t = loc[p].tid,
         NEW k, k = loc[q].at
  PROVE  Outlives(t, k)'
<1>0. /\ t \in Tokens /\ loc[p].tok = token[t] /\ pc[p] \in TxLabels
      /\ loc[p].at \in Nat /\ loc[q].at \in Nat /\ loc[q].at <= loc[p].at
  <2>1. pc[p] \in TxLabels
    BY DEF RedeemActivate, ResumeReopen, Holds, TxLabels
  <2>2. loc[p].at \in Nat /\ loc[q].at \in Nat
    BY Known DEF Frame
  <2>3. QED
    BY <2>1, <2>2, InTx DEF RecoverInv, Recovering
<1>1. OneExpiry' /\ (Begun(t) => Expiries(t)' \subseteq Expiries(t))
  BY <1>0, ExpiryStep DEF RecoverInv
<1>2. CASE ResumeReopen(p)
  <2>1. token[t].status = "active" /\ loc[p].at < token[t].expires
    BY <1>0, <1>2 DEF ResumeReopen, TokenInv, LockHeld
  <2>2. Begun(t) /\ ~Terminal(t)
    BY <2>1 DEF Begun, Terminal, TerminalStatus
  <2>3. Expiries(t)' \subseteq {0, token[t].expires}
    BY <1>0, <1>1, <2>2 DEF RecoverInv, ExpiryInv, OneExpiry
  <2>4. token[t].expires \in Nat
    BY <1>0 DEF TokenInv, TypeOK, TokenRow
  <2>5. QED
    BY <1>0, <2>1, <2>3, <2>4 DEF Outlives
<1>3. CASE RedeemActivate(p)
  <2>1. token' = [token EXCEPT ![t] = Activated(p)]
    BY <1>3 DEF RedeemActivate
  <2>2. Activated(p).status = "active" /\ Activated(p).expires = loc[p].at + Duration[t]
    BY DEF Activated
  <2>3. token'[t].status = "active" /\ token'[t].expires = loc[p].at + Duration[t]
    BY <1>0, <2>1, <2>2 DEF TokenInv, TypeOK
  <2>4. Expiries(t)' \subseteq {0, token'[t].expires}
    BY <1>0, <1>1, <2>3 DEF OneExpiry, Terminal, TerminalStatus
  <2>5. Duration[t] \in Nat
    BY <1>0, PlanAssumption
  <2>6. QED
    BY <1>0, <2>3, <2>4, <2>5 DEF Outlives
<1>4. QED
  BY <1>2, <1>3

\* A handler enters a transaction with the clock it reads there
LEMMA TransactionClock ==
  ASSUME TokenInv, SessionInv, RecoverInv, Backend = "memory", Ops \cap StaleWriters = {},
         NEW p \in Procs, Begin(p) \/ Step(p), NEW r \in Procs, pc'[r] \in TxLabels
  PROVE  loc'[r].at = now \/ (pc[r] \in TxLabels /\ loc'[r].at = loc[r].at)
<1>1. CASE RecoverList(p)
  BY <1>1 DEF RecoverList, Goto, TokenInv, TypeOK, TxLabels
<1>2. CASE ~RecoverList(p)
  <2>1. PICK l, f : Goto(p, l, f) /\ Follows(p, l, f)
    BY <1>2, HandlerSteers DEF Steers, RecoverInv
  <2>2. QED
    BY <2>1 DEF Goto, Follows, TokenInv, TypeOK
<1>3. QED
  BY <1>1, <1>2
\* What remains to show of a handler's step for a recovery q under way
LEMMA RecoversOn ==
  ASSUME TokenInv, TokenInv', SessionInv, CopyInv, RecoverInv, Backend = "memory",
         Ops \cap StaleWriters = {}, [Next]_vars, NEW p \in Procs, Begin(p) \/ Step(p),
         NEW q \in Procs, loc[q].op = "recover", loc'[q].at = loc[q].at,
         pc'[q] \in RecoverLabels \cup CallLabels,
         pc'[q] \in CallLabels => session'[loc'[q].sid].status = "ended",
         \A s \in Sessions :
           session[s].status = "active" /\ session'[s].status = "active" =>
             Awaits(q, s)' \/ Outlives(session[s].tok, loc[q].at)
  PROVE  Recovering(q)'
<1>0. PICK k : k = loc[q].at
  OBVIOUS
<1>1. k \in Nat /\ now \in Nat /\ k <= now /\ loc'[q].at = k
  BY <1>0, Known DEF CopyInv, FramesFit, FrameFit, Frame, TokenInv, TypeOK
<1>2. ASSUME NEW r \in Procs, pc'[r] \in TxLabels
      PROVE  k <= loc'[r].at
  BY <1>0, <1>1, <1>2, TransactionClock DEF RecoverInv, Recovering
<1>3. ASSUME NEW s \in Sessions, session'[s].status = "active", ~Awaits(q, s)',
             NEW t, t = session'[s].tok
      PROVE  Outlives(t, k)'
  <2>1. CASE session[s].status = "active" /\ session'[s].tok = session[s].tok
    <3>1. t \in Tokens /\ Begun(t)
      BY <1>3, <2>1, FoundRow DEF SessionInv, UnbegunUnserved, ActiveSessions, Begun
    <3>2. Expiries(t)' \subseteq Expiries(t)
      BY <3>1, ExpiryStep DEF RecoverInv
    <3>3. Outlives(t, k)
      BY <1>0, <1>3, <2>1
    <3>4. QED
      BY <3>2, <3>3 DEF Outlives
  <2>2. CASE /\ RedeemActivate(p) \/ ResumeReopen(p)
             /\ session'[s].tok = loc[p].tid
    BY <1>0, <1>3, <2>2, OpenedOutlives
  <2>3. QED
    BY <1>3, <2>1, <2>2, ActiveBefore
<1>4. \A s \in Sessions :
        session'[s].status = "active" =>
          Awaits(q, s)' \/ Outlives(session[s].tok, loc[q].at)'
  <2> SUFFICES ASSUME NEW s \in Sessions, session'[s].status = "active", ~Awaits(q, s)'
               PROVE  Outlives(session[s].tok, loc[q].at)'
    OBVIOUS
  <2>1. PICK t : t = session'[s].tok
    OBVIOUS
  <2>2. Outlives(t, k)'
    BY <1>3, <2>1
  <2>3. QED
    BY <1>1, <2>1, <2>2 DEF Outlives, Expiries, Held
<1>5. QED
  BY <1>1, <1>2, <1>4 DEF Recovering
\* A handler changes nothing of another one's
LEMMA Alone ==
  ASSUME TokenInv, SessionInv, ExpiryInv, Ops \cap StaleWriters = {},
         NEW p \in Procs, Begin(p) \/ Step(p), NEW q \in Procs, q # p
  PROVE  pc'[q] = pc[q] /\ loc'[q] = loc[q] /\ backlog'[q] = backlog[q]
<1>1. pc'[q] = pc[q] /\ loc'[q] = loc[q]
  <2>1. \E l, f : Goto(p, l, f)
    BY HandlerSteers, Zenon DEF RecoverList, Steers
  <2>2. QED
    BY <2>1 DEF Goto, TokenInv, TypeOK
<1>2. \/ backlog' = backlog
      \/ \E S : backlog' = [backlog EXCEPT ![p] = S]
  BY DEF Begin, Step, RecoverList, RecoveryStep, RecoverRead, RecoverEnd, RecoverDone
<1>3. backlog'[q] = backlog[q]
  BY <1>2 DEF TokenInv, TypeOK
<1>4. QED
  BY <1>1, <1>3

\* Where the loop of the recovery goes on
LEMMA NextVisit ==
  ASSUME TypeOK, NEW p \in Procs, RecoverNext(p)
  PROVE  pc'[p] = "recover" /\ loc'[p].at = loc[p].at
<1>1. [NoFrame EXCEPT !.op = "recover", !.at = loc[p].at].at = loc[p].at
  BY DEF NoFrame
<1>2. QED
  BY <1>1 DEF RecoverNext, Goto, TypeOK

\* DisconnectSession returns to the recovery, whatever the controller answers
LEMMA CallGoesOn ==
  ASSUME TokenInv, RecoverInv, NEW p \in Procs, loc[p].op = "recover", pc[p] \in CallLabels,
         GatewayStoreStep(p) \/ ControllerStep(p)
  PROVE  /\ loc'[p].at = loc[p].at
         /\ \/ pc'[p] = "recover"
            \/ pc'[p] \in CallLabels /\ loc'[p].sid = loc[p].sid
<1>0. loc[p] \in Frame /\ TypeOK /\ session[loc[p].sid].status = "ended"
  BY Known DEF TokenInv, RecoverInv, Recovering
<1>1. ASSUME NEW row, NEW l \in CallLabels,
             Goto(p, l, loc[p]) \/ Goto(p, l, [loc[p] EXCEPT !.ses = row])
      PROVE  loc'[p].at = loc[p].at /\ pc'[p] \in CallLabels /\ loc'[p].sid = loc[p].sid
  <2>1. PICK f : f.at = loc[p].at /\ f.sid = loc[p].sid /\ Goto(p, l, f)
    <3>1. LET f == [loc[p] EXCEPT !.ses = row] IN f.at = loc[p].at /\ f.sid = loc[p].sid
      BY <1>0 DEF Frame
    <3>2. QED
      BY <1>1, <3>1, Zenon
  <2>2. QED
    BY <1>0, <2>1 DEF Goto, TypeOK
<1>2. CASE DisconnectRead(p)
  <2>1. \/ Returned(p)
        \/ Goto(p, "dc_mark", [loc[p] EXCEPT !.ses = Marked(session[loc[p].sid], loc[p].reason)])
    BY <1>0, <1>2 DEF DisconnectRead
  <2>2. CASE Returned(p)
    BY <1>0, <2>2, NextVisit DEF Returned
  <2>3. "dc_mark" \in CallLabels
    BY DEF CallLabels
  <2>4. QED
    BY <1>1, <2>1, <2>2, <2>3, Zenon
<1>3. CASE DisconnectMark(p) \/ GatewayAck(p)
  <2>1. \/ Goto(p, "dc_call", loc[p])
        \/ Goto(p, "dc_clear", [loc[p] EXCEPT !.ses = Pending(loc[p].ses, FALSE)])
    BY <1>3 DEF DisconnectMark, GatewayAck
  <2>2. "dc_call" \in CallLabels /\ "dc_clear" \in CallLabels
    BY DEF CallLabels
  <2>3. QED
    BY <1>1, <2>1, <2>2, Zenon
<1>4. CASE GatewayFail(p) \/ DisconnectClear(p)
  BY <1>0, <1>4, NextVisit DEF GatewayFail, DisconnectClear, GaveUp, Returned
<1>5. QED
  BY <1>2, <1>3, <1>4 DEF GatewayStoreStep, ControllerStep

\* A recovery closes every session of its list whose token ran out before it began
LEMMA VisitGoesOn ==
  ASSUME TokenInv, SessionInv, CopyInv, RecoverInv, NEW p \in Procs, loc[p].op = "recover",
         RecoverRead(p) \/ RecoverEnd(p)
  PROVE  /\ loc'[p].at = loc[p].at
         /\ pc'[p] \in RecoverLabels \cup CallLabels
         /\ pc'[p] \in CallLabels => session'[loc'[p].sid].status = "ended"
         /\ \A s \in Sessions :
              session[s].status = "active" /\ session'[s].status = "active" =>
                Awaits(p, s)' \/ Outlives(session[s].tok, loc[p].at)
<1>0. loc[p] \in Frame /\ TypeOK /\ Recovering(p)
  BY Known DEF TokenInv, RecoverInv
<1>1. CASE RecoverRead(p)
  <2>1. PICK d \in backlog[p] :
          /\ backlog' = [backlog EXCEPT ![p] = @ \ {d}]
          /\ IF Leftover(token[d[2].tok], loc[p].at)
             THEN Goto(p, "recover_end",
                       [loc[p] EXCEPT !.sid = d[1],
                                      !.ses = EndedSession(d[2], "recovered_closed", TRUE)])
             ELSE RecoverNext(p)
    BY <1>1 DEF RecoverRead
  <2>2. pc[p] = "recover" /\ session' = session
    BY <1>1 DEF RecoverRead, storeVars
  <2>3. d[1] \in Sessions /\ d[2].tok = session[d[1]].tok
    BY <2>1 DEF TokenInv, TypeOK, CopyInv, BacklogFit, Copy
  <2>4. backlog'[p] = backlog[p] \ {d}
    BY <1>0, <2>1 DEF TypeOK
  <2>5. CASE Leftover(token[d[2].tok], loc[p].at)
    <3> DEFINE f == [loc[p] EXCEPT !.sid = d[1],
                                   !.ses = EndedSession(d[2], "recovered_closed", TRUE)]
    <3>1. f.at = loc[p].at /\ f.sid = d[1]
      BY <1>0 DEF Frame
    <3>2. Goto(p, "recover_end", f)
      BY <2>1, <2>5
    <3> HIDE DEF f
    <3>3. pc'[p] = "recover_end" /\ loc'[p].at = loc[p].at /\ loc'[p].sid = d[1]
      BY <1>0, <3>1, <3>2 DEF Goto, TypeOK
    <3>4. \A s \in Sessions : Awaits(p, s) => Awaits(p, s)'
      BY <2>2, <2>4, <3>3 DEF Awaits
    <3>5. QED
      BY <1>0, <3>3, <3>4 DEF Recovering, RecoverLabels, CallLabels
  <2>6. CASE ~Leftover(token[d[2].tok], loc[p].at)
    <3>1. pc'[p] = "recover" /\ loc'[p].at = loc[p].at
      BY <1>0, <2>1, <2>6, NextVisit
    <3>2. ASSUME NEW s \in Sessions, session[s].status = "active", s = d[1]
          PROVE  Outlives(session[s].tok, loc[p].at)
      <4> DEFINE t == session[s].tok
      <4>1. t \in Tokens
        BY <3>2, FoundRow
      <4>2. token[t].status = "active" /\ (token[t].expires = 0 \/ ~(token[t].expires < loc[p].at))
        BY <2>3, <2>6, <3>2 DEF Leftover
      <4>3. Expiries(t) \subseteq {0, token[t].expires}
        BY <4>1, <4>2 DEF RecoverInv, ExpiryInv, OneExpiry, Terminal, TerminalStatus
      <4>4. token[t].expires \in Nat /\ loc[p].at \in Nat
        BY <1>0, <4>1 DEF TypeOK, TokenRow, Frame
      <4> HIDE DEF t
      <4>5. Outlives(t, loc[p].at)
        BY <4>2, <4>3, <4>4 DEF Outlives
      <4>6. QED
        BY <4>5 DEF t
    <3>3. \A s \in Sessions : Awaits(p, s) => Awaits(p, s)' \/ s = d[1]
      BY <2>2, <2>4 DEF Awaits
    <3>4. QED
      BY <1>0, <3>1, <3>2, <3>3 DEF Recovering, RecoverLabels, CallLabels
  <2>7. QED
    BY <2>5, <2>6
<1>2. CASE RecoverEnd(p)
  <2>1. /\ pc[p] = "recover_end" /\ backlog' = backlog
        /\ session' = [session EXCEPT ![loc[p].sid] = loc[p].ses]
        /\ CallDisconnect(p, loc[p].sid, "recovered_closed")
    BY <1>2 DEF RecoverEnd, UpdateSession
  <2>2. loc[p].ses.status = "ended" /\ loc[p].sid \in Sessions
    BY <2>1, Known DEF SessionInv, FramesEnd, EndingLabels, SessionLabels
  <2>3. session'[loc[p].sid].status = "ended"
    BY <1>0, <2>1, <2>2 DEF TypeOK
  <2> DEFINE f == [NoFrame EXCEPT !.op = loc[p].op, !.sid = loc[p].sid,
                                  !.reason = "recovered_closed", !.flag = TRUE,
                                  !.todo = loc[p].todo, !.at = loc[p].at]
  <2>4. f.at = loc[p].at /\ f.sid = loc[p].sid
    BY DEF NoFrame
  <2>5. Goto(p, "dc_read", f)
    BY <2>1 DEF CallDisconnect
  <2> HIDE DEF f
  <2>6. pc'[p] = "dc_read" /\ loc'[p].at = loc[p].at /\ loc'[p].sid = loc[p].sid
    BY <1>0, <2>4, <2>5 DEF Goto, TypeOK
  <2>7. \A s \in Sessions : Awaits(p, s) => Awaits(p, s)' \/ s = loc[p].sid
    BY <2>1 DEF Awaits
  <2>8. QED
    BY <1>0, <2>3, <2>6, <2>7 DEF Recovering, RecoverLabels, CallLabels
<1>3. QED
  BY <1>1, <1>2
LEMMA HandlerRecovers ==
  ASSUME TokenInv, TokenInv', SessionInv, CopyInv, RecoverInv, Backend = "memory",
         Ops \cap StaleWriters = {}, [Next]_vars, NEW p \in Procs, Begin(p) \/ Step(p),
         NEW q \in Procs, loc[q].op = "recover", q # p \/ ~RecoverDone(p)
  PROVE  Recovering(q)' /\ pc'[q] # "idle"
<1>0. Recovering(q)
  BY DEF RecoverInv
<1>1. CASE q # p
  <2>1. pc'[q] = pc[q] /\ loc'[q] = loc[q] /\ backlog'[q] = backlog[q]
    BY <1>1, Alone DEF RecoverInv
  <2>2. pc[q] \in CallLabels => session'[loc[q].sid].status = "ended"
    <3>1. pc[q] \in CallLabels => loc[q].sid \in Sessions /\ session[loc[q].sid].status = "ended"
      BY <1>0, Known DEF Recovering, CallLabels, SessionLabels
    <3>2. QED
      BY <3>1, EndedStep
  <2>3. \A s \in Sessions : Awaits(q, s)' = Awaits(q, s)
    BY <2>1 DEF Awaits
  <2>4. Recovering(q)'
    BY <1>0, <2>1, <2>2, <2>3, RecoversOn DEF Recovering
  <2>5. QED
    BY <1>0, <2>1, <2>4 DEF Recovering, RecoverLabels, CallLabels
<1>2. CASE q = p /\ pc[p] \in CallLabels
  <2>1. GatewayStoreStep(p) \/ ControllerStep(p)
    BY <1>2, RecoveryCalls
    DEF RecoveryStep, RecoverRead, RecoverEnd, RecoverDone, CallLabels
  <2>2. /\ loc'[p].at = loc[p].at
        /\ \/ pc'[p] = "recover"
           \/ pc'[p] \in CallLabels /\ loc'[p].sid = loc[p].sid
    BY <1>2, <2>1, CallGoesOn
  <2>3. loc[p].sid \in Sessions /\ session'[loc[p].sid].status = "ended"
    <3>1. loc[p].sid \in Sessions /\ session[loc[p].sid].status = "ended"
      BY <1>0, <1>2, Known DEF Recovering, CallLabels, SessionLabels
    <3>2. QED
      BY <3>1, EndedStep
  <2>4. \A s \in Sessions : Awaits(p, s) => Awaits(p, s)'
    <3>1. backlog' = backlog
      BY <1>2, RecoveryCalls
      DEF Begin, Step, RecoverList, RecoveryStep, RecoverRead, RecoverEnd, RecoverDone,
          CallLabels, Arrives
    <3>2. QED
      BY <1>2, <3>1 DEF Awaits, CallLabels
  <2>5. Recovering(p)'
    <3>1. pc'[p] \in RecoverLabels \cup CallLabels
      BY <2>2 DEF RecoverLabels
    <3>2. pc'[p] \in CallLabels => session'[loc'[p].sid].status = "ended"
      BY <2>2, <2>3 DEF CallLabels
    <3>3. \A s \in Sessions :
            session[s].status = "active" => Awaits(p, s)' \/ Outlives(session[s].tok, loc[p].at)
      BY <1>0, <1>2, <2>4 DEF Recovering
    <3>4. loc[p].op = "recover"
      BY <1>2
    <3>5. QED
      BY <2>2, <3>1, <3>2, <3>3, <3>4, RecoversOn
  <2>6. QED
    BY <1>2, <2>2, <2>5 DEF CallLabels
<1>3. CASE q = p /\ pc[p] \in RecoverLabels
  <2>1. RecoverRead(p) \/ RecoverEnd(p)
    BY <1>3, RecoveryCalls
    DEF RecoveryStep, GatewayStoreStep, DisconnectRead, DisconnectMark, DisconnectClear,
        ControllerStep, GatewayAck, GatewayFail, RecoverLabels
  <2>2. Recovering(p)'
    BY <1>3, <2>1, VisitGoesOn, RecoversOn
  <2>3. QED
    BY <1>3, <2>2 DEF Recovering, RecoverLabels, CallLabels
<1>4. QED
  BY <1>0, <1>1, <1>2, <1>3 DEF Recovering

\* The list of a recovery has every session it could leave behind, and no transaction
\* is under way when it reads its clock
LEMMA ListRecovers ==
  ASSUME TokenInv, SessionInv, Backend = "memory", NEW p \in Procs, RecoverList(p),
         MutexFree(p)
  PROVE  loc'[p].op = "recover" /\ Recovering(p)'
<1> DEFINE f == [NoFrame EXCEPT !.op = "recover", !.at = now]
           listed == {<<s, session[s]>> : s \in {r \in Sessions : session[r].status = "active"}}
<1>1. /\ Goto(p, "recover", f) /\ session' = session /\ pc[p] = "idle"
      /\ backlog' = [backlog EXCEPT ![p] = listed]
  BY DEF RecoverList, storeVars, Arrives
<1>2. f.op = "recover" /\ f.at = now
  BY DEF NoFrame
<1>3. \A s \in Sessions : session[s].status = "active" => \E d \in listed : d[1] = s
  <2> SUFFICES ASSUME NEW s \in Sessions, session[s].status = "active"
               PROVE  \E d \in listed : d[1] = s
    OBVIOUS
  <2>1. <<s, session[s]>> \in listed
    OBVIOUS
  <2> HIDE DEF listed
  <2>2. QED
    BY <2>1
<1> HIDE DEF f, listed
<1>4. pc'[p] = "recover" /\ loc'[p] = f /\ backlog'[p] = listed
  BY <1>1 DEF Goto, TokenInv, TypeOK
<1>5. ASSUME NEW q \in Procs
      PROVE  pc'[q] \notin TxLabels
  <2>1. CASE q = p
    BY <1>4, <2>1 DEF TxLabels
  <2>2. CASE q # p
    <3>1. pc'[q] = pc[q]
      BY <1>1, <2>2 DEF Goto, TokenInv, TypeOK
    <3>2. pc[q] \notin TxLabels
      BY <2>2, InTx, ProcAssumption DEF MutexFree
    <3>3. QED
      BY <3>1, <3>2
  <2>3. QED
    BY <2>1, <2>2
<1>6. \A s \in Sessions : session'[s].status = "active" => Awaits(p, s)'
  BY <1>1, <1>3, <1>4 DEF Awaits
<1>7. QED
  BY <1>2, <1>4, <1>5, <1>6 DEF Recovering, RecoverLabels, CallLabels

LEMMA InitRecover == Init => RecoverInv
<1>1. Init => \A p \in Procs : loc[p].op = "none"
  BY DEF Init, RequestInit, NoFrame
<1>2. QED
  BY <1>1, InitExpiry DEF RecoverInv

LEMMA NextRecover ==
  ASSUME TokenInv, SessionInv, CopyInv, RecoverInv, Backend = "memory",
         Ops \cap StaleWriters = {}, [Next]_vars
  PROVE  RecoverInv'
<1>0. ExpiryInv /\ TokenInv' /\ ExpiryInv'
  BY NextInv, NextExpiry DEF RecoverInv
<1>1. ASSUME NEW p \in Procs, Begin(p) \/ Step(p), NEW q \in Procs
      PROVE  loc'[q].op = "recover" => Recovering(q)'
  <2>1. CASE q # p
    <3>1. loc'[q] = loc[q]
      BY <1>0, <1>1, <2>1, Alone
    <3>2. HAVE loc'[q].op = "recover"
    <3>3. loc[q].op = "recover"
      BY <3>1, <3>2
    <3>4. QED
      BY <1>0, <1>1, <2>1, <3>3, HandlerRecovers
  <2>2. CASE q = p /\ RecoverList(p)
    <3>1. MutexFree(p)
      BY <1>1, <2>2
      DEF Begin, Step, RecoverList, Arrives, ControllerStep, GatewayAck, GatewayFail
    <3>2. QED
      BY <2>2, <3>1, ListRecovers
  <2>3. CASE q = p /\ ~RecoverList(p)
    <3>1. PICK l, f : Goto(p, l, f) /\ Follows(p, l, f)
      BY <1>0, <1>1, <2>3, HandlerSteers DEF Steers
    <3>2. pc'[p] = l /\ loc'[p] = f
      BY <3>1 DEF Goto, TokenInv, TypeOK
    <3>3. loc'[p].op = "recover" => loc[p].op = "recover" /\ ~RecoverDone(p)
      <4>1. RecoverDone(p) => loc'[p].op = "none"
        BY DEF RecoverDone, Finish, Goto, NoFrame, TokenInv, TypeOK
      <4>2. QED
        BY <3>1, <3>2, <4>1 DEF Follows
    <3>4. QED
      BY <1>0, <1>1, <2>3, <3>3, HandlerRecovers
  <2>4. QED
    BY <2>1, <2>2, <2>3
<1>2. CASE UNCHANGED <<pc, loc, session, backlog>>
  <2> SUFFICES ASSUME NEW q \in Procs PROVE loc'[q].op = "recover" => Recovering(q)'
    BY <1>0 DEF RecoverInv
  <2>1. ASSUME Recovering(q) PROVE Recovering(q)'
    <3>1. ASSUME NEW s \in Sessions, session[s].status = "active"
          PROVE  Awaits(q, s)' \/ Outlives(session[s].tok, loc[q].at)'
      <4>1. PICK t, k : t = session[s].tok /\ k = loc[q].at
        OBVIOUS
      <4>2. t \in Tokens /\ Begun(t)
        BY <3>1, <4>1, FoundRow DEF SessionInv, UnbegunUnserved, ActiveSessions, Begun
      <4>3. Outlives(t, k) => Outlives(t, k)'
        BY <1>0, <4>2, ExpiryStep DEF Outlives
      <4>4. Awaits(q, s) \/ Outlives(t, k)
        BY <2>1, <3>1, <4>1 DEF Recovering
      <4>5. Awaits(q, s)' = Awaits(q, s)
        BY <1>2 DEF Awaits
      <4>6. QED
        BY <1>2, <4>1, <4>3, <4>4, <4>5 DEF Outlives, Expiries, Held
    <3>2. QED
      BY <1>2, <2>1, <3>1 DEF Recovering
  <2>2. QED
    BY <1>2, <2>1 DEF RecoverInv
<1>3. ASSUME NEW t \in Tokens, GenerateToken(t), UNCHANGED <<reported, backlog>>
      PROVE  UNCHANGED <<pc, loc, session, backlog>>
  BY <1>3 DEF GenerateToken, requestVars
<1>4. Tick \/ UNCHANGED vars => UNCHANGED <<pc, loc, session, backlog>>
  BY DEF Tick, vars, storeVars, requestVars
<1>5. ~\E p \in Procs : Abort(p)
  BY DEF Abort
<1>6. QED
  BY <1>0, <1>1, <1>2, <1>3, <1>4, <1>5 DEF Next, RecoverInv

\* No copy of a token row, and no session opened meanwhile, escapes a recovery: as
\* long as it runs, an active session it no longer awaits has a token that has not
\* run out when it began
THEOREM RecoverInvariant ==
  ASSUME Backend = "memory", Ops \cap StaleWriters = {}
  PROVE  Spec => []RecoverInv
<1> DEFINE IInv == TokenInv /\ SessionInv /\ CopyInv /\ RecoverInv
<1>1. Init => IInv
  BY InitInv, InitSession, InitCopies, InitRecover
<1>2. IInv /\ [Next]_vars => IInv'
  BY NextInv, NextSession, NextCopies, NextRecover
<1>3. QED
  BY <1>1, <1>2, PTL DEF Spec

\* A recovery that runs to its end leaves no session active whose token had expired
\* before it read the clock, whatever the controller answers and whatever redeems,
\* resumes, revocations and sweeps do meanwhile
THEOREM RecoveryLeavesNone ==
  ASSUME Backend = "memory", Ops \cap StaleWriters = {}
  PROVE  Spec => RecoveryEndsOverdue
<1>1. ASSUME TokenInv, TokenInv', SessionInv, CopyInv, RecoverInv, [Next]_vars,
             NEW p \in Procs, loc[p].op = "recover", pc'[p] = "idle",
             NEW s \in Sessions, session[s].status = "active"
      PROVE  LET until == token[session[s].tok].expires IN until = 0 \/ loc[p].at <= until
  <2>1. Recovering(p) /\ pc[p] # "idle"
    BY <1>1 DEF RecoverInv, Recovering, RecoverLabels, CallLabels
  <2>2. PICK q \in Procs : Begin(q) \/ Step(q)
    <3>1. pc' # pc
      BY <1>1, <2>1
    <3>2. ASSUME NEW t \in Tokens PROVE ~GenerateToken(t)
      BY <3>1 DEF GenerateToken, requestVars
    <3>3. ~Tick /\ ~UNCHANGED vars /\ ~\E r \in Procs : Abort(r)
      BY <3>1 DEF Tick, vars, requestVars, Abort
    <3>4. QED
      BY <1>1, <3>2, <3>3 DEF Next
  <2>3. q = p /\ RecoverDone(p)
    BY <1>1, <2>2, HandlerRecovers
  <2>4. ~Awaits(p, s)
    BY <2>3 DEF RecoverDone, Awaits
  <2>5. Outlives(session[s].tok, loc[p].at)
    BY <1>1, <2>1, <2>4 DEF Recovering
  <2>6. QED
    BY <2>5 DEF Outlives, Expiries
<1>2. ASSUME TokenInv, TokenInv', SessionInv, CopyInv, RecoverInv, [Next]_vars
      PROVE  \A p \in Procs : loc[p].op = "recover" /\ pc'[p] = "idle" =>
               \A s \in Sessions :
                 session[s].status = "active" =>
                   LET until == token[session[s].tok].expires
                   IN until = 0 \/ loc[p].at <= until
  BY <1>1, <1>2
<1>3. QED
  BY <1>2, TokenInvariant, SessionInvariant, CopyInvariant, RecoverInvariant, PTL
  DEF Spec, RecoveryEndsOverdue

------------------------------------------------------------------------------
(* The sessions the gateway still forwards *)

LEMMA ExpiriesType ==
  ASSUME TypeOK, NEW t \in Tokens
  PROVE  Expiries(t) \subseteq Nat
<1>1. \A p \in Procs : loc[p].tok \in TokenRow /\ \A d \in loc[p].todo : d[2] \in TokenRow
  BY DEF TypeOK, Frame
<1>2. \A row \in TokenRow : row.expires \in Nat
  BY DEF TokenRow
<1>3. \A p \in Procs : Held(pc[p], loc[p], t) \subseteq Nat
  BY <1>1, <1>2 DEF Held
<1>4. token[t].expires \in Nat
  BY <1>2 DEF TypeOK
<1>5. QED
  BY <1>3, <1>4 DEF Expiries

\* A token whose time is up stays so, whichever copy of its row is written back
LEMMA SpentStep ==
  ASSUME TokenInv, ExpiryInv, [Next]_vars, NEW t \in Tokens, Spent(t)
  PROVE  Spent(t)'
<1>1. Begun(t)' /\ Expiries(t)' \subseteq Expiries(t)
  BY BegunStep, ExpiryStep DEF Spent
<1>2. \A until \in Expiries(t) : until \in Nat /\ until <= now
  BY ExpiriesType DEF Spent, TokenInv
<1>3. now \in Nat /\ now' \in {now, now + 1}
  BY MetersStep DEF Meters, TokenInv, TypeOK
<1>4. \A until \in Expiries(t) : until <= now'
  BY <1>2, <1>3
<1>5. QED
  BY <1>1, <1>4 DEF Spent

\* An active token that is overdue has no later expiry in any copy
LEMMA LateSpent ==
  ASSUME TypeOK, OneExpiry, NEW t \in Tokens, NEW at \in Nat, at <= now,
         Overdue(token[t], at)
  PROVE  Terminal(t) \/ Spent(t)
<1>1. token[t].expires \in Nat /\ now \in Nat
  BY DEF TypeOK, TokenRow
<1>2. Begun(t)
  BY DEF OneExpiry, Overdue
<1>3. CASE ~Terminal(t)
  <2>1. Expiries(t) \subseteq {0, token[t].expires}
    BY <1>3 DEF OneExpiry
  <2>2. token[t].expires <= now /\ 0 <= now
    BY <1>1 DEF Overdue
  <2>3. \A until \in Expiries(t) : until <= now
    BY <2>1, <2>2
  <2>4. QED
    BY <1>2, <2>3 DEF Spent
<1>4. QED
  BY <1>3

LEMMA KeptSessions ==
  ASSUME TokenInv, CopyInv, [Next]_vars
  PROVE  SessionsKept
<1>1. ASSUME NEW p \in Procs, Begin(p) \/ Step(p) \/ Abort(p)
      PROVE  SessionsKept
  BY <1>1, SteadyStep, HandlerKeeps, AbortKeeps, WritesKeep DEF Keeps, CopyInv, TokenInv
<1>2. session' = session => SessionsKept
  BY DEF SessionsKept
<1>3. QED
  BY <1>1, <1>2 DEF Next, GenerateToken, Tick, vars, storeVars

\* A step between two states in which no call has failed
Calm ==
  /\ TokenInv /\ SessionInv /\ CopyInv /\ ExpiryInv /\ ChaseInv
  /\ Ops \cap StaleWriters = {} /\ "stop" \notin Ops
  /\ Backend = "memory" \/ "disconnect" \notin Ops
  /\ Workers # {} /\ (HasCoA \/ HasHTTP)
  /\ TokenInv' /\ [Next]_vars
  /\ faults = 0 /\ faults' = 0

LEMMA DoomedStep ==
  ASSUME Calm, NEW s \in Sessions, NEW why, Doomed(s, why)
  PROVE  Doomed(s, why)'
<1> SUFFICES ASSUME "disconnect" \notin Ops PROVE Doomed(s, why)'
  BY DEF Doomed
<1>1. PICK t \in Tokens : t = session[s].tok
  BY FoundRow DEF Doomed, Calm
<1>2. session'[s].status # "absent" /\ session'[s].tok = t
  BY <1>1, KeptSessions DEF SessionsKept, Doomed, Calm
<1>3. Terminal(t) => Terminal(t)'
  BY <1>1, TerminalStep DEF Calm
<1>4. Spent(t) => Spent(t)'
  BY <1>1, SpentStep DEF Calm
<1>5. QED
  BY <1>1, <1>2, <1>3, <1>4 DEF Doomed, Forgiven, Terminal, Spent, Begun, Expiries, Held

LEMMA ForgivenStep ==
  ASSUME Calm, NEW s \in Sessions, session[s].status # "absent", NEW why, Forgiven(s, why)
  PROVE  Forgiven(s, why)'
<1>1. PICK t \in Tokens : t = session[s].tok
  BY FoundRow DEF Calm
<1>2. session'[s].tok = t
  BY <1>1, KeptSessions DEF SessionsKept, Calm
<1>3. Spent(t)'
  BY <1>1, SpentStep DEF Forgiven, Calm
<1>4. QED
  BY <1>2, <1>3 DEF Forgiven, Spent, Begun, Expiries, Held

\* What a handler knows of the session it ends stays true
LEMMA ChaseKept ==
  ASSUME Calm, NEW l, NEW f, ChaseFrame(l, f),
         l \in TokenLabels => f.tid \in Tokens, l \in SessionLabels => f.sid \in Sessions,
         l \in EndingLabels => f.ses.tok \in Tokens
  PROVE  ChaseFrame(l, f)'
<1>1. l \in {"revoke_find", "sweep_find"} => Terminal(f.tid)'
  BY TerminalStep DEF ChaseFrame, TokenLabels, Calm
<1>2. l \in {"revoke_end", "sweep_end"} => Terminal(f.ses.tok)'
  BY TerminalStep DEF ChaseFrame, EndingLabels, Calm
<1>3. l \in {"dc_call", "dc_clear"} /\ Backend = "memory" => session'[f.sid].status = "ended"
  BY EndedStep DEF ChaseFrame, SessionLabels, Calm
<1>4. l \in CallLabels => Doomed(f.sid, f.reason)'
  BY DoomedStep DEF ChaseFrame, SessionLabels, CallLabels
<1>5. l \in EndingLabels => Doomed(f.sid, f.ses.reason)'
  BY DoomedStep DEF ChaseFrame, SessionLabels, EndingLabels
<1>6. QED
  BY <1>1, <1>2, <1>3, <1>4, <1>5 DEF ChaseFrame

\* p or a retry task will have s disconnected after the step
Sought(p, s) ==
  \/ Hunts(pc'[p], loc'[p], s)
  \/ \E why \in EndReason : queue'[<<s, why>>] > 0

\* The tasks: none is lost, and new ones are for sessions that are doomed
TasksChased(p, s) ==
  \A why \in EndReason :
    /\ queue[<<s, why>>] > 0 => Sought(p, s)
    /\ queue'[<<s, why>>] > 0 => queue[<<s, why>>] > 0 \/ Doomed(s, why)'

\* The row of s: if it is written ended, then for a good reason, and s will be
\* disconnected or its frame says why not
RowChased(p, s) ==
  \/ session'[s] = session[s]
  \/ session'[s].status = "active"
  \/ /\ session'[s].status = "ended"
     /\ \A why : why = session'[s].reason => Doomed(s, why)'
     /\ \/ Sought(p, s)
        \/ s \notin online'
        \/ pc[p] = "dc_clear" /\ s = loc[p].sid /\ session'[s] = loc[p].ses

\* p lets s in: the session its transaction found, or a new one
LetIn(p, s) ==
  /\ session'[s].status = "active"
  /\ session[s].status = "absent" \/ (pc[p] = "found" /\ s = loc[p].sid)

\* What every step of a handler does about the sessions the gateway forwards
Chases(p) ==
  /\ \E l, f : /\ Goto(p, l, f)
               /\ ChaseFrame(l, f)'
               /\ l = "dc_clear" => f.sid \notin online'
  /\ \A s \in Sessions :
       /\ Hunts(pc[p], loc[p], s) => Sought(p, s) \/ s \notin online'
       /\ TasksChased(p, s) /\ RowChased(p, s)
       /\ s \in online' => s \in online \/ LetIn(p, s)

\* A session that is hunted stays so until it is cut
LEMMA HuntGoesOn ==
  ASSUME Calm, NEW p \in Procs, Chases(p), NEW s \in Sessions, Hunted(s), s \in online'
  PROVE  Hunted(s)'
<1>1. Sought(p, s) => Hunted(s)'
  BY DEF Sought, Hunted
<1>2. CASE \E why \in EndReason : queue[<<s, why>>] > 0
  BY <1>1, <1>2 DEF Chases, TasksChased
<1>3. ASSUME NEW q \in Procs, Hunts(pc[q], loc[q], s)
      PROVE  Hunted(s)'
  <2>1. CASE q = p
    BY <1>1, <1>3, <2>1 DEF Chases
  <2>2. CASE q # p
    <3>1. pc'[q] = pc[q] /\ loc'[q] = loc[q]
      BY <2>2 DEF Chases, Goto, Calm, TokenInv, TypeOK
    <3>2. Hunts(pc'[q], loc'[q], s)
      BY <1>3, <3>1
    <3>3. QED
      BY <3>2 DEF Hunted
  <2>3. QED
    BY <2>1, <2>2
<1>4. QED
  BY <1>2, <1>3 DEF Hunted

\* A session that a handler is about to write back ended was let in again: the
\* handler may forget it
LEMMA LetInForgiven ==
  ASSUME Calm, NEW p \in Procs, NEW q \in Procs, pc[q] = "dc_clear",
         NEW s \in Sessions, s = loc[q].sid, LetIn(p, s)
  PROVE  Forgiven(s, loc[q].ses.reason)
<1>1. /\ Copy(s, loc[q].ses) /\ ChaseFrame(pc[q], loc[q]) /\ FrameFit(p, pc[p], loc[p])
      /\ pc[p] = "found" => FoundOnly(p)
  BY DEF Calm, CopyInv, FramesFit, FrameFit, CopyLabels, EndingLabels, ChaseInv, SessionInv,
         FoundAllOnly
<1>2. pc[p] = "found" /\ s = loc[p].sid /\ s # None
  BY <1>1, NullAssumption DEF LetIn, Copy
<1>3. "disconnect" \notin Ops
  BY <1>1, <1>2 DEF ChaseFrame, FoundOnly, Calm
<1>4. PICK t : t = loc[p].tid
  OBVIOUS
<1>5. session[s].tok = t
  BY <1>1, <1>2, <1>4 DEF FoundOnly, FrameFit, Copy
<1>6. loc[p].tok = token[t] /\ loc[p].tok.status = "active"
  BY <1>2, <1>4, InTx DEF TxLabels, Calm, TokenInv, LockHeld
<1>7. ~Terminal(t)
  BY <1>6 DEF Terminal, TerminalStatus
<1>8. Doomed(s, loc[q].ses.reason)
  BY <1>1 DEF ChaseFrame, EndingLabels
<1>9. QED
  BY <1>3, <1>5, <1>7, <1>8 DEF Doomed, Terminal

LEMMA ChasesInv ==
  ASSUME Calm, NEW p \in Procs, Chases(p)
  PROVE  ChaseInv'
<1>1. PICK l, f : /\ Goto(p, l, f)
                  /\ ChaseFrame(l, f)'
                  /\ l = "dc_clear" => f.sid \notin online'
  BY DEF Chases
<1>2. /\ pc'[p] = l /\ loc'[p] = f
      /\ \A q \in Procs : q # p => pc'[q] = pc[q] /\ loc'[q] = loc[q]
  BY <1>1 DEF Goto, Calm, TokenInv, TypeOK
<1>3. ASSUME NEW q \in Procs
      PROVE  ChaseFrame(pc[q], loc[q])'
  <2>1. CASE q = p
    BY <1>1, <1>2, <2>1
  <2>2. CASE q # p
    <3>1. PICK m, g : m = pc[q] /\ g = loc[q]
      OBVIOUS
    <3>2. m \in EndingLabels => g.ses.tok \in Tokens
      BY <3>1, FoundRow DEF Calm, CopyInv, FramesFit, FrameFit, CopyLabels, Copy, EndingLabels,
                            TokenInv, FramesOK, FrameOK, SessionLabels
    <3>3. ChaseFrame(m, g)'
      BY <3>1, <3>2, Known, ChaseKept DEF Calm, ChaseInv, FrameOK
    <3>4. QED
      BY <1>2, <2>2, <3>1, <3>3
  <2>3. QED
    BY <2>1, <2>2
<1>4. ASSUME NEW s \in Sessions, session'[s].status = "ended"
      PROVE  Doomed(s, session[s].reason)'
  <2>1. PICK why : why = session'[s].reason
    OBVIOUS
  <2>2. CASE session'[s] = session[s]
    <3>1. Doomed(s, why)
      BY <1>4, <2>1, <2>2 DEF Calm, ChaseInv
    <3>2. QED
      BY <2>1, <3>1, DoomedStep
  <2>3. QED
    BY <1>4, <2>1, <2>2 DEF Chases, RowChased
<1>5. ASSUME NEW s \in Sessions, NEW why \in EndReason, queue'[<<s, why>>] > 0
      PROVE  Doomed(s, why)'
  BY <1>5, DoomedStep DEF Chases, TasksChased, Calm, ChaseInv
<1>6. \A s \in online' : s \in Sessions
  BY DEF Calm, TokenInv, TypeOK
<1>7. ASSUME NEW s \in online'
      PROVE  /\ session'[s].status # "absent"
             /\ session'[s].status = "ended" =>
                  Hunted(s)' \/ Forgiven(s, session[s].reason)'
  <2>1. CASE s \notin online
    BY <1>6, <2>1 DEF Chases, LetIn
  <2>2. CASE s \in online
    <3>1. session[s].status # "absent" /\ session'[s].status # "absent"
      BY <1>6, <2>2, KeptSessions DEF SessionsKept, Calm, ChaseInv, OnlineChased
    <3>2. ASSUME session'[s].status = "ended"
          PROVE  Hunted(s)' \/ Forgiven(s, session[s].reason)'
      <4>1. PICK why : why = session'[s].reason
        OBVIOUS
      <4>2. CASE Hunted(s) \/ Sought(p, s)
        BY <1>6, <4>2, HuntGoesOn DEF Sought, Hunted
      <4>3. CASE Forgiven(s, why)
        BY <1>6, <3>1, <4>1, <4>3, ForgivenStep
      <4>4. CASE session'[s] = session[s]
        BY <2>2, <3>2, <4>1, <4>2, <4>3, <4>4 DEF Calm, ChaseInv, OnlineChased
      <4>5. CASE pc[p] = "dc_clear" /\ s = loc[p].sid /\ session'[s] = loc[p].ses
        BY <2>2, <4>1, <4>2, <4>3, <4>5 DEF Calm, ChaseInv, OnlineChased
      <4>6. QED
        BY <1>6, <3>2, <4>2, <4>4, <4>5 DEF Chases, RowChased
    <3>3. QED
      BY <3>1, <3>2
  <2>3. QED
    BY <2>1, <2>2
<1>8. ASSUME NEW q \in Procs, pc'[q] = "dc_clear", NEW s \in online', s = loc'[q].sid
      PROVE  Hunted(s)' \/ Forgiven(s, loc[q].ses.reason)'
  <2>1. q # p /\ pc[q] = "dc_clear" /\ s = loc[q].sid /\ loc'[q] = loc[q]
    BY <1>1, <1>2, <1>8
  <2>2. PICK why : why = loc[q].ses.reason
    OBVIOUS
  <2>3. Hunted(s) \/ Forgiven(s, why)
    BY <1>6, <2>1, <2>2, LetInForgiven DEF Chases, Calm, ChaseInv, OnlineChased
  <2>4. session[s].status # "absent"
    BY <2>1 DEF Calm, CopyInv, FramesFit, FrameFit, CopyLabels, EndingLabels, Copy
  <2>5. Forgiven(s, why) => Forgiven(s, why)'
    BY <1>6, <2>4, ForgivenStep
  <2>6. QED
    BY <1>6, <2>1, <2>2, <2>3, <2>5, HuntGoesOn
<1>9. OnlineChased'
  BY <1>7, <1>8 DEF OnlineChased
<1>10. QED
  BY <1>3, <1>4, <1>5, <1>9 DEF ChaseInv

------------------------------------------------------------------------------
(* What its steps have in common *)

\* Labels at which a handler knows nothing of a session's end
PlainLabels == {"idle", "redeem", "locked", "recover", "sweep", "revoke_write"}

LEMMA PlainChase ==
  ASSUME NEW l \in PlainLabels, NEW f
  PROVE  ChaseFrame(l, f)' /\ l # "dc_clear" /\ \A s : ~Hunts(l, f, s)
BY DEF PlainLabels, ChaseFrame, Hunts, CallLabels, EndingLabels

\* A handler that returns or loops
LEMMA EndsPlain ==
  ASSUME NEW p \in Procs,
         \/ Finish(p) \/ Returned(p) \/ GaveUp(p) \/ Failed(p) \/ RecoverNext(p)
         \/ InvalidToken(p)
  PROVE  \E l, f : l \in PlainLabels /\ Goto(p, l, f)
<1>1. "idle" \in PlainLabels /\ "recover" \in PlainLabels /\ "sweep" \in PlainLabels
      /\ "redeem" \in PlainLabels
  BY DEF PlainLabels
<1>2. ASSUME NEW l \in PlainLabels, NEW f, Goto(p, l, f)
      PROVE  \E m, g : m \in PlainLabels /\ Goto(p, m, g)
  BY <1>2
<1>3. QED
  BY <1>1, <1>2, Zenon DEF Finish, Returned, GaveUp, Failed, RecoverNext, InvalidToken

\* A handler that writes no row and no task and lets nobody in
LEMMA QuietChases ==
  ASSUME Calm, NEW p \in Procs, NEW l, NEW f, Goto(p, l, f), ChaseFrame(l, f)',
         l # "dc_clear", pc[p] \notin {"dc_read", "dc_mark", "dc_call"},
         session' = session, queue' = queue, online' \subseteq online
  PROVE  Chases(p)
<1>1. \A s : ~Hunts(pc[p], loc[p], s)
  BY DEF Hunts
<1>2. \A s : TasksChased(p, s) /\ RowChased(p, s)
  BY DEF TasksChased, RowChased, Sought
<1>3. QED
  BY <1>1, <1>2 DEF Chases

LEMMA PlainChases ==
  ASSUME Calm, NEW p \in Procs, NEW l \in PlainLabels, NEW f, Goto(p, l, f),
         pc[p] \notin {"dc_read", "dc_mark", "dc_call"},
         session' = session, queue' = queue, online' \subseteq online
  PROVE  Chases(p)
BY PlainChase, QuietChases

\* A handler that lets a device in with the session its transaction found, or with a
\* new one
LEMMA AdmitChases ==
  ASSUME Calm, NEW p \in Procs, pc[p] \in TxLabels, Finish(p), NEW s \in Sessions, NEW row,
         session' = [session EXCEPT ![s] = row], row.status = "active",
         session[s].status = "absent" \/ (pc[p] = "found" /\ s = loc[p].sid),
         online' = online \cup {s}, queue' = queue
  PROVE  Chases(p)
<1>1. PICK l, f : l \in PlainLabels /\ Goto(p, l, f)
  BY EndsPlain
<1>2. session'[s] = row /\ \A r \in Sessions : r # s => session'[r] = session[r]
  BY DEF Calm, TokenInv, TypeOK
<1>3. \A r : ~Hunts(pc[p], loc[p], r)
  BY DEF Hunts, TxLabels
<1>4. LetIn(p, s)
  BY <1>2 DEF LetIn
<1>5. \A r \in Sessions : TasksChased(p, r) /\ RowChased(p, r)
  BY <1>2 DEF TasksChased, RowChased, Sought
<1>6. QED
  BY <1>1, <1>3, <1>4, <1>5, PlainChase DEF Chases

\* A task is queued again, and nothing else happens to the queue
LEMMA Added ==
  ASSUME TypeOK, NEW s \in Sessions, NEW why \in EndReason, NEW n \in Nat,
         Enqueue(s, why, n)
  PROVE  /\ n > 0 => queue'[<<s, why>>] > 0
         /\ \A r \in Sessions, y \in EndReason :
              /\ queue[<<r, y>>] > 0 => queue'[<<r, y>>] > 0
              /\ queue'[<<r, y>>] > 0 => queue[<<r, y>>] > 0 \/ (r = s /\ y = why)
<1> DEFINE d == <<s, why>>
<1>1. /\ \A r \in Sessions, y \in EndReason : <<r, y>> \in Payload
      /\ queue \in [Payload -> Nat] /\ MaxTasks > 0 /\ MaxTasks \in Nat
  BY QueueAssumption DEF Payload, TypeOK
<1>2. queue'[d] = IF queue[d] + n <= MaxTasks THEN queue[d] + n ELSE MaxTasks
  BY <1>1 DEF Enqueue
<1>3. \A e \in Payload : e # d => queue'[e] = queue[e]
  BY <1>1 DEF Enqueue
<1>4. (n > 0 \/ queue[d] > 0) => queue'[d] > 0
  BY <1>1, <1>2
<1>5. \A r \in Sessions, y \in EndReason : <<r, y>> = d => r = s /\ y = why
  OBVIOUS
<1> HIDE DEF d
<1>6. \A e \in Payload : queue[e] > 0 => queue'[e] > 0
  BY <1>3, <1>4
<1>7. \A e \in Payload : queue'[e] > 0 => queue[e] > 0 \/ e = d
  BY <1>3
<1>8. QED
  BY <1>1, <1>4, <1>5, <1>6, <1>7 DEF d

LEMMA Retried ==
  ASSUME Calm, NEW s \in Sessions, NEW why \in EndReason, NEW n \in Nat,
         QueueRetry(s, why, n)
  PROVE  /\ queue'[<<s, why>>] > 0
         /\ \A r \in Sessions, y \in EndReason :
              /\ queue[<<r, y>>] > 0 => queue'[<<r, y>>] > 0
              /\ queue'[<<r, y>>] > 0 => queue[<<r, y>>] > 0 \/ (r = s /\ y = why)
<1>1. Enqueue(s, why, n + 1)
  BY DEF QueueRetry, Fault, Calm
<1>2. n + 1 \in Nat /\ n + 1 > 0
  OBVIOUS
<1>3. QED
  BY <1>1, <1>2, Added DEF Calm, TokenInv

\* A call that a configured controller answers cuts the session
LEMMA AnswerCuts ==
  ASSUME HasCoA \/ HasHTTP, NEW cut \in BOOLEAN, Disconnects(TRUE, cut)
  PROVE  cut
BY DEF Disconnects, CoADisconnect, HTTPDisconnect, Outcomes, NoAnswer

\* A token that a transaction found overdue is over, or its time is up
LEMMA ExpiresSpent ==
  ASSUME Calm, NEW p \in Procs, Expires(p), NEW t, t = loc[p].tid
  PROVE  t \in Tokens /\ (Terminal(t) \/ Spent(t))
<1>1. /\ t \in Tokens /\ Overdue(token[t], loc[p].at)
      /\ loc[p].at \in Nat /\ loc[p].at <= now
  BY InTx, Known DEF Expires, TxLabels, Calm, CopyInv, FramesFit, FrameFit, Frame
<1>2. QED
  BY <1>1, LateSpent DEF Calm, ExpiryInv, TokenInv

------------------------------------------------------------------------------
(* The steps of the token service *)

LEMMA RedeemPlainChases ==
  ASSUME Calm, NEW p \in Procs,
         \/ BeginRedeem(p) \/ RedeemUnknown(p) \/ RedeemLock(p) \/ ResumeUnused(p)
         \/ RedeemRefused(p)
  PROVE  Chases(p)
<1>0. "redeem" \in PlainLabels /\ "locked" \in PlainLabels
  BY DEF PlainLabels
<1>1. CASE BeginRedeem(p)
  <2>1. PICK op \in {"redeem", "resume", "auth"}, r \in RadiusIds \cup {None},
             strict \in BOOLEAN : Enter(p, op, r, strict)
    BY <1>1 DEF BeginRedeem, BeginPortal, BeginAuth
  <2>2. PICK f : Goto(p, "redeem", f)
    BY <2>1 DEF Enter
  <2>3. /\ pc[p] = "idle" /\ session' = session /\ queue' = queue
        /\ online' \subseteq online
    BY <2>1 DEF Enter, Arrives, storeVars, gatewayVars
  <2>4. QED
    BY <1>0, <2>2, <2>3, PlainChases
<1>2. CASE RedeemLock(p)
  <2>1. PICK f : Goto(p, "locked", f)
    BY <1>2 DEF RedeemLock
  <2>2. /\ pc[p] = "redeem" /\ session' = session /\ queue' = queue
        /\ online' \subseteq online
    BY <1>2 DEF RedeemLock, gatewayVars
  <2>3. QED
    BY <1>0, <2>1, <2>2, PlainChases
<1>3. CASE RedeemUnknown(p) \/ ResumeUnused(p) \/ RedeemRefused(p)
  <2>1. PICK l, f : l \in PlainLabels /\ Goto(p, l, f)
    BY <1>3, EndsPlain DEF RedeemUnknown, ResumeUnused, RedeemRefused
  <2>2. /\ pc[p] \in {"redeem", "locked"} /\ session' = session /\ queue' = queue
        /\ online' \subseteq online
    BY <1>3 DEF RedeemUnknown, ResumeUnused, RedeemRefused, Holds, storeVars, gatewayVars
  <2>3. QED
    BY <2>1, <2>2, PlainChases
<1>4. QED
  BY <1>1, <1>2, <1>3

\* Over both stores, an overdue redeem has the session cut, or a retry queued.  Over
\* Postgres its row comes back, but the time of the token is up; over the memory
\* store the token is over.
LEMMA ExpiredChases ==
  ASSUME Calm, NEW p \in Procs, RedeemExpired(p) \/ RedeemExpiredKept(p)
  PROVE  Chases(p)
<1> DEFINE t == loc[p].tid
           S == GetActiveSessionByToken(t)
<1>0. /\ t \in Tokens /\ (Terminal(t) \/ Spent(t))
      /\ pc[p] = "locked"
      /\ \A s \in S : s \in Sessions /\ session[s].status = "active" /\ session[s].tok = t
      /\ \A s : ~Hunts(pc[p], loc[p], s)
  BY ExpiresSpent, LookupOnly
  DEF RedeemExpired, RedeemExpiredKept, Expires, Calm, ActiveSessions, Hunts
<1>1. PICK l, f : l \in PlainLabels /\ Goto(p, l, f)
  BY EndsPlain DEF RedeemExpired, RedeemExpiredKept
<1>2. CASE session' = session /\ queue' = queue /\ online' = online
  BY <1>0, <1>1, <1>2, PlainChases
<1>3. ASSUME NEW s \in S, NEW ok \in BOOLEAN, CutsExpired(s, ok),
             \/ session' = session
             \/ UpdateSession(s, EndedSession(session[s], "expired", ~ok))
      PROVE  Chases(p)
  <2>1. Doomed(s, "expired")'
    <3>1. Doomed(s, "expired")
      BY <1>0 DEF Doomed, Forgiven
    <3>2. QED
      BY <1>0, <3>1, DoomedStep
  <2>2. online' \subseteq online /\ (ok => s \notin online')
    BY <1>3, AnswerCuts DEF CutsExpired, Cut, Calm
  <2>3. \A r \in Sessions : TasksChased(p, r)
    <3>1. CASE ok
      BY <1>3, <3>1 DEF CutsExpired, TasksChased, Sought
    <3>2. CASE ~ok
      <4>1. QueueRetry(s, "expired", 0) /\ "expired" \in EndReason
        BY <1>3, <3>2 DEF CutsExpired, EndReason
      <4>2. QED
        BY <1>0, <2>1, <4>1, Retried DEF TasksChased, Sought
    <3>3. QED
      BY <3>1, <3>2
  <2>4. ~ok => Sought(p, s)
    <3>1. ~ok => QueueRetry(s, "expired", 0) /\ "expired" \in EndReason
      BY <1>3 DEF CutsExpired, EndReason
    <3>2. QED
      BY <1>0, <3>1, Retried DEF Sought
  <2>5. \A r \in Sessions : RowChased(p, r)
    <3>1. CASE session' = session
      BY <3>1 DEF RowChased
    <3>2. CASE UpdateSession(s, EndedSession(session[s], "expired", ~ok))
      <4>1. PICK row : row = EndedSession(session[s], "expired", ~ok)
        OBVIOUS
      <4>2. row.status = "ended" /\ row.reason = "expired"
        BY <1>0, <4>1, FoundRow, RowColumns DEF Calm
      <4>3. session'[s] = row /\ \A r \in Sessions : r # s => session'[r] = session[r]
        BY <1>0, <3>2, <4>1 DEF UpdateSession, Calm, TokenInv, TypeOK
      <4>4. QED
        BY <2>1, <2>2, <2>4, <4>2, <4>3 DEF RowChased
    <3>3. QED
      BY <1>3, <3>1, <3>2
  <2>6. QED
    BY <1>0, <1>1, <2>2, <2>3, <2>5, PlainChase DEF Chases
<1>4. QED
  BY <1>2, <1>3 DEF RedeemExpired, RedeemExpiredKept, gatewayVars

LEMMA ResumeFindChases ==
  ASSUME Calm, NEW p \in Procs, ResumeFind(p)
  PROVE  Chases(p)
<1> DEFINE t == loc[p].tid
<1>1. /\ pc[p] = "locked" /\ session' = session /\ queue' = queue
      /\ online' \subseteq online /\ loc[p] \in Frame /\ t \in Tokens
      /\ loc[p].sid = None
  BY Known, InTx
  DEF ResumeFind, Holds, storeVars, gatewayVars, Calm, SessionInv, FramesEnd, TxLabels
<1>2. \A s \in GetActiveSessionByToken(t) : session[s].status = "active"
  BY <1>1, LookupOnly DEF Calm, ActiveSessions
<1>3. ASSUME NEW f, Goto(p, "found", f), f.sid # None => f.ses.status = "active"
      PROVE  Chases(p)
  <2>1. ChaseFrame("found", f)'
    BY <1>3 DEF ChaseFrame, CallLabels, EndingLabels
  <2>2. QED
    BY <1>1, <1>3, <2>1, QuietChases
<1>4. ASSUME NEW s, NEW row, row.status = "active"
      PROVE  [loc[p] EXCEPT !.sid = s, !.ses = row].ses.status = "active"
  BY <1>1, <1>4 DEF Frame
<1>5. \/ Goto(p, "found", loc[p])
      \/ \E s \in GetActiveSessionByToken(t) :
           Goto(p, "found", [loc[p] EXCEPT !.sid = s, !.ses = session[s]])
  BY DEF ResumeFind
<1>6. QED
  BY <1>1, <1>2, <1>3, <1>4, <1>5, Zenon

LEMMA LetInChases ==
  ASSUME Calm, NEW p \in Procs, RedeemActivate(p) \/ ResumeAttach(p) \/ ResumeReopen(p)
  PROVE  Chases(p)
<1>1. Finish(p) /\ queue' = queue /\ pc[p] \in TxLabels
  BY DEF RedeemActivate, ResumeAttach, ResumeReopen, Holds, TxLabels
<1>2. CASE RedeemActivate(p) \/ ResumeReopen(p)
  <2>1. PICK s \in Sessions : CreateSession(p, s, Opened(p)) /\ Grant(p, s)
    BY <1>2 DEF RedeemActivate, ResumeReopen
  <2>2. PICK row : row = Opened(p)
    OBVIOUS
  <2>3. row.status = "active"
    BY <2>2 DEF Opened, NewSession, AbsentSession
  <2>4. /\ session' = [session EXCEPT ![s] = row] /\ session[s].status = "absent"
        /\ online' = online \cup {s}
    BY <2>1, <2>2 DEF CreateSession, Grant
  <2>5. QED
    BY <1>1, <2>3, <2>4, AdmitChases
<1>3. CASE ResumeAttach(p)
  <2>1. PICK s, row : s = loc[p].sid /\ row = Attached(loc[p].ses, loc[p].rid)
    OBVIOUS
  <2>2. /\ pc[p] = "found" /\ s # None /\ session' = [session EXCEPT ![s] = row]
        /\ online' = online \cup {s}
    BY <1>3, <2>1 DEF ResumeAttach, UpdateSession, Grant
  <2>3. s \in Sessions
    BY <2>1, <2>2, Known DEF Calm, Frame
  <2>4. row.status = "active"
    BY <2>1, <2>2, Known, RowColumns DEF Calm, ChaseInv, ChaseFrame
  <2>5. QED
    BY <1>1, <2>1, <2>2, <2>3, <2>4, AdmitChases
<1>4. QED
  BY <1>2, <1>3

\* A handler that ends the session whose ended row it carries, or is about to
LEMMA EndChases ==
  ASSUME Calm, NEW p \in Procs, NEW why, pc[p] \in {"revoke_end", "sweep_end", "recover_end"},
         UpdateSession(loc[p].sid, loc[p].ses), CallDisconnect(p, loc[p].sid, why),
         queue' = queue, online' = online,
         Doomed(loc[p].sid, why)
  PROVE  Chases(p)
<1>0. PICK s, f : s = loc[p].sid /\ f = CallFrame(loc[p], s, why)
  OBVIOUS
<1>1. Goto(p, "dc_read", f) /\ f.sid = s /\ f.reason = why /\ f.flag = TRUE
  BY <1>0 DEF CallDisconnect, CallFrame, NoFrame
<1>2. /\ s \in Sessions /\ loc[p].ses.status = "ended"
      /\ Doomed(s, loc[p].ses.reason)
  BY <1>0, Known
  DEF SessionLabels, EndingLabels, Calm, SessionInv, FramesEnd, ChaseInv, ChaseFrame
<1>3. session'[s] = loc[p].ses /\ \A r \in Sessions : r # s => session'[r] = session[r]
  BY <1>0, <1>2 DEF UpdateSession, Calm, TokenInv, TypeOK
<1>4. Hunts("dc_read", f, s) /\ ChaseFrame("dc_read", f)'
  <2>1. Doomed(s, why)'
    BY <1>0, <1>2, DoomedStep
  <2>2. QED
    BY <1>1, <2>1 DEF Hunts, ChaseFrame, EndingLabels
<1>5. Sought(p, s)
  BY <1>1, <1>4 DEF Sought, Goto, Calm, TokenInv, TypeOK
<1>6. \A reason : reason = loc[p].ses.reason => Doomed(s, reason)'
  BY <1>2, DoomedStep
<1>7. \A r \in Sessions : TasksChased(p, r) /\ RowChased(p, r)
  BY <1>2, <1>3, <1>5, <1>6 DEF TasksChased, RowChased, Sought
<1>8. \A r : ~Hunts(pc[p], loc[p], r)
  BY DEF Hunts
<1>9. QED
  BY <1>1, <1>4, <1>7, <1>8 DEF Chases

\* The copy of a found session of a token that is over
LEMMA FoundChases ==
  ASSUME Calm, NEW p \in Procs, NEW l \in {"revoke_end", "sweep_end"},
         NEW why \in {"revoked", "expired"}, NEW t \in Tokens, Terminal(t),
         NEW s \in GetActiveSessionByToken(t),
         Goto(p, l, [loc[p] EXCEPT !.sid = s, !.ses = EndedSession(session[s], why, TRUE)]),
         pc[p] \notin {"dc_read", "dc_mark", "dc_call"},
         session' = session, queue' = queue, online' = online
  PROVE  Chases(p)
<1>1. s \in Sessions /\ session[s].tok = t /\ session[s].status = "active"
  BY LookupOnly DEF Calm, ActiveSessions
<1>2. PICK row : row = EndedSession(session[s], why, TRUE)
  OBVIOUS
<1>3. row.tok = t /\ row.reason = why
  <2>1. session[s] \in SessionRow
    BY <1>1, FoundRow DEF Calm
  <2>2. QED
    BY <1>1, <1>2, <2>1 DEF EndedSession, SessionRow
<1>4. PICK f : f = [loc[p] EXCEPT !.sid = s, !.ses = row]
  OBVIOUS
<1>5. f.sid = s /\ f.ses = row
  BY <1>4, Known DEF Calm, Frame
<1>6. Goto(p, l, f)
  BY <1>2, <1>4
<1>7. Doomed(s, why)'
  <2>1. Doomed(s, why)
    BY <1>1 DEF Doomed
  <2>2. QED
    BY <1>1, <2>1, DoomedStep
<1>8. Terminal(t)'
  BY TerminalStep DEF Calm
<1>9. ChaseFrame(l, f)'
  BY <1>3, <1>5, <1>7, <1>8 DEF ChaseFrame, CallLabels
<1>10. QED
  BY <1>6, <1>9, QuietChases

LEMMA RevokeChases ==
  ASSUME Calm, NEW p \in Procs,
         RevokeRead(p) \/ RevokeWrite(p) \/ RevokeFind(p) \/ RevokeEnd(p)
  PROVE  Chases(p)
<1>1. CASE RevokeRead(p)
  <2>1. PICK f : Goto(p, "revoke_write", f)
    BY <1>1 DEF RevokeRead
  <2>2. /\ pc[p] = "idle" /\ session' = session /\ queue' = queue /\ online' = online
        /\ "revoke_write" \in PlainLabels
    BY <1>1 DEF RevokeRead, Arrives, storeVars, gatewayVars, PlainLabels
  <2>3. QED
    BY <2>1, <2>2, PlainChases
<1>2. CASE RevokeWrite(p)
  <2>0. PICK f, t : f = [loc[p] EXCEPT !.tok = AbsentToken] /\ t = loc[p].tid
    OBVIOUS
  <2>1. /\ Goto(p, "revoke_find", f) /\ pc[p] = "revoke_write" /\ session' = session
        /\ queue' = queue /\ online' = online
        /\ token' = [token EXCEPT ![t] = loc[p].tok]
    BY <1>2, <2>0 DEF RevokeWrite, gatewayVars, UpdateToken
  <2>2. f.tid = t /\ t \in Tokens /\ loc[p].tok.status \in TerminalStatus
    BY <2>0, <2>1, Known DEF Calm, Frame, FrameOK, TokenLabels, WriteLabels
  <2>3. Terminal(t)'
    BY <2>1, <2>2 DEF Terminal, Calm, TokenInv, TypeOK
  <2>4. ChaseFrame("revoke_find", f)'
    BY <2>2, <2>3 DEF ChaseFrame, CallLabels, EndingLabels
  <2>5. QED
    BY <2>1, <2>4, QuietChases
<1>3. CASE RevokeFind(p)
  <2>1. /\ pc[p] = "revoke_find" /\ session' = session /\ queue' = queue /\ online' = online
        /\ loc[p].tid \in Tokens /\ Terminal(loc[p].tid)
    BY <1>3, Known
    DEF RevokeFind, storeVars, gatewayVars, Calm, ChaseInv, ChaseFrame, FrameOK, TokenLabels
  <2>2. ASSUME NEW s \in GetActiveSessionByToken(loc[p].tid),
               Goto(p, "revoke_end",
                    [loc[p] EXCEPT !.sid = s,
                                   !.ses = EndedSession(session[s], "revoked", TRUE)])
        PROVE  Chases(p)
    BY <2>1, <2>2, FoundChases
  <2>3. CASE Finish(p)
    BY <2>1, <2>3, EndsPlain, PlainChases
  <2>4. QED
    BY <1>3, <2>2, <2>3 DEF RevokeFind
<1>4. CASE RevokeEnd(p)
  <2>1. pc[p] = "revoke_end" /\ Doomed(loc[p].sid, "revoked")
    BY <1>4
    DEF RevokeEnd, Calm, ChaseInv, ChaseFrame, CopyInv, FramesFit, FrameFit, CopyLabels,
        EndingLabels, Copy, Doomed
  <2>2. QED
    BY <1>4, <2>1, EndChases DEF RevokeEnd, gatewayVars
<1>5. QED
  BY <1>1, <1>2, <1>3, <1>4

LEMMA SweepChases ==
  ASSUME Calm, NEW p \in Procs,
         SweepList(p) \/ SweepExpire(p) \/ SweepFind(p) \/ SweepEnd(p)
  PROVE  Chases(p)
<1>1. CASE SweepList(p)
  <2>1. PICK f : Goto(p, "sweep", f)
    BY <1>1 DEF SweepList
  <2>2. /\ pc[p] = "idle" /\ session' = session /\ queue' = queue /\ online' = online
        /\ "sweep" \in PlainLabels
    BY <1>1 DEF SweepList, Dequeues, storeVars, gatewayVars, PlainLabels
  <2>3. QED
    BY <2>1, <2>2, PlainChases
<1>2. CASE SweepExpire(p)
  <2>1. PICK d \in loc[p].todo :
          /\ UpdateToken(d[1], Closed(d[2], "expired"))
          /\ Goto(p, "sweep_find", [loc[p] EXCEPT !.tid = d[1], !.todo = @ \ {d}])
    BY <1>2 DEF SweepExpire
  <2>2. PICK f : f = [loc[p] EXCEPT !.tid = d[1], !.todo = @ \ {d}]
    OBVIOUS
  <2>3. f.tid = d[1] /\ d[1] \in Tokens /\ d[2] \in TokenRow
    BY <2>2, Known DEF Calm, Frame
  <2>4. Goto(p, "sweep_find", f)
    BY <2>1, <2>2
  <2>5. PICK t, row : t = d[1] /\ row = Closed(d[2], "expired")
    OBVIOUS
  <2>6. row.status \in TerminalStatus
    BY <2>3, <2>5 DEF Closed, TokenRow, TerminalStatus
  <2>7. token' = [token EXCEPT ![t] = row]
    BY <2>1, <2>5 DEF UpdateToken
  <2>8. f.tid = t /\ Terminal(t)'
    BY <2>3, <2>5, <2>6, <2>7 DEF Terminal, Calm, TokenInv, TypeOK
  <2>9. ChaseFrame("sweep_find", f)'
    BY <2>8 DEF ChaseFrame, CallLabels, EndingLabels
  <2>10. /\ pc[p] = "sweep" /\ session' = session /\ queue' = queue /\ online' = online
    BY <1>2 DEF SweepExpire, gatewayVars
  <2>11. QED
    BY <2>4, <2>9, <2>10, QuietChases
<1>3. CASE SweepFind(p)
  <2>1. /\ pc[p] = "sweep_find" /\ session' = session /\ queue' = queue /\ online' = online
        /\ loc[p].tid \in Tokens /\ Terminal(loc[p].tid)
    BY <1>3, Known
    DEF SweepFind, storeVars, gatewayVars, Calm, ChaseInv, ChaseFrame, FrameOK, TokenLabels
  <2>2. ASSUME NEW s \in GetActiveSessionByToken(loc[p].tid),
               Goto(p, "sweep_end",
                    [loc[p] EXCEPT !.sid = s,
                                   !.ses = EndedSession(session[s], "expired", TRUE)])
        PROVE  Chases(p)
    BY <2>1, <2>2, FoundChases
  <2>3. CASE Returned(p)
    BY <2>1, <2>3, EndsPlain, PlainChases
  <2>4. QED
    BY <1>3, <2>2, <2>3 DEF SweepFind
<1>4. CASE SweepEnd(p)
  <2>1. pc[p] = "sweep_end" /\ Doomed(loc[p].sid, "expired")
    BY <1>4
    DEF SweepEnd, Calm, ChaseInv, ChaseFrame, CopyInv, FramesFit, FrameFit, CopyLabels,
        EndingLabels, Copy, Doomed
  <2>2. QED
    BY <1>4, <2>1, EndChases DEF SweepEnd, gatewayVars
<1>5. QED
  BY <1>1, <1>2, <1>3, <1>4

------------------------------------------------------------------------------
(* The steps of the recovery and of DisconnectSession *)

LEMMA RecoverReadChases ==
  ASSUME Calm, NEW p \in Procs, RecoverRead(p)
  PROVE  Chases(p)
<1>1. /\ pc[p] = "recover" /\ session' = session /\ queue' = queue /\ online' = online
      /\ loc[p] \in Frame /\ loc[p].at \in Nat /\ loc[p].at <= now
  BY Known DEF RecoverRead, storeVars, gatewayVars, Frame, Calm, CopyInv, FramesFit, FrameFit
<1>2. PICK d \in backlog[p] :
        IF Leftover(token[d[2].tok], loc[p].at)
        THEN Goto(p, "recover_end",
                  [loc[p] EXCEPT !.sid = d[1],
                                 !.ses = EndedSession(d[2], "recovered_closed", TRUE)])
        ELSE RecoverNext(p)
  BY Zenon DEF RecoverRead
<1>3. CASE RecoverNext(p)
  BY <1>1, <1>3, EndsPlain, PlainChases
<1>4. CASE /\ Leftover(token[d[2].tok], loc[p].at)
           /\ Goto(p, "recover_end",
                   [loc[p] EXCEPT !.sid = d[1],
                                  !.ses = EndedSession(d[2], "recovered_closed", TRUE)])
  <2>1. PICK s \in Sessions, r \in SessionRow : d[1] = s /\ d[2] = r
    BY DEF Calm, TokenInv, TypeOK
  <2>2. Copy(s, r) /\ session[s].status # "absent" /\ r.tok = session[s].tok
    BY <2>1 DEF Calm, CopyInv, BacklogFit, Copy
  <2>3. PICK t \in Tokens : t = r.tok
    BY <2>2, FoundRow DEF Calm
  <2>4. "start" \notin Ops
    BY DEF Calm, StaleWriters
  <2>5. Begun(t)
    BY <2>2, <2>3, <2>4 DEF Calm, CopyInv, SessionsBegun
  <2>6. Late(t)
    BY <1>1, <1>4, <2>1, <2>3, <2>5, LeftoverLate DEF Calm, TokenInv
  <2>7. Terminal(t) \/ Spent(t)
    <3>1. now \in Nat /\ now <= now
      BY DEF Calm, TokenInv, TypeOK
    <3>2. QED
      BY <2>6, <3>1, LateSpent DEF Late, Calm, TokenInv, ExpiryInv
  <2>8. Doomed(s, "recovered_closed")'
    <3>1. Doomed(s, "recovered_closed")
      BY <2>2, <2>3, <2>7 DEF Doomed, Forgiven
    <3>2. QED
      BY <3>1, DoomedStep
  <2>9. PICK row : row = EndedSession(r, "recovered_closed", TRUE)
    OBVIOUS
  <2>10. row.reason = "recovered_closed"
    BY <2>9 DEF EndedSession, SessionRow
  <2>11. PICK f : f = [loc[p] EXCEPT !.sid = s, !.ses = row]
    OBVIOUS
  <2>12. f.sid = s /\ f.ses = row
    BY <1>1, <2>11 DEF Frame
  <2>13. Goto(p, "recover_end", f)
    BY <1>4, <2>1, <2>9, <2>11
  <2>14. ChaseFrame("recover_end", f)'
    BY <2>8, <2>10, <2>12 DEF ChaseFrame, CallLabels
  <2>15. QED
    BY <1>1, <2>13, <2>14, QuietChases
<1>5. QED
  BY <1>2, <1>3, <1>4

LEMMA RecoveryChases ==
  ASSUME Calm, NEW p \in Procs, RecoverList(p) \/ RecoveryStep(p)
  PROVE  Chases(p)
<1>1. CASE RecoverList(p)
  <2>1. PICK f : Goto(p, "recover", f)
    BY <1>1 DEF RecoverList
  <2>2. /\ pc[p] = "idle" /\ session' = session /\ queue' = queue /\ online' = online
        /\ "recover" \in PlainLabels
    BY <1>1 DEF RecoverList, Arrives, storeVars, gatewayVars, PlainLabels
  <2>3. QED
    BY <2>1, <2>2, PlainChases
<1>2. CASE RecoverEnd(p)
  <2>1. pc[p] = "recover_end" /\ Doomed(loc[p].sid, "recovered_closed")
    BY <1>2
    DEF RecoverEnd, Calm, ChaseInv, ChaseFrame, CopyInv, FramesFit, FrameFit, EndingLabels
  <2>2. QED
    BY <1>2, <2>1, EndChases DEF RecoverEnd, gatewayVars
<1>3. CASE RecoverDone(p)
  <2>1. PICK l, f : l \in PlainLabels /\ Goto(p, l, f)
    BY <1>3, EndsPlain DEF RecoverDone
  <2>2. pc[p] = "recover" /\ session' = session /\ queue' = queue /\ online' = online
    BY <1>3 DEF RecoverDone, storeVars, gatewayVars
  <2>3. QED
    BY <2>1, <2>2, PlainChases
<1>4. QED
  BY <1>1, <1>2, <1>3, RecoverReadChases DEF RecoveryStep

LEMMA DisconnectBegins ==
  ASSUME Calm, NEW p \in Procs, BeginDisconnect(p) \/ BeginRetry(p)
  PROVE  Chases(p)
<1>0. pc[p] = "idle" /\ session' = session /\ online' = online
  BY DEF BeginDisconnect, BeginRetry, Arrives, Dequeues, storeVars, gatewayVars
<1>1. CASE BeginDisconnect(p)
  <2>1. PICK f : Goto(p, "dc_read", f)
    BY <1>1 DEF BeginDisconnect
  <2>2. "disconnect" \in Ops /\ queue' = queue
    BY <1>1 DEF BeginDisconnect, Arrives, gatewayVars
  <2>3. ChaseFrame("dc_read", f)'
    BY <2>2 DEF ChaseFrame, Doomed, EndingLabels
  <2>4. QED
    BY <1>0, <2>1, <2>2, <2>3, QuietChases
<1>2. CASE BeginRetry(p)
  <2>1. PICK d \in Payload :
          /\ queue[d] > 0
          /\ queue' = [queue EXCEPT ![d] = @ - 1]
          /\ Goto(p, "dc_read", [NoFrame EXCEPT !.op = "retry", !.sid = d[1],
                                                !.reason = d[2], !.flag = TRUE])
    BY <1>2 DEF BeginRetry
  <2>2. PICK s \in Sessions, why \in EndReason : d = <<s, why>>
    BY DEF Payload
  <2>3. PICK f : f = [NoFrame EXCEPT !.op = "retry", !.sid = d[1], !.reason = d[2],
                                     !.flag = TRUE]
    OBVIOUS
  <2>4. f.sid = s /\ f.reason = why /\ f.flag = TRUE
    BY <2>2, <2>3 DEF NoFrame
  <2>5. Goto(p, "dc_read", f)
    BY <2>1, <2>3
  <2>6. Doomed(s, why)'
    BY <2>1, <2>2, DoomedStep DEF Calm, ChaseInv
  <2>7. ChaseFrame("dc_read", f)' /\ Hunts("dc_read", f, s)
    BY <2>4, <2>6 DEF ChaseFrame, Hunts, EndingLabels
  <2>8. Sought(p, s)
    BY <2>5, <2>7 DEF Sought, Goto, Calm, TokenInv, TypeOK
  <2>9. \A e \in Payload : e # d => queue'[e] = queue[e]
    BY <2>1 DEF Calm, TokenInv, TypeOK
  <2>10. \A r \in Sessions, y \in EndReason :
           <<r, y>> \in Payload /\ (<<r, y>> = d => r = s /\ y = why)
    BY <2>2 DEF Payload
  <2>11. ASSUME NEW r \in Sessions
         PROVE  TasksChased(p, r)
    <3>1. ASSUME NEW y \in EndReason
          PROVE  /\ queue[<<r, y>>] > 0 => Sought(p, r)
                 /\ queue'[<<r, y>>] > 0 => queue[<<r, y>>] > 0
      <4>1. CASE <<r, y>> = d
        BY <2>1, <2>8, <2>10, <4>1
      <4>2. CASE <<r, y>> # d
        BY <2>9, <2>10, <4>2 DEF Sought
      <4>3. QED
        BY <4>1, <4>2
    <3>2. QED
      BY <3>1 DEF TasksChased
  <2>12. \A r : ~Hunts(pc[p], loc[p], r) /\ RowChased(p, r)
    BY <1>0 DEF Hunts, RowChased
  <2>13. QED
    BY <1>0, <2>5, <2>7, <2>11, <2>12 DEF Chases
<1>3. QED
  BY <1>1, <1>2

\* What a handler inside DisconnectSession knows
LEMMA InCall ==
  ASSUME Calm, NEW p \in Procs, pc[p] \in CallLabels
  PROVE  /\ loc[p] \in Frame /\ loc[p].sid \in Sessions /\ loc[p].reason \in EndReason
         /\ Doomed(loc[p].sid, loc[p].reason)
         /\ \A r : Hunts(pc[p], loc[p], r) => r = loc[p].sid
BY Known DEF CallLabels, SessionLabels, Frame, Calm, ChaseInv, ChaseFrame, Hunts

LEMMA ReadChases ==
  ASSUME Calm, NEW p \in Procs, DisconnectRead(p)
  PROVE  Chases(p)
<1>1. PICK s, row, why : s = loc[p].sid /\ row = session[s] /\ why = loc[p].reason
  OBVIOUS
<1>2. /\ pc[p] = "dc_read" /\ session' = session /\ online' = online
      /\ loc[p] \in Frame /\ s \in Sessions /\ why \in EndReason
      /\ Doomed(s, why)' /\ \A r : Hunts(pc[p], loc[p], r) => r = s
  BY <1>1, InCall, DoomedStep DEF DisconnectRead, storeVars, CallLabels
<1>3. CASE row.status = "absent" /\ Failed(p)
  <2>1. s \notin online'
    BY <1>1, <1>2, <1>3 DEF Calm, ChaseInv, OnlineChased
  <2>2. \A r \in Sessions : TasksChased(p, r)
    <3>1. CASE queue' = queue
      BY <3>1 DEF TasksChased, Sought
    <3>2. CASE Enqueue(s, why, 1)
      <4>1. \A r \in Sessions, y \in EndReason :
              /\ queue[<<r, y>>] > 0 => queue'[<<r, y>>] > 0
              /\ queue'[<<r, y>>] > 0 => queue[<<r, y>>] > 0 \/ (r = s /\ y = why)
        <5>1. TypeOK /\ 1 \in Nat
          BY DEF Calm, TokenInv
        <5>2. QED
          BY <1>2, <3>2, <5>1, Added
      <4>2. QED
        BY <1>2, <4>1 DEF TasksChased, Sought
    <3>3. QED
      BY <1>1, <1>3, <3>1, <3>2 DEF Failed
  <2>3. PICK l, f : l \in PlainLabels /\ Goto(p, l, f)
    BY <1>3, EndsPlain
  <2>4. \A r : RowChased(p, r)
    BY <1>2 DEF RowChased
  <2>5. QED
    BY <1>2, <2>1, <2>2, <2>3, <2>4, PlainChase DEF Chases
<1>4. CASE ~NeedsControllerCall(p, row) /\ Returned(p) /\ queue' = queue
  <2>1. \A r : ~Hunts(pc[p], loc[p], r)
    BY <1>2, <1>4 DEF Hunts, NeedsControllerCall
  <2>2. PICK l, f : l \in PlainLabels /\ Goto(p, l, f)
    BY <1>4, EndsPlain
  <2>3. \A r : RowChased(p, r) /\ TasksChased(p, r)
    BY <1>2, <1>4 DEF RowChased, TasksChased, Sought
  <2>4. QED
    BY <1>2, <2>1, <2>2, <2>3, PlainChase DEF Chases
<1>5. CASE /\ row.status # "absent" /\ queue' = queue
           /\ Goto(p, "dc_mark", [loc[p] EXCEPT !.ses = Marked(row, why)])
  <2>1. PICK marked, f : marked = Marked(row, why) /\ f = [loc[p] EXCEPT !.ses = marked]
    OBVIOUS
  <2>2. f.sid = s /\ f.reason = why /\ f.ses = marked
    BY <1>1, <1>2, <2>1 DEF Frame
  <2>3. Goto(p, "dc_mark", f)
    BY <1>5, <2>1
  <2>4. row \in SessionRow
    BY <1>1, <1>2 DEF Calm, TokenInv, TypeOK
  <2>5. marked.reason \in {row.reason, why} /\ (marked.reason # why => row.status = "ended")
    BY <2>1, <2>4 DEF Marked, Pending, EndedSession, SessionRow
  <2>6. PICK reason : reason = marked.reason
    OBVIOUS
  <2>7. Doomed(s, reason)'
    <3>1. CASE reason = why
      BY <1>2, <3>1
    <3>2. CASE reason # why
      <4>1. Doomed(s, reason)
        BY <1>1, <1>2, <2>5, <2>6, <3>2 DEF Calm, ChaseInv
      <4>2. QED
        BY <1>2, <4>1, DoomedStep
    <3>3. QED
      BY <3>1, <3>2
  <2>8. ChaseFrame("dc_mark", f)' /\ Hunts("dc_mark", f, s)
    BY <1>2, <2>2, <2>6, <2>7 DEF ChaseFrame, Hunts
  <2>9. Sought(p, s)
    BY <2>3, <2>8 DEF Sought, Goto, Calm, TokenInv, TypeOK
  <2>10. \A r : RowChased(p, r) /\ TasksChased(p, r)
    BY <1>2, <1>5 DEF RowChased, TasksChased, Sought
  <2>11. QED
    BY <1>2, <2>3, <2>8, <2>9, <2>10 DEF Chases
<1>6. QED
  BY <1>1, <1>3, <1>4, <1>5 DEF DisconnectRead

LEMMA MarkChases ==
  ASSUME Calm, NEW p \in Procs, DisconnectMark(p)
  PROVE  Chases(p)
<1>1. PICK s, f : s = loc[p].sid /\ f = loc[p]
  OBVIOUS
<1>2. /\ pc[p] = "dc_mark" /\ queue' = queue /\ online' = online
      /\ session' = [session EXCEPT ![s] = f.ses] /\ Goto(p, "dc_call", f)
  BY <1>1 DEF DisconnectMark, gatewayVars, UpdateSession
<1>3. /\ s \in Sessions /\ Doomed(s, f.reason)' /\ f.sid = s
      /\ \A r : Hunts(pc[p], loc[p], r) => r = s
  BY <1>1, <1>2, InCall, DoomedStep DEF CallLabels
<1>4. f.ses.status = "ended" /\ \A why : why = f.ses.reason => Doomed(s, why)'
  <2>1. f.ses.status = "ended" /\ Doomed(s, f.ses.reason)
    BY <1>1, <1>2 DEF Calm, SessionInv, FramesEnd, EndingLabels, ChaseInv, ChaseFrame
  <2>2. QED
    BY <1>3, <2>1, DoomedStep
<1>5. session'[s] = f.ses /\ \A r \in Sessions : r # s => session'[r] = session[r]
  BY <1>2, <1>3 DEF Calm, TokenInv, TypeOK
<1>6. PICK why : why = f.ses.reason
  OBVIOUS
<1>7. ChaseFrame("dc_call", f)' /\ Hunts("dc_call", f, s)
  BY <1>3, <1>4, <1>5, <1>6 DEF ChaseFrame, Hunts
<1>8. Sought(p, s)
  BY <1>2, <1>7 DEF Sought, Goto, Calm, TokenInv, TypeOK
<1>9. \A r \in Sessions : RowChased(p, r) /\ TasksChased(p, r)
  BY <1>2, <1>4, <1>5, <1>8 DEF RowChased, TasksChased, Sought
<1>10. QED
  BY <1>2, <1>3, <1>7, <1>8, <1>9 DEF Chases

LEMMA AckChases ==
  ASSUME Calm, NEW p \in Procs, GatewayAck(p)
  PROVE  Chases(p)
<1>1. PICK s, reason, row, f : /\ s = loc[p].sid /\ reason = loc[p].reason
                               /\ row = Pending(loc[p].ses, FALSE)
                               /\ f = [loc[p] EXCEPT !.ses = row]
  OBVIOUS
<1>2. /\ pc[p] = "dc_call" /\ queue' = queue /\ session' = session
      /\ Goto(p, "dc_clear", f)
  BY <1>1 DEF GatewayAck, storeVars
<1>3. /\ s \in Sessions /\ Doomed(s, reason)' /\ loc[p] \in Frame
      /\ \A r : Hunts(pc[p], loc[p], r) => r = s
  BY <1>1, <1>2, InCall, DoomedStep DEF CallLabels
<1>4. /\ f.sid = s /\ f.reason = reason /\ f.ses = row
      /\ row.reason = loc[p].ses.reason
  BY <1>1, <1>3 DEF Frame, Pending, SessionRow
<1>5. s \notin online' /\ online' \subseteq online
  <2>1. PICK cut \in BOOLEAN : Disconnects(TRUE, cut) /\ Cut(s, cut)
    BY <1>1 DEF GatewayAck
  <2>2. QED
    BY <2>1, AnswerCuts DEF Cut, Calm
<1>6. PICK why : why = row.reason
  OBVIOUS
<1>7. Doomed(s, why)'
  <2>1. Doomed(s, why)
    BY <1>1, <1>2, <1>4, <1>6 DEF Calm, EndingLabels, ChaseInv, ChaseFrame
  <2>2. QED
    BY <1>3, <2>1, DoomedStep
<1>8. Backend = "memory" => session'[s].status = "ended"
  BY <1>1, <1>2 DEF Calm, ChaseInv, ChaseFrame
<1>9. ChaseFrame("dc_clear", f)'
  BY <1>3, <1>4, <1>6, <1>7, <1>8 DEF ChaseFrame
<1>10. \A r : RowChased(p, r) /\ TasksChased(p, r)
  BY <1>2 DEF RowChased, TasksChased, Sought
<1>11. QED
  BY <1>2, <1>3, <1>4, <1>5, <1>9, <1>10 DEF Chases

LEMMA FailChases ==
  ASSUME Calm, NEW p \in Procs, GatewayFail(p)
  PROVE  Chases(p)
<1>1. PICK s, why : s = loc[p].sid /\ why = loc[p].reason
  OBVIOUS
<1>2. /\ pc[p] = "dc_call" /\ session' = session /\ online' \subseteq online
      /\ \E n \in Nat : QueueRetry(s, why, n)
  BY <1>1 DEF GatewayFail, storeVars, Cut
<1>3. /\ s \in Sessions /\ why \in EndReason /\ Doomed(s, why)'
      /\ \A r : Hunts(pc[p], loc[p], r) => r = s
  BY <1>1, <1>2, InCall, DoomedStep DEF CallLabels
<1>4. PICK n \in Nat : QueueRetry(s, why, n)
  BY <1>2
<1>5. Sought(p, s) /\ \A r \in Sessions : TasksChased(p, r)
  BY <1>3, <1>4, Retried DEF Sought, TasksChased
<1>6. PICK l, f : l \in PlainLabels /\ Goto(p, l, f)
  BY EndsPlain DEF GatewayFail
<1>7. \A r : RowChased(p, r)
  BY <1>2 DEF RowChased
<1>8. QED
  BY <1>2, <1>3, <1>5, <1>6, <1>7, PlainChase DEF Chases

LEMMA ClearChases ==
  ASSUME Calm, NEW p \in Procs, DisconnectClear(p)
  PROVE  Chases(p)
<1>1. PICK s, row : s = loc[p].sid /\ row = loc[p].ses
  OBVIOUS
<1>2. /\ pc[p] = "dc_clear" /\ queue' = queue /\ online' = online
      /\ session' = [session EXCEPT ![s] = row]
  BY <1>1 DEF DisconnectClear, gatewayVars, UpdateSession
<1>3. s \in Sessions /\ \A r : ~Hunts(pc[p], loc[p], r)
  BY <1>1, <1>2, InCall DEF CallLabels, Hunts
<1>4. row.status = "ended" /\ \A why : why = row.reason => Doomed(s, why)'
  <2>1. row.status = "ended" /\ Doomed(s, row.reason)
    BY <1>1, <1>2 DEF Calm, SessionInv, FramesEnd, EndingLabels, ChaseInv, ChaseFrame
  <2>2. QED
    BY <1>3, <2>1, DoomedStep
<1>5. session'[s] = row /\ \A r \in Sessions : r # s => session'[r] = session[r]
  BY <1>2, <1>3 DEF Calm, TokenInv, TypeOK
<1>6. \A r \in Sessions : RowChased(p, r) /\ TasksChased(p, r)
  BY <1>1, <1>2, <1>4, <1>5 DEF RowChased, TasksChased, Sought
<1>7. PICK l, f : l \in PlainLabels /\ Goto(p, l, f)
  BY EndsPlain DEF DisconnectClear
<1>8. QED
  BY <1>2, <1>3, <1>6, <1>7, PlainChase DEF Chases

------------------------------------------------------------------------------
(* ChaseInv is inductive *)

LEMMA NoStop ==
  ASSUME Calm, NEW p \in Procs
  PROVE  ~AccountingBegin(p) /\ ~AccountingStep(p)
<1>1. ~BeginStop(p)
  BY DEF BeginStop, Arrives, Calm
<1>2. ~StopRead(p) /\ ~StopWrite(p)
  BY DEF StopRead, StopWrite, Calm, ChaseInv, ChaseFrame
<1>3. QED
  BY <1>1, <1>2, StopsOnly DEF Calm

LEMMA HandlerChases ==
  ASSUME Calm, NEW p \in Procs, Begin(p) \/ Step(p)
  PROVE  Chases(p)
<1>1. RedeemStep(p) \/ BeginRedeem(p) => Chases(p)
  BY RedeemPlainChases, ExpiredChases, ResumeFindChases, LetInChases DEF RedeemStep
<1>2. TokenBegin(p) \/ TokenStep(p) => Chases(p)
  BY <1>1, RevokeChases, SweepChases DEF TokenBegin, TokenStep
<1>3. GatewayBegin(p) \/ GatewayStoreStep(p) \/ ControllerStep(p) => Chases(p)
  BY DisconnectBegins, ReadChases, MarkChases, ClearChases, AckChases, FailChases
  DEF GatewayBegin, GatewayStoreStep, ControllerStep
<1>4. QED
  BY <1>2, <1>3, NoStop, RecoveryChases DEF Begin, Step

\* The clock, and a new token
LEMMA UnmovedChase ==
  ASSUME Calm, UNCHANGED <<pc, loc, session, queue, online>>
  PROVE  ChaseInv'
<1>1. ASSUME NEW p \in Procs
      PROVE  ChaseFrame(pc[p], loc[p])'
  <2>1. PICK l, f : l = pc[p] /\ f = loc[p]
    OBVIOUS
  <2>2. l \in EndingLabels => f.ses.tok \in Tokens
    BY <2>1, FoundRow DEF Calm, CopyInv, FramesFit, FrameFit, CopyLabels, Copy, EndingLabels,
                          TokenInv, FramesOK, FrameOK, SessionLabels
  <2>3. ChaseFrame(l, f)'
    BY <2>1, <2>2, Known, ChaseKept DEF Calm, ChaseInv, FrameOK
  <2>4. QED
    BY <2>1, <2>3
<1>2. ASSUME NEW s \in Sessions, session[s].status = "ended"
      PROVE  Doomed(s, session[s].reason)'
  <2>1. PICK why : why = session[s].reason
    OBVIOUS
  <2>2. Doomed(s, why)'
    BY <1>2, <2>1, DoomedStep DEF Calm, ChaseInv
  <2>3. QED
    BY <2>1, <2>2
<1>3. ASSUME NEW s \in Sessions, NEW why \in EndReason, queue[<<s, why>>] > 0
      PROVE  Doomed(s, why)'
  BY <1>3, DoomedStep DEF Calm, ChaseInv
<1>4. \A s \in Sessions : Hunted(s)' = Hunted(s)
  BY DEF Hunted, Hunts
<1>5. ASSUME NEW s \in online
      PROVE  /\ session[s].status # "absent"
             /\ session[s].status = "ended" =>
                  Hunted(s)' \/ Forgiven(s, session[s].reason)'
  <2>1. PICK why : why = session[s].reason
    OBVIOUS
  <2>2. s \in Sessions /\ session[s].status # "absent"
    BY DEF Calm, TokenInv, TypeOK, ChaseInv, OnlineChased
  <2>3. Forgiven(s, why) => Forgiven(s, why)'
    BY <2>2, ForgivenStep
  <2>4. QED
    BY <1>4, <2>1, <2>2, <2>3 DEF Calm, ChaseInv, OnlineChased
<1>6. ASSUME NEW p \in Procs, pc[p] = "dc_clear", loc[p].sid \in online
      PROVE  Hunted(loc[p].sid)' \/ Forgiven(loc[p].sid, loc[p].ses.reason)'
  <2>1. PICK s, why : s = loc[p].sid /\ why = loc[p].ses.reason
    OBVIOUS
  <2>2. s \in Sessions /\ session[s].status # "absent"
    BY <1>6, <2>1 DEF Calm, TokenInv, TypeOK, ChaseInv, OnlineChased
  <2>3. Forgiven(s, why) => Forgiven(s, why)'
    BY <2>2, ForgivenStep
  <2>4. Hunted(s) \/ Forgiven(s, why)
    BY <1>6, <2>1 DEF Calm, ChaseInv, OnlineChased
  <2>5. QED
    BY <1>4, <2>1, <2>2, <2>3, <2>4
<1>7. OnlineChased'
  BY <1>5, <1>6 DEF OnlineChased
<1>8. QED
  BY <1>1, <1>2, <1>3, <1>7 DEF ChaseInv

LEMMA InitChase == Init => ChaseInv
<1> SUFFICES ASSUME Init PROVE ChaseInv
  OBVIOUS
<1>1. \A p \in Procs : pc[p] = "idle"
  BY DEF Init, RequestInit
<1>2. \A s \in Sessions : session[s].status = "absent"
  BY DEF Init, StoreInit, AbsentSession
<1>3. online = {} /\ \A s \in Sessions, why \in EndReason : ~(queue[<<s, why>>] > 0)
  BY DEF Init, GatewayInit, Payload
<1>4. \A p \in Procs : ChaseFrame(pc[p], loc[p])
  BY <1>1 DEF ChaseFrame, CallLabels, EndingLabels
<1>5. OnlineChased
  BY <1>1, <1>3 DEF OnlineChased
<1>6. QED
  BY <1>2, <1>3, <1>4, <1>5 DEF ChaseInv

\* Asynq retries failed disconnects, an HTTP or CoA controller is configured, and no
\* report writes stale rows or ends sessions of tokens that are still good
ChaseSetting ==
  /\ Ops \cap StaleWriters = {} /\ "stop" \notin Ops
  /\ Backend = "memory" \/ "disconnect" \notin Ops
  /\ Workers # {} /\ (HasCoA \/ HasHTTP)

LEMMA NextChase ==
  ASSUME TokenInv, SessionInv, CopyInv, ExpiryInv, ChaseInv, ChaseSetting, [Next]_vars
  PROVE  ChaseInv'
<1> SUFFICES ASSUME faults' = 0 PROVE ChaseInv'
  BY DEF ChaseInv
<1>1. faults = 0
  BY MetersStep DEF Meters, TokenInv, TypeOK
<1>2. Calm
  BY <1>1, NextInv DEF Calm, ChaseSetting
<1>3. ASSUME NEW p \in Procs, Begin(p) \/ Step(p)
      PROVE  ChaseInv'
  BY <1>2, <1>3, HandlerChases, ChasesInv
<1>4. ~\E p \in Procs : Abort(p)
  BY <1>1 DEF Abort, Fault
<1>5. ASSUME NEW t \in Tokens, GenerateToken(t)
      PROVE  ChaseInv'
  BY <1>2, <1>5, UnmovedChase DEF GenerateToken, requestVars, gatewayVars
<1>6. CASE Tick \/ UNCHANGED vars
  BY <1>2, <1>6, UnmovedChase DEF Tick, vars, storeVars, requestVars, gatewayVars
<1>7. QED
  BY <1>3, <1>4, <1>5, <1>6 DEF Next

\* As long as no call fails, a session that the gateway still forwards although it
\* ended will be disconnected by a handler or a queued task, or the time of its token
\* is up in every copy of the row, and it ended for that
THEOREM ChaseInvariant ==
  ASSUME ChaseSetting
  PROVE  Spec => []ChaseInv
<1> DEFINE IInv == TokenInv /\ SessionInv /\ CopyInv /\ ExpiryInv /\ ChaseInv
<1>1. Init => IInv
  BY InitInv, InitSession, InitCopies, InitExpiry, InitChase
<1>2. IInv /\ [Next]_vars => IInv'
  BY NextInv, NextSession, NextCopies, NextExpiry, NextChase DEF ChaseSetting
<1>3. QED
  BY <1>1, <1>2, PTL DEF Spec

\* EndedIsTracked, with its excuse, for every number of handlers and sessions
THEOREM EndedAreTracked ==
  ASSUME ChaseSetting
  PROVE  Spec => [](faults = 0 => EndedIsTracked)
<1>1. ASSUME ChaseInv, TokenInv, faults = 0
      PROVE  EndedIsTracked
  <2> SUFFICES ASSUME NEW s \in online, session[s].status = "ended"
               PROVE  Tracked(s) \/ Lapsed(s)
    BY DEF EndedIsTracked
  <2>1. CASE Hunted(s)
    BY <2>1 DEF Hunted, Hunts, Tracked
  <2>2. CASE Forgiven(s, session[s].reason)
    BY <2>2 DEF Forgiven, Spent, Expiries, Lapsed
  <2>3. QED
    BY <1>1, <2>1, <2>2 DEF ChaseInv, OnlineChased
<1>2. QED
  BY <1>1, ChaseInvariant, TokenInvariant, PTL
==============================================================================
