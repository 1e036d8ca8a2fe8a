----------------------------- MODULE WifiManProofs -----------------------------
(***************************************************************************)
(* The token guarantees of WifiMan for every number of handlers, tokens,   *)
(* sessions and devices, every plan and every bound.                       *)
(***************************************************************************)
EXTENDS TokenProofs, AccountingProofs

LEMMA AbortInv ==
  ASSUME TokenInv, NEW p \in Procs, Abort(p)
  PROVE  TokenInv'
<1>1. queue' \in [Payload -> Nat] /\ faults' \in Nat
  <2>1. queue' \in [Payload -> Nat]
    BY EnqueueType DEF Abort, Failed, TokenInv, TypeOK
  <2>2. QED
    BY <2>1 DEF Abort, Fault, TokenInv, TypeOK
<1>2. /\ backlog' \in [Procs -> SUBSET (Sessions \X SessionRow)]
      /\ \A q \in Procs : backlog'[q] \subseteq backlog[q]
  BY DEF Abort, TokenInv, TypeOK
<1>3. QED
  BY <1>1, <1>2, IdleFrame, RollbackInv DEF Abort, Failed, Finish, TokenInv, TypeOK

\* The clock, and a stuttering step
LEMMA IdleInv ==
  ASSUME TokenInv, Tick \/ UNCHANGED vars
  PROVE  TokenInv'
<1>1. /\ UNCHANGED <<token, session, ledger, lock, pc, loc, faults, queue, online,
                     granted, reported, backlog>>
      /\ now' \in Nat
  BY DEF Tick, vars, storeVars, requestVars, gatewayVars, TokenInv, TypeOK
<1>2. TypeOK' /\ LockHeld' /\ GrantsBound' /\ OneDevicePerToken'
  BY <1>1 DEF TokenInv, TypeOK, LockHeld, GrantsBound, OneDevicePerToken
<1>3. FramesOK' /\ RowsOwned' /\ BacklogOwned'
  BY <1>1 DEF TokenInv, FramesOK, FrameOK, RowsOwned, BacklogOwned, Owned
<1>4. QED
  BY <1>2, <1>3 DEF TokenInv

LEMMA InitInv == Init => TokenInv
<1> SUFFICES ASSUME Init PROVE TokenInv
  OBVIOUS
<1> USE DEF Init, StoreInit, RequestInit, GatewayInit, TokenInit, AccountingInit,
           RecoveryInit
<1>1. AbsentSession \in SessionRow /\ AbsentSession.status = "absent"
  BY DEF AbsentSession, SessionRow, SessionStatus, EndReason
<1>2. TypeOK
  BY <1>1, IdleFrame, TokenRows DEF TypeOK
<1>3. FramesOK
  BY IdleFrame DEF FramesOK
<1>4. RowsOwned
  BY <1>1 DEF RowsOwned, Owned
<1>5. LockHeld
  BY ProcAssumption DEF LockHeld, TxLabels
<1>6. GrantsBound /\ OneDevicePerToken
  <2>1. AbsentToken.status = "absent"
    BY DEF AbsentToken
  <2>2. QED
    BY <2>1 DEF GrantsBound, OneDevicePerToken
<1>7. BacklogOwned
  BY DEF BacklogOwned
<1>8. QED
  BY <1>2, <1>3, <1>4, <1>5, <1>6, <1>7 DEF TokenInv

LEMMA NextInv == TokenInv /\ [Next]_vars => TokenInv'
<1> SUFFICES ASSUME TokenInv, [Next]_vars PROVE TokenInv'
  OBVIOUS
<1>1. ASSUME NEW t \in Tokens, GenerateToken(t), UNCHANGED <<reported, backlog>>
      PROVE  TokenInv'
  BY <1>1, GenerateTokenInv
<1>2. ASSUME NEW p \in Procs, Begin(p) PROVE TokenInv'
  BY <1>2, TokenServiceInv, AccountingInv, GatewayInv, RecoveryInv DEF Begin
<1>3. ASSUME NEW p \in Procs, Step(p) PROVE TokenInv'
  BY <1>3, TokenServiceInv, AccountingInv, GatewayInv, RecoveryInv DEF Step
<1>4. ASSUME NEW p \in Procs, Abort(p) PROVE TokenInv'
  BY <1>4, AbortInv
<1>5. CASE Tick \/ UNCHANGED vars
  BY <1>5, IdleInv
<1>6. QED
  BY <1>1, <1>2, <1>3, <1>4, <1>5 DEF Next

\* The inductive invariant of the token service holds in every reachable state
THEOREM TokenInvariant == Spec => []TokenInv
BY InitInv, NextInv, PTL DEF Spec

\* Every variable keeps its type: no byte counter, queue length or fault count
\* goes below zero, and no handler is lost between two labels
THEOREM TypeCorrect == Spec => []TypeOK
<1>1. TokenInv => TypeOK
  BY DEF TokenInv
<1>2. QED
  BY <1>1, TokenInvariant, PTL

\* README, "Binds token to first device MAC": for any number of concurrent
\* redeems, resumes and RADIUS logins, revocations and sweeps, all the grants of
\* a token go to one device
THEOREM DeviceBinding == Spec => []OneDevicePerToken
<1>1. TokenInv => OneDevicePerToken
  BY DEF TokenInv
<1>2. QED
  BY <1>1, TokenInvariant, PTL

------------------------------------------------------------------------------
(* What a step may do to tokens and grants *)

\* A token row is closed and nobody is let in: revocation, sweep, quota
Closes(t) ==
  \E row \in TokenRow :
    /\ token[t].status # "absent" /\ row.status \in TerminalStatus
    /\ token' = [token EXCEPT ![t] = row]
    /\ granted' = granted

\* Of all the actions, four write token rows to close them, two let a device
\* in, one does both, and one issues a token
LEMMA StepKinds ==
  ASSUME TokenInv, [Next]_vars
  PROVE  \/ UNCHANGED <<token, granted>>
         \/ \E t \in Tokens : GenerateToken(t) \/ Closes(t)
         \/ \E p \in Procs : RedeemActivate(p) \/ ResumeAttach(p) \/ ResumeReopen(p)
<1>1. ASSUME NEW p \in Procs, RevokeWrite(p) PROVE \E t \in Tokens : Closes(t)
  <2>1. /\ loc[p].tid \in Tokens /\ token[loc[p].tid].status # "absent"
        /\ loc[p].tok \in TokenRow /\ loc[p].tok.status \in TerminalStatus
    BY <1>1, Known
    DEF RevokeWrite, FrameOK, TokenLabels, KnownLabels, RedeemLabels, WriteLabels, Frame
  <2>2. QED
    BY <1>1, <2>1 DEF RevokeWrite, UpdateToken, Closes
<1>2. ASSUME NEW p \in Procs, QuotaConsume(p), granted' = granted
      PROVE  \E t \in Tokens : Closes(t)
  <2>1. /\ loc[p].tid \in Tokens /\ token[loc[p].tid].status # "absent"
        /\ loc[p].tok \in TokenRow /\ loc[p].tok.status \in TerminalStatus
    BY <1>2, Known
    DEF QuotaConsume, FrameOK, TokenLabels, KnownLabels, RedeemLabels, WriteLabels, Frame
  <2>2. QED
    BY <1>2, <2>1 DEF QuotaConsume, UpdateToken, Closes
<1>3. ASSUME NEW p \in Procs, SweepExpire(p) PROVE \E t \in Tokens : Closes(t)
  <2>1. PICK d \in loc[p].todo : UpdateToken(d[1], Closed(d[2], "expired"))
    BY <1>3 DEF SweepExpire
  <2>2. d[1] \in Tokens /\ d[2] \in TokenRow /\ token[d[1]].status # "absent"
    BY Known DEF Frame, FrameOK
  <2>3. Closed(d[2], "expired") \in TokenRow
        /\ Closed(d[2], "expired").status \in TerminalStatus
    BY <2>2, TokenRows DEF TokenStatus, TerminalStatus
  <2>4. granted' = granted
    BY <1>3 DEF SweepExpire
  <2>5. QED
    BY <2>1, <2>2, <2>3, <2>4 DEF UpdateToken, Closes
<1>3a. ASSUME NEW p \in Procs, RedeemExpiredKept(p) PROVE \E t \in Tokens : Closes(t)
  <2>1. /\ loc[p].tid \in Tokens /\ token[loc[p].tid].status # "absent"
        /\ loc[p].tok \in TokenRow
    BY <1>3a, InTx DEF RedeemExpiredKept, Expires, TxLabels
  <2>2. Closed(loc[p].tok, "expired") \in TokenRow
        /\ Closed(loc[p].tok, "expired").status \in TerminalStatus
    BY <2>1, TokenRows DEF TokenStatus, TerminalStatus
  <2>3. QED
    BY <1>3a, <2>1, <2>2 DEF RedeemExpiredKept, Closes
<1>4. ASSUME NEW p \in Procs, TokenBegin(p) \/ TokenStep(p)
      PROVE  \/ UNCHANGED <<token, granted>>
             \/ \E t \in Tokens : Closes(t)
             \/ RedeemActivate(p) \/ ResumeAttach(p) \/ ResumeReopen(p)
  BY <1>1, <1>3, <1>4, <1>3a
  DEF TokenBegin, TokenStep, RedeemStep, BeginRedeem, BeginPortal, BeginAuth, Enter, RevokeRead,
      SweepList, RedeemUnknown,
      RedeemLock, ResumeUnused, RedeemRefused, RedeemExpired, ResumeFind, RevokeFind,
      RevokeEnd, SweepFind, SweepEnd, storeVars
<1>5. ASSUME NEW p \in Procs, AccountingBegin(p) \/ AccountingStep(p), granted' = granted
      PROVE  UNCHANGED <<token, granted>> \/ \E t \in Tokens : Closes(t)
  BY <1>2, <1>5
  DEF AccountingBegin, AccountingStep, StartFind, BeginInterim, BeginStop, AcctStart,
      AcctUpdate, StartSave, StartCreate, UsageRead, UsageWrite, UsageRecord, QuotaCheck,
      QuotaEnd, StopRead, StopWrite, AcctTouch, storeVars
<1>6. ASSUME NEW p \in Procs, granted' = granted,
             \/ GatewayBegin(p) \/ GatewayStoreStep(p) \/ ControllerStep(p)
             \/ RecoverList(p) \/ RecoveryStep(p)
      PROVE  UNCHANGED <<token, granted>>
  BY <1>6
  DEF GatewayBegin, GatewayStoreStep, ControllerStep, BeginDisconnect, BeginRetry,
      DisconnectRead, DisconnectMark, GatewayAck, GatewayFail, DisconnectClear,
      RecoverList, RecoveryStep, RecoverRead, RecoverEnd, RecoverDone, storeVars
<1>7. CASE Tick \/ UNCHANGED vars \/ \E p \in Procs : Abort(p)
  BY <1>7 DEF Tick, Abort, vars, storeVars
<1>8. QED
  BY <1>4, <1>5, <1>6, <1>7 DEF Next, Begin, Step

\* The instant a request read the clock was before the token's expiry
LEMMA Activation ==
  ASSUME TokenInv, NEW p \in Procs, RedeemActivate(p)
  PROVE  LET t == loc[p].tid IN
         /\ t \in Tokens /\ token[t].status = "unused" /\ granted[t] = {}
         /\ token' = [token EXCEPT ![t] = Activated(p)]
         /\ token'[t].status = "active" /\ token'[t].mac = loc[p].mac
         /\ loc[p].at < token'[t].expires
         /\ \E s \in Sessions : Grant(p, s)
<1> DEFINE t == loc[p].tid
<1>1. /\ t \in Tokens /\ token[t].status = "unused" /\ granted[t] = {}
      /\ token' = [token EXCEPT ![t] = Activated(p)]
  BY InTx DEF RedeemActivate, Holds, TxLabels, TokenInv, GrantsBound
<1>2. loc[p].at < loc[p].at + Duration[t]
  BY <1>1, Known, PlanAssumption DEF Frame
<1>3. token'[t] = Activated(p)
  BY <1>1 DEF TokenInv, TypeOK
<1>4. /\ Activated(p).status = "active" /\ Activated(p).mac = loc[p].mac
      /\ loc[p].at < Activated(p).expires
  BY <1>2 DEF Activated
<1>5. \E s \in Sessions : Grant(p, s)
  BY DEF RedeemActivate
<1>6. QED
  BY <1>1, <1>3, <1>4, <1>5

LEMMA Resumption ==
  ASSUME TokenInv, NEW p \in Procs, ResumeAttach(p) \/ ResumeReopen(p)
  PROVE  LET t == loc[p].tid IN
         /\ t \in Tokens /\ token[t].status = "active" /\ token' = token
         /\ token[t].mac = loc[p].mac /\ loc[p].at < token[t].expires
         /\ \E s \in Sessions : Grant(p, s)
<1>1. pc[p] = "found" /\ pc[p] \in TxLabels
  BY DEF ResumeAttach, ResumeReopen, TxLabels
<1>2. loc[p].at < token[loc[p].tid].expires
  BY <1>1, InTx DEF TokenInv, LockHeld
<1>3. token' = token /\ \E s \in Sessions : Grant(p, s)
  BY Known DEF ResumeAttach, ResumeReopen, FrameOK, Frame
<1>4. QED
  BY <1>1, <1>2, <1>3, InTx, InFound

\* Where the one token row of a closing or issuing step lands
LEMMA Closing ==
  ASSUME TokenInv, NEW t \in Tokens, Closes(t)
  PROVE  /\ token[t].status # "absent" /\ token'[t].status \in TerminalStatus
         /\ \A u \in Tokens : u # t => token'[u] = token[u]
         /\ granted' = granted
BY DEF Closes, TokenInv, TypeOK

LEMMA Issuing ==
  ASSUME TokenInv, NEW t \in Tokens, GenerateToken(t)
  PROVE  /\ token[t].status = "absent" /\ token'[t].status = "unused"
         /\ \A u \in Tokens : u # t => token'[u] = token[u]
         /\ granted' = granted
<1>1. UnusedToken.status = "unused"
  BY DEF UnusedToken
<1>2. QED
  BY <1>1 DEF GenerateToken, TokenInv, TypeOK

LEMMA TerminalStep ==
  ASSUME TokenInv, [Next]_vars, NEW t \in Tokens, Terminal(t)
  PROVE  Terminal(t)'
<1>1. CASE UNCHANGED <<token, granted>>
  BY <1>1 DEF Terminal
<1>2. ASSUME NEW u \in Tokens, GenerateToken(u) \/ Closes(u)
      PROVE  Terminal(t)'
  BY <1>2, Closing, Issuing DEF Terminal, TerminalStatus
<1>3. ASSUME NEW p \in Procs, RedeemActivate(p)
      PROVE  Terminal(t)'
  <2>1. t # loc[p].tid
    BY <1>3, Activation DEF Terminal, TerminalStatus
  <2>2. token'[t] = token[t]
    BY <1>3, <2>1 DEF RedeemActivate, TokenInv, TypeOK
  <2>3. QED
    BY <2>2 DEF Terminal
<1>4. ASSUME NEW p \in Procs, ResumeAttach(p) \/ ResumeReopen(p)
      PROVE  Terminal(t)'
  BY <1>4, Resumption DEF Terminal
<1>5. QED
  BY <1>1, <1>2, <1>3, <1>4, StepKinds

\* A token that was revoked, consumed or expired stays so, whatever stale row the
\* revoke, quota or sweep handlers still hold and write back
THEOREM TerminalForEver == Spec => TerminalIsFinal
<1>1. TokenInv /\ [Next]_vars => [\A t \in Tokens : Terminal(t) => Terminal(t)']_vars
  BY TerminalStep
<1>2. QED
  BY <1>1, TokenInvariant, PTL DEF Spec, TerminalIsFinal

\* A step that lets a device in finds the token row active, bound to it, and not
\* overdue when its request read the clock
LEMMA GrantStep ==
  ASSUME TokenInv, [Next]_vars,
         NEW t \in Tokens, NEW g \in granted'[t] \ granted[t]
  PROVE  /\ token'[t].status = "active" /\ token'[t].mac = g[1]
         /\ \E p \in Procs : loc[p].tid = t /\ loc[p].at < token'[t].expires
<1>1. ASSUME NEW p \in Procs, NEW s \in Sessions, Grant(p, s)
      PROVE  loc[p].tid = t /\ g[1] = loc[p].mac
  BY <1>1 DEF Grant, TokenInv, TypeOK
<1>2. CASE granted' = granted
  BY <1>2
<1>3. ASSUME NEW p \in Procs, RedeemActivate(p)
      PROVE  /\ token'[t].status = "active" /\ token'[t].mac = g[1]
             /\ loc[p].tid = t /\ loc[p].at < token'[t].expires
  BY <1>1, <1>3, Activation
<1>4. ASSUME NEW p \in Procs, ResumeAttach(p) \/ ResumeReopen(p)
      PROVE  /\ token'[t].status = "active" /\ token'[t].mac = g[1]
             /\ loc[p].tid = t /\ loc[p].at < token'[t].expires
  BY <1>1, <1>4, Resumption
<1>5. QED
  BY <1>2, <1>3, <1>4, StepKinds, Closing, Issuing

\* No interleaving of a redeem or resume with revocations, sweeps and quota
\* handlers lets a device in on a token that is over or bound to another device
THEOREM GrantsOnlyLiveTokens == Spec => GrantOnlyLive
<1>1. TokenInv /\ [Next]_vars =>
        [\A t \in Tokens : \A g \in granted'[t] \ granted[t] :
           /\ token'[t].status = "active"
           /\ token'[t].mac = g[1]
           /\ \E p \in Procs : loc[p].tid = t /\ loc[p].at < token'[t].expires]_vars
  BY GrantStep
<1>2. QED
  BY <1>1, TokenInvariant, PTL DEF Spec, GrantOnlyLive

------------------------------------------------------------------------------
(* WifiMan implements Voucher *)

phaseOf   == [t \in Tokens |-> Phase(token[t])]
holdersOf == [t \in Tokens |-> {g[1] : g \in granted[t]}]
servedOf  == [t \in Tokens |-> {g[2] : g \in granted[t]}]

LEMMA VoucherInit == Init => V!Init
<1> SUFFICES ASSUME Init PROVE V!Init
  OBVIOUS
<1>1. Phase(AbsentToken) = "absent"
  BY DEF Phase, AbsentToken, TerminalStatus
<1>2. QED
  BY <1>1 DEF Init, StoreInit, TokenInit, V!Init

LEMMA IssueStep ==
  ASSUME TokenInv, NEW t \in Tokens, GenerateToken(t)
  PROVE  V!Issue(t)
<1>1. phaseOf[t] = "absent" /\ phaseOf' = [phaseOf EXCEPT ![t] = "unused"]
  BY Issuing DEF phaseOf, Phase, TerminalStatus
<1>2. holdersOf' = holdersOf /\ servedOf' = servedOf
  BY Issuing DEF holdersOf, servedOf
<1>3. QED
  BY <1>1, <1>2 DEF V!Issue, phaseOf, holdersOf, servedOf

LEMMA CloseStep ==
  ASSUME TokenInv, NEW t \in Tokens, Closes(t)
  PROVE  V!Close(t) \/ UNCHANGED V!vars
<1>1. holdersOf' = holdersOf /\ servedOf' = servedOf
  BY Closing DEF holdersOf, servedOf
<1>2. phaseOf' = [phaseOf EXCEPT ![t] = "over"]
  BY Closing DEF phaseOf, Phase
<1>3. phaseOf[t] \in {"unused", "active", "over"}
  <2>1. token[t].status \in TokenStatus \ {"absent"}
    BY Closing DEF TokenInv, TypeOK, TokenRow
  <2>2. QED
    BY <2>1 DEF phaseOf, Phase, TokenStatus, TerminalStatus
<1>4. CASE phaseOf[t] = "over"
  <2>1. phaseOf' = phaseOf
    BY <1>2, <1>4 DEF phaseOf
  <2>2. QED
    BY <1>1, <2>1 DEF V!vars, phaseOf, holdersOf, servedOf
<1>5. CASE phaseOf[t] # "over"
  BY <1>1, <1>2, <1>3, <1>5 DEF V!Close, phaseOf, holdersOf, servedOf
<1>6. QED
  BY <1>4, <1>5

LEMMA ActivateStep ==
  ASSUME TokenInv, NEW p \in Procs, RedeemActivate(p)
  PROVE  \E t \in Tokens, d \in Macs, s \in Sessions : V!Activate(t, d, s)
<1> DEFINE t == loc[p].tid
           d == loc[p].mac
<1>1. PICK s \in Sessions : Grant(p, s)
  BY Activation
<1>2. t \in Tokens /\ d \in Macs
  BY InTx DEF RedeemActivate, Holds, TxLabels
<1>3. phaseOf[t] = "unused" /\ phaseOf' = [phaseOf EXCEPT ![t] = "active"]
  <2>1. \A u \in Tokens : u # t => token'[u] = token[u]
    BY Activation DEF TokenInv, TypeOK
  <2>2. token[t].status = "unused" /\ token'[t].status = "active"
    BY Activation
  <2>3. QED
    BY <1>2, <2>1, <2>2 DEF phaseOf, Phase, TerminalStatus
<1>4. granted[t] = {}
  BY Activation
<1>5. granted' = [granted EXCEPT ![t] = {<<d, s>>}]
  BY <1>1, <1>4 DEF Grant
<1> HIDE DEF t, d
<1>6. /\ holdersOf' = [holdersOf EXCEPT ![t] = {d}]
      /\ servedOf' = [servedOf EXCEPT ![t] = {s}]
  <2>1. granted'[t] = {<<d, s>>} /\ \A u \in Tokens : u # t => granted'[u] = granted[u]
    BY <1>2, <1>5 DEF TokenInv, TypeOK
  <2>2. {g[1] : g \in granted'[t]} = {d} /\ {g[2] : g \in granted'[t]} = {s}
    BY <2>1
  <2>3. QED
    BY <1>2, <2>1, <2>2 DEF holdersOf, servedOf
<1>7. V!Activate(t, d, s)
  BY <1>3, <1>6 DEF V!Activate, phaseOf, holdersOf, servedOf
<1>8. QED
  BY <1>2, <1>7

LEMMA ServeStep ==
  ASSUME TokenInv, NEW p \in Procs, ResumeAttach(p) \/ ResumeReopen(p)
  PROVE  \E t \in Tokens, s \in Sessions : V!Serve(t, s)
<1> DEFINE t == loc[p].tid
           d == loc[p].mac
<1>1. PICK s \in Sessions : Grant(p, s)
  BY Resumption
<1>2. t \in Tokens /\ token' = token /\ token[t].status = "active"
  BY Resumption
<1>3. phaseOf[t] = "active" /\ phaseOf' = phaseOf
  BY <1>2 DEF phaseOf, Phase, TerminalStatus
<1>4. granted[t] # {} /\ \A g \in granted[t] : g[1] = d
  BY <1>2, Resumption DEF TokenInv, GrantsBound
<1>5. granted' = [granted EXCEPT ![t] = granted[t] \cup {<<d, s>>}]
  BY <1>1 DEF Grant
<1> HIDE DEF t, d
<1>6. /\ granted'[t] = granted[t] \cup {<<d, s>>}
      /\ \A u \in Tokens : u # t => granted'[u] = granted[u]
  BY <1>2, <1>5 DEF TokenInv, TypeOK
<1>7. holdersOf' = holdersOf
  <2>1. {g[1] : g \in granted'[t]} = {g[1] : g \in granted[t]}
    BY <1>4, <1>6
  <2>2. QED
    BY <1>6, <2>1 DEF holdersOf
<1>8. servedOf' = [servedOf EXCEPT ![t] = servedOf[t] \cup {s}]
  <2>1. \A S : {g[2] : g \in S \cup {<<d, s>>}} = {g[2] : g \in S} \cup {s}
    <3>1. <<d, s>>[2] = s
      OBVIOUS
    <3> DEFINE e == <<d, s>>
    <3> HIDE DEF e
    <3>2. e[2] = s => \A S : {g[2] : g \in S \cup {e}} = {g[2] : g \in S} \cup {s}
      OBVIOUS
    <3>3. QED
      BY <3>1, <3>2 DEF e
  <2>2. servedOf[t] = {g[2] : g \in granted[t]}
    BY <1>2 DEF servedOf
  <2>3. servedOf'[t] = servedOf[t] \cup {s}
    BY <1>2, <1>6, <2>1, <2>2 DEF servedOf
  <2>4. \A u \in Tokens : u # t => servedOf'[u] = servedOf[u]
    BY <1>6 DEF servedOf
  <2>5. QED
    BY <2>3, <2>4 DEF servedOf
<1>9. V!Serve(t, s)
  BY <1>3, <1>7, <1>8 DEF V!Serve, phaseOf, holdersOf, servedOf
<1>10. QED
  BY <1>2, <1>9

LEMMA VoucherNext == TokenInv /\ [Next]_vars => [V!Next]_(V!vars)
<1> SUFFICES ASSUME TokenInv, [Next]_vars PROVE V!Next \/ UNCHANGED V!vars
  OBVIOUS
<1>1. CASE UNCHANGED <<token, granted>>
  BY <1>1 DEF V!vars
<1>2. ASSUME NEW t \in Tokens, GenerateToken(t) \/ Closes(t)
      PROVE  V!Next \/ UNCHANGED V!vars
  BY <1>2, IssueStep, CloseStep DEF V!Next
<1>3. ASSUME NEW p \in Procs,
             RedeemActivate(p) \/ ResumeAttach(p) \/ ResumeReopen(p)
      PROVE  V!Next
  BY <1>3, ActivateStep, ServeStep DEF V!Next
<1>4. QED
  BY <1>1, <1>2, <1>3, StepKinds

\* The whole backend keeps the promise of module Voucher: a code is issued once,
\* bound to the first device, and serves nobody once it is over
THEOREM ImplementsVoucher == Spec => VoucherSpec
BY VoucherInit, VoucherNext, TokenInvariant, PTL DEF Spec, VoucherSpec, V!Spec
==============================================================================
