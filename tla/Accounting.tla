------------------------------ MODULE Accounting ------------------------------
(***************************************************************************)
(* service/session_service.go and service/quota_service.go with the two    *)
(* front ends that call them: the HTTP accounting endpoints and RADIUS     *)
(* accounting packets (radius_service.go, HandleAccounting).  No handler   *)
(* here runs in a transaction.  Up and down bytes are one counter.         *)
(***************************************************************************)
EXTENDS GatewayIntegration

CONSTANTS
  Adds,      \* byte counts an HTTP interim report may carry (since the last one)
  Totals,    \* counters of the network access server (since the session began)
  Word,      \* 2^32, where an octet counter of a RADIUS packet wraps
  MaxBytes   \* bound: no new report once a session's records reach it

ASSUME ByteAssumption == Adds \subseteq Nat /\ Totals \subseteq Nat /\ MaxBytes \in Nat
ASSUME WordAssumption == Word \in Nat \ {0, 1}

VARIABLE
  reported   \* by session, the largest counter a RADIUS packet reported for it

AccountingInit == reported = [s \in Sessions |-> 0]

------------------------------------------------------------------------------
(* StartAccounting, POST /v1/accounting/start *)

\* A failing lookup counts as no session found
StartFind(p) ==
  /\ Arrives(p, "start") /\ Room
  /\ \E t \in Tokens, m \in Macs, r \in RadiusIds \cup {None}, flag \in BOOLEAN :
       LET S == GetActiveSessionByToken(t)
           f == [NoFrame EXCEPT !.op = "start", !.tid = t, !.mac = m, !.rid = r,
                                !.at = now, !.flag = flag]
       IN /\ token[t].status # "absent"
          /\ \/ S = {} /\ Goto(p, "start_create", f) /\ UNCHANGED faults
             \/ S # {} /\ StoreFails /\ Goto(p, "start_create", f)
             \/ \E s \in S :
                  /\ Goto(p, "start_save",
                          [f EXCEPT !.sid = s,
                                    !.ses = Pending(Attached(session[s], r), flag)])
                  /\ UNCHANGED faults
  /\ UNCHANGED <<storeVars, gatewayVars, reported>>

StartSave(p) ==
  /\ pc[p] = "start_save"
  /\ UpdateSession(loc[p].sid, loc[p].ses)
  /\ online' = online \cup {loc[p].sid}
  /\ Finish(p)
  /\ UNCHANGED <<token, ledger, lock, now, faults, queue, reported>>

\* The token's status is not looked at
StartCreate(p) ==
  /\ pc[p] = "start_create"
  /\ \E s \in Sessions :
       /\ CreateSession(None, s, NewSession(loc[p].tid, loc[p].mac, loc[p].rid, loc[p].at,
                                            loc[p].flag))
       /\ online' = online \cup {s}
  /\ Finish(p)
  /\ UNCHANGED <<token, ledger, lock, now, faults, queue, reported>>

------------------------------------------------------------------------------
(* InterimAccounting and ApplyUsage *)

BeginInterim(p) ==
  /\ Arrives(p, "interim")
  /\ \E s \in Sessions, n \in Adds :
       /\ session[s].status # "absent" /\ ledger[s] < MaxBytes
       /\ Goto(p, "usage_read", [NoFrame EXCEPT !.op = "interim", !.sid = s, !.add = n])
  /\ UNCHANGED <<storeVars, faults, gatewayVars, reported>>

Charged(row, n) == [row EXCEPT !.bytes = @ + n]

\* ErrSessionNotActive unless the row is active; else add to its counter
UsageRead(p) ==
  /\ pc[p] = "usage_read"
  /\ LET row == session[loc[p].sid] IN
       IF row.status = "active"
       THEN Goto(p, "usage_write",
                 [loc[p] EXCEPT !.tid = row.tok,
                                !.ses = Charged(row, loc[p].add)])
       ELSE Finish(p)
  /\ UNCHANGED <<storeVars, faults, gatewayVars, reported>>

UsageWrite(p) ==
  /\ pc[p] = "usage_write"
  /\ UpdateSession(loc[p].sid, loc[p].ses)
  /\ Goto(p, "usage_record", loc[p])
  /\ UNCHANGED <<token, ledger, lock, now, faults, gatewayVars, reported>>

UsageRecord(p) ==
  /\ pc[p] = "usage_record"
  /\ CreateUsageRecord(loc[p].sid, loc[p].tid, loc[p].add)
  /\ Goto(p, "quota_check", loc[p])
  /\ UNCHANGED <<token, session, lock, now, faults, gatewayVars, reported>>

\* total >= limit on the copy of the row this handler wrote
QuotaReached(p) ==
  /\ DataLimit[loc[p].tid] > 0
  /\ loc[p].ses.bytes >= DataLimit[loc[p].tid]

\* The token row is read; over quota the session and then the token are written.
\* Below quota a RADIUS stop goes on to StopSession.
QuotaCheck(p) ==
  /\ pc[p] = "quota_check"
  /\ \/ /\ QuotaReached(p)
        /\ Goto(p, "quota_end",
                [loc[p] EXCEPT !.ses = EndedSession(@, "data_limit_reached", TRUE),
                               !.tok = Closed(token[loc[p].tid], "consumed")])
     \/ /\ ~QuotaReached(p) /\ loc[p].op = "acct_stop"
        /\ Goto(p, "stop_read", [NoFrame EXCEPT !.op = "acct_stop", !.sid = loc[p].sid])
     \/ /\ ~QuotaReached(p) /\ loc[p].op # "acct_stop"
        /\ Finish(p)
  /\ UNCHANGED <<storeVars, faults, gatewayVars, reported>>

QuotaEnd(p) ==
  /\ pc[p] = "quota_end"
  /\ UpdateSession(loc[p].sid, loc[p].ses)
  /\ Goto(p, "quota_consume", loc[p])
  /\ UNCHANGED <<token, ledger, lock, now, faults, gatewayVars, reported>>

\* Mutant: the token row is not saved
QuotaConsumeUnsaved(p) ==
  /\ pc[p] = "quota_consume"
  /\ CallDisconnect(p, loc[p].sid, "data_limit_reached")
  /\ UNCHANGED <<storeVars, faults, gatewayVars, reported>>

\* Both front ends answer result.Disconnect with DisconnectSession
QuotaConsume(p) ==
  /\ pc[p] = "quota_consume"
  /\ UpdateToken(loc[p].tid, loc[p].tok)
  /\ CallDisconnect(p, loc[p].sid, "data_limit_reached")
  /\ UNCHANGED <<session, ledger, lock, now, faults, gatewayVars, reported>>

------------------------------------------------------------------------------
(* StopAccounting and StopSession *)

\* POST /v1/accounting/stop: the network access server dropped the session
BeginStop(p) ==
  /\ Arrives(p, "stop")
  /\ \E s \in Sessions :
       /\ session[s].status # "absent"
       /\ online' = online \ {s}
       /\ Goto(p, "stop_read", [NoFrame EXCEPT !.op = "stop", !.sid = s])
  /\ UNCHANGED <<storeVars, faults, queue, reported>>

StopRead(p) ==
  /\ pc[p] = "stop_read"
  /\ LET row == session[loc[p].sid] IN
       IF row.status = "active"
       THEN Goto(p, "stop_write", [loc[p] EXCEPT !.ses = EndedSession(row, "stop", FALSE)])
       ELSE Finish(p)
  /\ UNCHANGED <<storeVars, faults, gatewayVars, reported>>

StopWrite(p) ==
  /\ pc[p] = "stop_write"
  /\ UpdateSession(loc[p].sid, loc[p].ses)
  /\ Finish(p)
  /\ UNCHANGED <<token, ledger, lock, now, faults, gatewayVars, reported>>

------------------------------------------------------------------------------
(* HandleRadiusAccounting *)

\* Accounting-Request packets by their Acct-Status-Type.  A type other than
\* start, stop and interim is handled as an interim report.
PacketOps == {"acct_start", "acct_interim", "acct_stop"}

Report(s, total) ==
  reported' = [reported EXCEPT ![s] = IF total > @ THEN total ELSE @]

Touched(row, m) == [row EXCEPT !.mac = m]

\* A start packet refreshes the row found by its radius id
AcctStart(p) ==
  /\ Arrives(p, "acct_start")
  /\ \E r \in RadiusIds, m \in Macs : \E s \in GetSessionByRadius(r) :
       Goto(p, "acct_touch", [NoFrame EXCEPT !.op = "acct_start", !.sid = s,
                                             !.ses = Touched(session[s], m)])
  /\ UNCHANGED <<storeVars, faults, gatewayVars, reported>>

AcctTouch(p) ==
  /\ pc[p] = "acct_touch"
  /\ UpdateSession(loc[p].sid, loc[p].ses)
  /\ Finish(p)
  /\ UNCHANGED <<token, ledger, lock, now, faults, gatewayVars, reported>>

\* Mutant: the absolute counter is taken for an increment
DeltaTotal(total, row) == total

\* What the counter grew since the row was last written, never less than 0
Delta(total, row) == IF total > row.bytes THEN total - row.bytes ELSE 0

\* A counter as the server reads it from the two attributes that carry it
Octets(octets, gigawords) == gigawords * Word + octets

\* An interim or stop packet.  Packets are UDP: one may be retransmitted, late
\* or out of order, so any counter may arrive.  A gigawords attribute that is
\* missing or not 4 bytes long reads as 0.  A packet for an ended session is
\* acknowledged and changes nothing.
AcctUpdate(p) ==
  /\ \E op \in PacketOps \ {"acct_start"}, r \in RadiusIds, total \in Totals :
       /\ Arrives(p, op)
       /\ \E s \in GetSessionByRadius(r), gigawords \in {total \div Word, 0} :
            LET f == [NoFrame EXCEPT !.op = op, !.sid = s]
                delta == Delta(Octets(total % Word, gigawords), session[s])
            IN /\ session[s].status = "active" /\ ledger[s] < MaxBytes
               /\ Report(s, total)
               /\ online' = IF op = "acct_stop" THEN online \ {s} ELSE online
               /\ \/ delta > 0 /\ Goto(p, "usage_read", [f EXCEPT !.add = delta])
                  \/ delta = 0 /\ op = "acct_stop" /\ Goto(p, "stop_read", f)
  /\ UNCHANGED <<storeVars, faults, queue>>

------------------------------------------------------------------------------
AccountingBegin(p) == StartFind(p) \/ BeginInterim(p) \/ BeginStop(p)
                      \/ AcctStart(p) \/ AcctUpdate(p)

AccountingStep(p) ==
  \/ StartSave(p) \/ StartCreate(p)
  \/ UsageRead(p) \/ UsageWrite(p) \/ UsageRecord(p)
  \/ QuotaCheck(p) \/ QuotaEnd(p) \/ QuotaConsume(p)
  \/ StopRead(p) \/ StopWrite(p) \/ AcctTouch(p)
==============================================================================
