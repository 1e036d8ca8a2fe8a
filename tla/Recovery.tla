-------------------------------- MODULE Recovery --------------------------------
(***************************************************************************)
(* token_service.go, RecoverSessionsAfterRestart: closes the sessions that *)
(* a restart left active although their token is over.  It lists the       *)
(* active sessions once and then works through its copies, one store or    *)
(* controller call at a time, next to whatever else is served.             *)
(***************************************************************************)
EXTENDS GatewayIntegration

VARIABLE
  backlog    \* by handler, the listed session rows its recovery has still to visit

RecoveryInit == backlog = [p \in Procs |-> {}]

\* List the active sessions, then read the clock.  A recovery that finds none
\* changes nothing.
RecoverList(p) ==
  /\ Arrives(p, "recover")
  /\ LET active == {s \in Sessions : session[s].status = "active"} IN
       /\ active # {}
       /\ backlog' = [backlog EXCEPT ![p] = {<<s, session[s]>> : s \in active}]
  /\ Goto(p, "recover", [NoFrame EXCEPT !.op = "recover", !.at = now])
  /\ UNCHANGED <<storeVars, faults, gatewayVars>>

\* Mutant: the test of the token's status is inverted
LeftoverInverted(row, at) == row.status = "active" \/ (row.expires # 0 /\ row.expires < at)

\* Mutant: only the status counts, an expiry that no sweep has seen yet does not
LeftoverUnswept(row, at) == row.status # "active"

\* The session of such a token row is closed.  now.After(expires), where the sweep
\* and redeem test for "not before"
Leftover(row, at) == row.status # "active" \/ (row.expires # 0 /\ row.expires < at)

\* Read the token of the next session of the list
RecoverRead(p) ==
  /\ pc[p] = "recover"
  /\ \E d \in backlog[p] :
       /\ backlog' = [backlog EXCEPT ![p] = @ \ {d}]
       /\ IF Leftover(token[d[2].tok], loc[p].at)
          THEN Goto(p, "recover_end",
                    [loc[p] EXCEPT !.sid = d[1],
                                   !.ses = EndedSession(d[2], "recovered_closed", TRUE)])
          ELSE RecoverNext(p)
  /\ UNCHANGED <<storeVars, faults, gatewayVars>>

RecoverEnd(p) ==
  /\ pc[p] = "recover_end"
  /\ UpdateSession(loc[p].sid, loc[p].ses)
  /\ CallDisconnect(p, loc[p].sid, "recovered_closed")
  /\ UNCHANGED <<token, ledger, lock, now, faults, gatewayVars, backlog>>

RecoverDone(p) ==
  /\ pc[p] = "recover" /\ backlog[p] = {}
  /\ Finish(p)
  /\ UNCHANGED <<storeVars, faults, gatewayVars, backlog>>

RecoveryStep(p) == RecoverRead(p) \/ RecoverEnd(p) \/ RecoverDone(p)
==============================================================================
