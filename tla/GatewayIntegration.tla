-------------------------- MODULE GatewayIntegration --------------------------
(***************************************************************************)
(* service/gateway_service.go: DisconnectSession, step by step, with the   *)
(* controllers of gateway_client.go (CoA first, HTTP as fallback) and the  *)
(* asynq retry task of jobs/.  The gateway itself is external: online is   *)
(* the set of sessions it forwards traffic for.                            *)
(***************************************************************************)
EXTENDS Requests

CONSTANTS
  HasCoA,     \* RADIUS_COA_ADDR and its secret are configured
  HasHTTP,    \* GATEWAY_DISCONNECT_URL or ROUTEROS_API_URL is configured
  MaxTasks    \* bound: copies of one disconnect task the queue distinguishes

ASSUME ControllerAssumption == HasCoA \in BOOLEAN /\ HasHTTP \in BOOLEAN
ASSUME QueueAssumption == MaxTasks \in Nat \ {0}

VARIABLES
  queue,    \* pending gateway:disconnect tasks, by session and reason
  online    \* sessions the network access server lets through (external)

gatewayVars == <<queue, online>>

Payload == Sessions \X EndReason

GatewayInit ==
  /\ queue  = [d \in Payload |-> 0]
  /\ online = {}

\* n more copies of a task.  Copies beyond MaxTasks are duplicates of tasks
\* still queued and are dropped.
Enqueue(s, why, n) ==
  queue' = [queue EXCEPT ![<<s, why>>] = IF @ + n <= MaxTasks THEN @ + n ELSE MaxTasks]

\* The loop of the recovery goes on to the next session of its list
RecoverNext(p) == Goto(p, "recover", [NoFrame EXCEPT !.op = "recover", !.at = loc[p].at])

\* DisconnectSession returned nil: the sweep goes on to its next token, the
\* recovery to its next session, every other caller is done
Returned(p) ==
  CASE loc[p].op = "recover" -> RecoverNext(p)
    [] loc[p].op # "recover" /\ loc[p].todo = {} -> Finish(p)
    [] OTHER -> Goto(p, "sweep", [NoFrame EXCEPT !.op = loc[p].op, !.todo = loc[p].todo])

\* Mutant: the recovery stops at the first error
GaveUpAlways(p) == Finish(p)

\* DisconnectSession returned an error: only the recovery ignores it
GaveUp(p) == IF loc[p].op = "recover" THEN RecoverNext(p) ELSE Finish(p)

\* A handler returns an error.  asynq puts a failed task back in its queue.
Failed(p) ==
  /\ Finish(p)
  /\ IF loc[p].op = "retry" THEN Enqueue(loc[p].sid, loc[p].reason, 1)
                            ELSE UNCHANGED queue

\* The call a service makes: Goto its first store call with in.Force
CallDisconnect(p, s, why) ==
  Goto(p, "dc_read", [NoFrame EXCEPT !.op = loc[p].op, !.sid = s, !.reason = why,
                                     !.flag = TRUE, !.todo = loc[p].todo,
                                     !.at = loc[p].at])

\* POST /v1/gateway/disconnect
BeginDisconnect(p) ==
  /\ Arrives(p, "disconnect")
  /\ \E s \in Sessions, force \in BOOLEAN :
       Goto(p, "dc_read", [NoFrame EXCEPT !.op = "disconnect", !.sid = s,
                                          !.reason = "disconnect", !.flag = force])
  /\ UNCHANGED <<storeVars, faults, gatewayVars>>

\* The gateway:disconnect task: DisconnectSession with Force
BeginRetry(p) ==
  /\ Dequeues(p, "retry")
  /\ \E d \in Payload :
       /\ queue[d] > 0
       /\ queue' = [queue EXCEPT ![d] = @ - 1]
       /\ Goto(p, "dc_read", [NoFrame EXCEPT !.op = "retry", !.sid = d[1],
                                             !.reason = d[2], !.flag = TRUE])
  /\ UNCHANGED <<storeVars, faults, online>>

\* The session row DisconnectSession writes before it calls the controller
Marked(row, why) ==
  IF row.status = "ended" THEN Pending(row, TRUE)
  ELSE EndedSession(row, why, TRUE)

NeedsControllerCall(p, row) == loc[p].flag \/ row.pending \/ row.status # "ended"

DisconnectRead(p) ==
  /\ pc[p] = "dc_read"
  /\ LET row == session[loc[p].sid] IN
       \/ /\ row.status = "absent"
          /\ Failed(p)
       \/ /\ row.status # "absent" /\ ~NeedsControllerCall(p, row)
          /\ Returned(p)
          /\ UNCHANGED queue
       \/ /\ row.status # "absent" /\ NeedsControllerCall(p, row)
          /\ Goto(p, "dc_mark", [loc[p] EXCEPT !.ses = Marked(row, loc[p].reason)])
          /\ UNCHANGED queue
  /\ UNCHANGED <<storeVars, faults, online>>

DisconnectMark(p) ==
  /\ pc[p] = "dc_mark"
  /\ UpdateSession(loc[p].sid, loc[p].ses)
  /\ Goto(p, "dc_call", loc[p])
  /\ UNCHANGED <<token, ledger, lock, now, faults, gatewayVars>>

\* A call over the network: the answer, and whether the gateway cut the session.
\* The request or its answer may be lost.
NoAnswer == [ok |-> FALSE, cut |-> FALSE]
Outcomes == {[ok |-> TRUE, cut |-> TRUE], [ok |-> FALSE, cut |-> TRUE], NoAnswer}

CoADisconnect  == IF HasCoA THEN Outcomes ELSE {NoAnswer}
HTTPDisconnect == IF HasHTTP THEN Outcomes ELSE {NoAnswer}

\* FallbackGatewayController.Disconnect: nothing to call is a success; the
\* fallback is tried only after the primary failed
Disconnects(ok, cut) ==
  IF ~HasCoA /\ ~HasHTTP THEN ok /\ ~cut
  ELSE \E first \in CoADisconnect :
         IF first.ok THEN ok /\ cut
         ELSE \E second \in HTTPDisconnect :
                ok = second.ok /\ cut = (first.cut \/ second.cut)

Cut(s, cut) == online' = IF cut THEN online \ {s} ELSE online

\* Mutant: a failed call is only logged
QueueRetryNever(s, why, putBack) == UNCHANGED <<queue, faults>>

\* A failed call is queued for retry when asynq runs, and the error of that
\* Enqueue is ignored; a retry task that fails is put back by asynq besides
QueueRetry(s, why, putBack) ==
  IF Workers = {} THEN UNCHANGED <<queue, faults>>
  ELSE \/ Enqueue(s, why, putBack + 1) /\ UNCHANGED faults
       \/ Enqueue(s, why, putBack) /\ Fault

\* Mutant: disconnect_pending is not cleared
GatewayAckUncleared(p) ==
  /\ pc[p] = "dc_call"
  /\ \E cut \in BOOLEAN : Disconnects(TRUE, cut) /\ Cut(loc[p].sid, cut)
  /\ Goto(p, "dc_clear", loc[p])
  /\ UNCHANGED <<storeVars, faults, queue>>

GatewayAck(p) ==
  /\ pc[p] = "dc_call"
  /\ \E cut \in BOOLEAN : Disconnects(TRUE, cut) /\ Cut(loc[p].sid, cut)
  /\ Goto(p, "dc_clear", [loc[p] EXCEPT !.ses = Pending(loc[p].ses, FALSE)])
  /\ UNCHANGED <<storeVars, faults, queue>>

GatewayFail(p) ==
  /\ pc[p] = "dc_call"
  /\ \E cut \in BOOLEAN : Disconnects(FALSE, cut) /\ Cut(loc[p].sid, cut)
  /\ QueueRetry(loc[p].sid, loc[p].reason, IF loc[p].op = "retry" THEN 1 ELSE 0)
  /\ GaveUp(p)
  /\ UNCHANGED storeVars

DisconnectClear(p) ==
  /\ pc[p] = "dc_clear"
  /\ UpdateSession(loc[p].sid, loc[p].ses)
  /\ Returned(p)
  /\ UNCHANGED <<token, ledger, lock, now, faults, gatewayVars>>

GatewayBegin(p) == BeginDisconnect(p) \/ BeginRetry(p)

\* The calls to the store, and those to the controller, which need no store
GatewayStoreStep(p) == DisconnectRead(p) \/ DisconnectMark(p) \/ DisconnectClear(p)
ControllerStep(p)   == GatewayAck(p) \/ GatewayFail(p)
==============================================================================
