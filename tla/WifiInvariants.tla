---------------------------- MODULE WifiInvariants ----------------------------
(***************************************************************************)
(* The inductive invariants behind the guarantees of WifiMan, in named     *)
(* parts: the token rows, the exclusive sessions, what the copies of       *)
(* session rows say that handlers carry and write back, who will end the   *)
(* session of a token that is over, who will clear disconnect_pending, the *)
(* one expiry of a token, what a recovery under way may still leave        *)
(* behind, and who will disconnect an ended session the gateway forwards.  *)
(* TLC checks them in runs; WifiManProofs, SessionProofs and CopyProofs    *)
(* prove them.                                                             *)
(***************************************************************************)
EXTENDS WifiMan

\* Labels at which the frame's mac, tid and sid are meaningful
RedeemLabels  == {"redeem", "locked", "found"}
TokenLabels   == RedeemLabels \cup
                 {"revoke_write", "revoke_find", "revoke_end", "sweep_find", "sweep_end",
                  "usage_write", "usage_record", "quota_check", "quota_end",
                  "quota_consume", "start_create"}
SessionLabels == {"revoke_end", "sweep_end", "dc_read", "dc_mark", "dc_call", "dc_clear",
                  "usage_read", "usage_write", "usage_record", "quota_check", "quota_end",
                  "quota_consume", "stop_read", "stop_write", "start_save", "acct_touch",
                  "recover_end"}

\* Handlers that were told the id of a token row that exists
KnownLabels == TokenLabels \ {"redeem"}

\* Handlers about to write a token row outside a transaction, and handlers
\* inside the redeem transaction
WriteLabels == {"revoke_write", "quota_end", "quota_consume"}
TxLabels    == {"locked", "found"}

\* Handlers carrying the copy of a session row that ApplyUsage charged
UsageLabels == {"usage_write", "usage_record", "quota_check"}

\* A session row, stored or read, belongs to a token row that exists
Owned(row) ==
  row.status # "absent" => row.tok \in Tokens /\ token[row.tok].status # "absent"

\* What a handler about to make call l knows: the ids it was given, rows that
\* exist, and, outside a transaction, only terminal rows left to write
FrameOK(l, f) ==
  /\ l \in RedeemLabels  => f.mac \in Macs
  /\ l \in TokenLabels   => f.tid \in Tokens
  /\ l \in SessionLabels => f.sid \in Sessions
  /\ l \in KnownLabels   => token[f.tid].status # "absent"
  /\ l \in WriteLabels   => f.tok.status \in TerminalStatus
  /\ l \in UsageLabels   => f.ses.status # "absent"
  /\ Owned(f.ses)
  /\ \A d \in f.todo : token[d[1]].status # "absent"

FramesOK == \A p \in Procs : FrameOK(pc[p], loc[p])

RowsOwned == \A s \in Sessions : Owned(session[s])

\* The rows a recovery listed were active, and so belong to token rows that exist
BacklogOwned ==
  \A p \in Procs : \A d \in backlog[p] : d[2].status = "active" /\ Owned(d[2])

\* A handler inside the redeem transaction holds its token's lock, and what it
\* read of the row is still what is committed
LockHeld ==
  /\ \A t \in Tokens, p \in Procs :
       lock[t] = p => pc[p] \in TxLabels /\ loc[p].tid = t
  /\ \A p \in Procs :
       pc[p] \in TxLabels => /\ lock[loc[p].tid] = p
                             /\ loc[p].tok = token[loc[p].tid]
  /\ \A p \in Procs :
       pc[p] = "found" => /\ loc[p].tok.status = "active"
                          /\ loc[p].tok.mac = loc[p].mac
                          /\ loc[p].at < loc[p].tok.expires

\* Grants of a token follow its status: none before activation; as long as it is
\* active it has an expiry and at least one grant, all to the bound device
GrantsBound ==
  \A t \in Tokens :
    /\ token[t].status \in {"absent", "unused"} => granted[t] = {}
    /\ token[t].status = "active" => /\ token[t].expires # 0
                                     /\ granted[t] # {}
                                     /\ \A g \in granted[t] : g[1] = token[t].mac

\* The inductive invariant of the token service
TokenInv ==
  /\ TypeOK
  /\ FramesOK
  /\ RowsOwned
  /\ BacklogOwned
  /\ LockHeld
  /\ GrantsBound
  /\ OneDevicePerToken

------------------------------------------------------------------------------
\* Accounting reports that write back session rows they read, or open sessions
\* without looking at the token
StaleWriters == {"start", "interim"} \cup PacketOps
StaleLabels  == UsageLabels \cup {"usage_read", "quota_end", "quota_consume",
                                  "start_save", "start_create", "acct_touch"}

\* Handlers that carry the ended copy of a session row
EndingLabels == {"revoke_end", "sweep_end", "recover_end", "dc_mark", "dc_call",
                 "dc_clear", "stop_write"}

\* The redeem transaction that looked for an active session knows the only one;
\* under the memory store's mutex it is still active
FoundOnly(p) ==
  /\ ActiveSessions(loc[p].tid) \subseteq {loc[p].sid}
  /\ loc[p].sid # None =>
       /\ loc[p].ses.tok = loc[p].tid
       /\ Backend = "memory" => session[loc[p].sid].status = "active"

\* No handler in flight can reopen a session or open a second one
FramesEnd ==
  \A p \in Procs :
    /\ pc[p] \notin StaleLabels
    /\ pc[p] \in EndingLabels => loc[p].ses.status = "ended"
    /\ pc[p] \in {"redeem", "locked"} => loc[p].sid = None

FoundAllOnly == \A p \in Procs : pc[p] = "found" => FoundOnly(p)

\* A token that was not activated has no session yet
UnbegunUnserved ==
  \A t \in Tokens : token[t].status \in {"absent", "unused"} => ActiveSessions(t) = {}

\* The inductive invariant behind the exclusive sessions of a token
SessionInv == FramesEnd /\ FoundAllOnly /\ UnbegunUnserved /\ OneActiveSession

------------------------------------------------------------------------------
\* Handlers that carry the copy of a session row they will write, or judge by
QuotaLabels == UsageLabels \cup {"quota_end", "quota_consume"}
CopyLabels  == EndingLabels \cup QuotaLabels \cup {"start_save", "acct_touch"}

\* Handlers inside DisconnectSession, and those an asynq slot can be at
CallLabels   == {"dc_read", "dc_mark", "dc_call", "dc_clear"}
WorkerLabels == {"idle", "sweep", "sweep_find", "sweep_end"} \cup CallLabels

\* Tokens that were activated once
Begun(t) == token[t].status \notin {"absent", "unused"}

\* The token is over, or the handler that found its quota used up is about to
\* write so
Over(t) ==
  \/ Terminal(t)
  \/ \E p \in Procs : pc[p] \in {"quota_end", "quota_consume"} /\ loc[p].tid = t

\* The token is over, or it is active and its time is
Late(t) == Terminal(t) \/ (token[t].status = "active" /\ Overdue(token[t], now))

\* What the reason a session of t ended with says of t: nothing after a fault, which
\* may have stopped the quota check half way, and nothing of tokens that
\* /v1/accounting/start opened a session on before they were activated
Just(why, t) ==
  /\ why = "data_limit_reached" /\ faults = 0 => Over(t)
  /\ why = "recovered_closed" /\ "start" \notin Ops => Late(t)

\* One request at a time and the asynq slots, and all usage reported by RADIUS
OneReporter == "interim" \notin Ops /\ \A p, q \in Procs \ Workers : p = q

\* Handlers that added their report to a copy and have not recorded it yet, and the
\* bytes they owe the usage records of session s, one element each
OwingLabels == {"usage_write", "usage_record"}
Owed(s) ==
  UNION {{p} \X (1 .. loc[p].add) : p \in {q \in Procs : pc[q] \in OwingLabels /\ loc[q].sid = s}}

\* What the usage records of s will come to, as far as handlers in flight know
Due(s) == ledger[s] + Cardinality(Owed(s))

OwedFinite == \A s \in Sessions : IsFiniteSet(Owed(s))

\* A row that session s may have: what it says of its token and its bytes is true,
\* the latter up to a fault, which may have lost a record
Fit(s, row) ==
  /\ row.status # "absent"
  /\ Just(row.reason, row.tok)
  /\ OneReporter => row.bytes <= reported[s]
  /\ faults = 0 => row.bytes <= Due(s)

\* A row of session s, read earlier and perhaps changed since
Copy(s, row) == session[s].status # "absent" /\ row.tok = session[s].tok /\ Fit(s, row)

\* What a handler or a queued task that will end s for a reason knows
Told(why, s) ==
  why \in {"data_limit_reached", "recovered_closed"} =>
    session[s].status # "absent" /\ Just(why, session[s].tok)

\* What p, about to make call l, knows of the session rows in its frame
FrameFit(p, l, f) ==
  /\ l \in CopyLabels => Copy(f.sid, f.ses)
  /\ l \in {"redeem", "locked"} => f.sid = None
  /\ l = "found" /\ f.sid # None => Copy(f.sid, f.ses)
  /\ l \in CallLabels => Told(f.reason, f.sid)
  /\ l \notin CallLabels => f.reason = "none"
  /\ l \in QuotaLabels => f.ses.tok = f.tid
  /\ f.at <= now
  /\ l = "start_create" => "start" \in Ops
  /\ l = "recover_end" => f.ses.reason = "recovered_closed"
  /\ l = "usage_read" =>
       /\ session[f.sid].status # "absent"
       /\ OneReporter /\ session[f.sid].status = "active" =>
            session[f.sid].bytes + f.add <= reported[f.sid]
  /\ OneReporter /\ p \in Workers =>
       /\ l \in WorkerLabels /\ f.op # "recover"
       /\ l \in CopyLabels => f.ses.status = "ended"

FramesFit == \A p \in Procs : FrameFit(p, pc[p], loc[p])

RowsFit == \A s \in Sessions : session[s] = AbsentSession \/ Copy(s, session[s])

BacklogFit == \A p \in Procs : \A d \in backlog[p] : Copy(d[1], d[2])

QueueFit == \A s \in Sessions, why \in EndReason : queue[<<s, why>>] > 0 => Told(why, s)

\* Redeems and resumes open sessions only on tokens that were activated
SessionsBegun ==
  "start" \notin Ops =>
    \A s \in Sessions : session[s].status # "absent" => Begun(session[s].tok)

\* The inductive invariant behind the reasons sessions end with and the bytes
\* they are charged
CopyInv == FramesFit /\ RowsFit /\ BacklogFit /\ QueueFit /\ SessionsBegun /\ OwedFinite
------------------------------------------------------------------------------
\* Handler p is about to look for the active session of t, or to end session s
Pursues(p, t, s) ==
  \/ pc[p] \in {"revoke_find", "sweep_find"} /\ loc[p].tid = t
  \/ pc[p] \in {"revoke_end", "sweep_end"} /\ loc[p].sid = s

\* As long as no call failed, a session that its token outlived is pursued
OverPursued ==
  faults = 0 =>
    \A t \in Tokens : Terminal(t) =>
      \A s \in ActiveSessions(t) : \E p \in Procs : Pursues(p, t, s)

------------------------------------------------------------------------------
\* Handlers inside DisconnectSession, or about to enter it for a used up quota
TendLabels == CallLabels \cup {"quota_consume"}

\* Handlers that will write a session row without disconnect_pending, and those
\* that take the flag or a stale row from their request
ClearLabels == {"redeem", "locked", "found", "usage_write", "stop_write", "dc_clear"}
FlagLabels  == {"start_save", "start_create", "acct_touch"}

\* A handler or a queued task will try to have s disconnected
Tended(s) ==
  \/ \E p \in Procs : pc[p] \in TendLabels /\ loc[p].sid = s
  \/ \E why \in EndReason : queue[<<s, why>>] > 0

\* Only an ended row is pending
EndedIfPending(row) == row.pending => row.status = "ended"

PendingFrame(l, f) ==
  /\ EndedIfPending(f.ses)
  /\ l \in ClearLabels => ~f.ses.pending
  /\ l \notin FlagLabels

\* The inductive invariant behind disconnect_pending
PendingInv ==
  /\ \A p \in Procs : PendingFrame(pc[p], loc[p])
  /\ \A s \in Sessions : EndedIfPending(session[s])
  /\ faults = 0 => \A s \in Sessions : session[s].pending => Tended(s)
------------------------------------------------------------------------------
\* The expiries that handler p, about to make call l, may write to the row of token t
Held(l, f, t) ==
  {until \in {f.tok.expires} : l \in WriteLabels /\ f.tid = t} \cup
  {d[2].expires : d \in {e \in f.todo : e[1] = t}}

\* Every expiry the row of t has or may be given back by the owner of a copy
Expiries(t) == {token[t].expires} \cup UNION {Held(pc[p], loc[p], t) : p \in Procs}

\* A token is given one expiry, when it is activated.  Copies older than that have
\* none, and once the token is over a stale one may take its expiry away.
OneExpiry ==
  \A t \in Tokens :
    /\ ~Begun(t) => token[t].expires = 0
    /\ ~Terminal(t) => Expiries(t) \subseteq {0, token[t].expires}

\* Whatever copy is written back, t expires at an instant or later, if ever
Outlives(t, at) == \A until \in Expiries(t) : until = 0 \/ at <= until

\* Handlers in the loop of a recovery
RecoverLabels == {"recover", "recover_end"}

\* The inductive invariant behind the expiry of a token
ExpiryInv == OneExpiry /\ \A p \in Procs : pc[p] \in RecoverLabels => loc[p].op = "recover"

\* The recovery p has session s on the rest of its list, or is about to end it
Awaits(p, s) ==
  \/ \E d \in backlog[p] : d[1] = s
  \/ pc[p] = "recover_end" /\ loc[p].sid = s

\* A recovery under way: the session it disconnects is ended, no redeem transaction
\* under way read the clock before it did, and an active session it no longer awaits
\* has a token that expires, if ever, not before that instant
Recovering(p) ==
  /\ pc[p] \in RecoverLabels \cup CallLabels
  /\ pc[p] \in CallLabels => session[loc[p].sid].status = "ended"
  /\ \A q \in Procs : pc[q] \in TxLabels => loc[p].at <= loc[q].at
  /\ \A s \in Sessions :
       session[s].status = "active" => Awaits(p, s) \/ Outlives(session[s].tok, loc[p].at)

\* The inductive invariant behind what a recovery leaves, over the memory store
RecoverInv == ExpiryInv /\ \A p \in Procs : loc[p].op = "recover" => Recovering(p)
------------------------------------------------------------------------------
\* The time of t is up, in its row and in every copy of it
Spent(t) == Begun(t) /\ \A until \in Expiries(t) : until <= now

\* Whoever ends s for that reason may forget it
Forgiven(s, why) == why \in {"expired", "recovered_closed"} /\ Spent(session[s].tok)

\* s ended, or is being ended, for a reason its token cannot recover from: no redeem
\* transaction that begins now will find s.  Only an administrator's disconnect ends
\* sessions of tokens that are still good.
Doomed(s, why) ==
  "disconnect" \notin Ops =>
    /\ session[s].status # "absent"
    /\ Terminal(session[s].tok) \/ Forgiven(s, why)

\* A handler about to make call l will ask the controller to disconnect s
Hunts(l, f, s) ==
  f.sid = s /\ (l \in {"dc_mark", "dc_call"} \/ (l = "dc_read" /\ f.flag))

\* Some handler will, or a retry task that will is queued
Hunted(s) ==
  \/ \E p \in Procs : Hunts(pc[p], loc[p], s)
  \/ \E why \in EndReason : queue[<<s, why>>] > 0

\* What a handler about to make call l knows of the session it ends or lets in
ChaseFrame(l, f) ==
  /\ l \notin {"stop_read", "stop_write"}
  /\ l \in {"revoke_find", "sweep_find"} => Terminal(f.tid)
  /\ l \in {"revoke_end", "sweep_end"} => Terminal(f.ses.tok)
  /\ l = "found" /\ f.sid # None => f.ses.status = "active"
  /\ l \in {"dc_call", "dc_clear"} /\ Backend = "memory" => session[f.sid].status = "ended"
  /\ l \in CallLabels => Doomed(f.sid, f.reason)
  /\ l \in EndingLabels => Doomed(f.sid, f.ses.reason)

\* The gateway forwards only sessions that exist.  One that ended, or whose row is
\* about to be written back ended, is hunted or may be forgotten.
OnlineChased ==
  /\ \A s \in online :
       /\ session[s].status # "absent"
       /\ session[s].status = "ended" => Hunted(s) \/ Forgiven(s, session[s].reason)
  /\ \A p \in Procs :
       pc[p] = "dc_clear" /\ loc[p].sid \in online =>
         Hunted(loc[p].sid) \/ Forgiven(loc[p].sid, loc[p].ses.reason)

\* The inductive invariant behind the sessions the gateway still forwards, as long
\* as no call fails
ChaseInv ==
  faults = 0 =>
    /\ \A p \in Procs : ChaseFrame(pc[p], loc[p])
    /\ \A s \in Sessions : session[s].status = "ended" => Doomed(s, session[s].reason)
    /\ \A s \in Sessions, why \in EndReason : queue[<<s, why>>] > 0 => Doomed(s, why)
    /\ OnlineChased
==============================================================================
