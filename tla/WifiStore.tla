------------------------------ MODULE WifiStore ------------------------------
(***************************************************************************)
(* The tables the token, accounting and gateway services share, and the    *)
(* store calls they make, for both backends main.go chooses from: Postgres *)
(* (repository/postgres.go) and the in-memory store (memory.go).  A call   *)
(* outside WithTx is one atomic step; an update overwrites the whole row   *)
(* with the caller's copy, which may be stale.  Rows keep only the columns *)
(* some property can tell apart.                                           *)
(***************************************************************************)
EXTENDS Naturals, FiniteSets

CONSTANTS
  Backend,     \* STORE_BACKEND: "postgres" or "memory"
  Tokens,      \* token ids, each standing for its code as well
  Sessions,    \* session ids the store may hand out (uuids)
  Macs,        \* normalised device MACs
  RadiusIds,   \* pairs (radius_session_id, nas_ip), both non-empty
  None,        \* NULL, or an empty string
  Duration,    \* plan.duration_minutes of each token's plan, in ticks
  DataLimit    \* plan.data_limit_mb of each token's plan; 0 is no limit

ASSUME BackendAssumption == Backend \in {"postgres", "memory"}
ASSUME PlanAssumption == /\ Duration \in [Tokens -> Nat \ {0}]
                         /\ DataLimit \in [Tokens -> Nat]
ASSUME NullAssumption == None \notin Tokens \cup Sessions \cup Macs \cup RadiusIds

TerminalStatus == {"expired", "consumed", "revoked"}

\* "absent" stands for a row that was not inserted yet
TokenStatus   == {"absent", "unused", "active"} \cup TerminalStatus
SessionStatus == {"absent", "active", "ended"}
EndReason     == {"none", "revoked", "expired", "data_limit_reached",
                  "disconnect", "stop", "recovered_closed"}

\* expires = 0 is expires_at NULL: a token that was never activated
TokenRow   == [status: TokenStatus, mac: Macs \cup {None}, expires: Nat]
SessionRow == [status: SessionStatus, tok: Tokens \cup {None}, mac: Macs \cup {None},
               rid: RadiusIds \cup {None}, started: Nat, bytes: Nat,
               reason: EndReason, pending: BOOLEAN]

AbsentToken   == [status |-> "absent", mac |-> None, expires |-> 0]
UnusedToken   == [status |-> "unused", mac |-> None, expires |-> 0]
AbsentSession == [status |-> "absent", tok |-> None, mac |-> None, rid |-> None,
                  started |-> 0, bytes |-> 0, reason |-> "none", pending |-> FALSE]

VARIABLES
  token,     \* token row by id
  session,   \* session row by id
  ledger,    \* bytes summed over the usage_records of each session
  lock,      \* holder of the FOR UPDATE lock of each token row, or None; with the
             \* memory store, the holder of its mutex, at the token it redeems
  now        \* the clock every service reads through s.now()

storeVars == <<token, session, ledger, lock, now>>

StoreInit ==
  /\ token   = [t \in Tokens |-> AbsentToken]
  /\ session = [s \in Sessions |-> AbsentSession]
  /\ ledger  = [s \in Sessions |-> 0]
  /\ lock    = [t \in Tokens |-> None]
  /\ now     = 0

Terminal(t) == token[t].status \in TerminalStatus

\* The expiry test made on a token row: ExpiresAt set and not after the instant
Overdue(row, at) == row.expires # 0 /\ row.expires <= at

ActiveSessions(t) ==
  {s \in Sessions : session[s].status = "active" /\ session[s].tok = t}

\* SELECT ... ORDER BY started_at DESC LIMIT 1: a latest row of a set of sessions
Latest(S) == {s \in S : \A r \in S : session[r].started <= session[s].started}

\* The memory store returns the first match of a map iteration: any of them
Picked(S) == IF Backend = "memory" THEN S ELSE Latest(S)

GetActiveSessionByToken(t) == Picked(ActiveSessions(t))

GetSessionByRadius(r) ==
  Picked({s \in Sessions : session[s].status # "absent" /\ session[s].rid = r})

\* Mutant: the status is not set
ClosedUnset(row, status) == row

\* A token row on its way to a terminal status
Closed(row, status) == [row EXCEPT !.status = status]

\* An autocommitted UPDATE of a token row waits for its row lock
UpdateToken(t, row) ==
  /\ lock[t] = None
  /\ token' = [token EXCEPT ![t] = row]

UpdateSession(s, row) == session' = [session EXCEPT ![s] = row]

\* INSERT under a fresh uuid; the foreign key makes it wait for a FOR UPDATE
\* lock another transaction holds on the token row
CreateSession(holder, s, row) ==
  /\ lock[row.tok] \in {None, holder}
  /\ session[s].status = "absent"
  /\ session' = [session EXCEPT ![s] = row]

NewSession(t, m, r, at, flag) ==
  [AbsentSession EXCEPT !.status = "active", !.tok = t, !.mac = m, !.rid = r,
                        !.started = at, !.pending = flag]

EndedSession(row, why, flag) ==
  [row EXCEPT !.status = "ended", !.reason = why, !.pending = flag]

\* Mutant: the record replaces the ones before it
CreateUsageRecordOver(s, t, n) ==
  /\ lock[t] = None
  /\ ledger' = [ledger EXCEPT ![s] = n]

CreateUsageRecord(s, t, n) ==
  /\ lock[t] = None
  /\ ledger' = [ledger EXCEPT ![s] = @ + n]

\* A row attached to the network data of a request: the radius id it carries
\* replaces the row's unless it is empty
Attached(row, r) == [row EXCEPT !.rid = IF r = None THEN row.rid ELSE r]

\* disconnect_pending set or cleared
Pending(row, flag) == [row EXCEPT !.pending = flag]
==============================================================================
