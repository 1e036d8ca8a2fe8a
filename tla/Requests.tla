------------------------------- MODULE Requests -------------------------------
(***************************************************************************)
(* Handlers in flight.  A handler is a goroutine (an HTTP request, a       *)
(* RADIUS packet) or an asynq worker slot running a task.  Between two     *)
(* calls that leave the process (store, gateway) it owns only its local    *)
(* variables: a label says which call comes next, a frame holds what it    *)
(* read before.                                                            *)
(***************************************************************************)
EXTENDS WifiStore

CONSTANTS
  Procs,      \* handlers that may be in flight together
  Workers,    \* the asynq worker slots among them; {} when ASYNQ_ENABLED is off
  Ops,        \* the entry points that are called
  MaxFaults   \* bound: handlers that die, and store or queue calls that fail

AllOps == {"redeem", "resume", "auth", "revoke", "sweep", "disconnect", "retry",
           "start", "interim", "stop", "acct_start", "acct_interim", "acct_stop",
           "recover"}

ASSUME ProcAssumption == Workers \subseteq Procs /\ None \notin Procs
ASSUME OpsAssumption  == Ops \subseteq AllOps
ASSUME FaultAssumption == MaxFaults \in Nat

Labels == {"idle", "redeem", "locked", "found", "revoke_write", "revoke_find",
           "revoke_end", "sweep", "sweep_find", "sweep_end", "dc_read", "dc_mark",
           "dc_call", "dc_clear", "usage_read", "usage_write", "usage_record",
           "quota_check", "quota_end", "quota_consume", "stop_read", "stop_write",
           "start_save", "start_create", "acct_touch", "recover", "recover_end"}

Frame == [op: AllOps \cup {"none"}, tid: Tokens \cup {None}, sid: Sessions \cup {None},
          mac: Macs \cup {None}, rid: RadiusIds \cup {None}, at: Nat, strict: BOOLEAN,
          flag: BOOLEAN, reason: EndReason, add: Nat, tok: TokenRow, ses: SessionRow,
          todo: SUBSET (Tokens \X TokenRow)]

NoFrame == [op |-> "none", tid |-> None, sid |-> None, mac |-> None, rid |-> None,
            at |-> 0, strict |-> FALSE, flag |-> FALSE, reason |-> "none", add |-> 0,
            tok |-> AbsentToken, ses |-> AbsentSession, todo |-> {}]

VARIABLES
  pc,      \* the next call of each handler; "idle" when it serves nothing
  loc,     \* its local variables
  faults   \* faults so far

requestVars == <<pc, loc, faults>>

RequestInit ==
  /\ pc     = [p \in Procs |-> "idle"]
  /\ loc    = [p \in Procs |-> NoFrame]
  /\ faults = 0

Goto(p, label, frame) ==
  /\ pc'  = [pc EXCEPT ![p] = label]
  /\ loc' = [loc EXCEPT ![p] = frame]

Finish(p) == Goto(p, "idle", NoFrame)

\* A new request of kind op reaches a server goroutine
Arrives(p, op) == pc[p] = "idle" /\ op \in Ops /\ p \notin Workers

\* A task of kind op reaches an asynq slot
Dequeues(p, op) == pc[p] = "idle" /\ op \in Ops /\ p \in Workers

Fault == faults < MaxFaults /\ faults' = faults + 1

\* A store call that fails: the memory store's never do
StoreFails == Backend = "postgres" /\ Fault

\* A store call waits while another handler is inside WithTx of the memory store,
\* which holds the one mutex until it returns
MutexFree(p) == Backend = "memory" => \A t \in Tokens : lock[t] \in {None, p}

Quiet == \A p \in Procs : pc[p] = "idle"

\* Bound: a request that may insert a session starts only while the finite set
\* Sessions has an id left for it and for those already in flight
Room ==
  Cardinality({p \in Procs : loc[p].op \in {"redeem", "resume", "auth", "start"}})
    < Cardinality({s \in Sessions : session[s].status = "absent"})

\* Give up the row locks of a transaction (commit or rollback)
Unlock(p) == lock' = [t \in Tokens |-> IF lock[t] = p THEN None ELSE lock[t]]
==============================================================================
