-------------------------------- MODULE Voucher --------------------------------
(***************************************************************************)
(* What the token service promises about one voucher code, whatever the    *)
(* handlers in flight do: it is issued once, the first device that redeems *)
(* it is the only one it ever serves, and once it is over (expired,        *)
(* consumed or revoked) it serves nobody again.                            *)
(***************************************************************************)
CONSTANTS Tokens, Devices, Sessions

VARIABLES
  phase,     \* by token: "absent", "unused", "active" or "over"
  holders,   \* by token: the devices it was granted to
  served     \* by token: the sessions it was granted with

vars == <<phase, holders, served>>

Init ==
  /\ phase   = [t \in Tokens |-> "absent"]
  /\ holders = [t \in Tokens |-> {}]
  /\ served  = [t \in Tokens |-> {}]

\* The code is sold
Issue(t) ==
  /\ phase[t] = "absent"
  /\ phase' = [phase EXCEPT ![t] = "unused"]
  /\ UNCHANGED <<holders, served>>

\* The first redemption binds the device
Activate(t, d, s) ==
  /\ phase[t] = "unused"
  /\ phase'   = [phase EXCEPT ![t] = "active"]
  /\ holders' = [holders EXCEPT ![t] = {d}]
  /\ served'  = [served EXCEPT ![t] = {s}]

\* The same device returns, with a session that may be an earlier one
Serve(t, s) ==
  /\ phase[t] = "active"
  /\ served' = [served EXCEPT ![t] = @ \cup {s}]
  /\ UNCHANGED <<phase, holders>>

\* Revocation, expiry, quota
Close(t) ==
  /\ phase[t] \in {"unused", "active"}
  /\ phase' = [phase EXCEPT ![t] = "over"]
  /\ UNCHANGED <<holders, served>>

Next == \E t \in Tokens :
  \/ Issue(t) \/ Close(t)
  \/ \E s \in Sessions : Serve(t, s) \/ \E d \in Devices : Activate(t, d, s)

Spec == Init /\ [][Next]_vars
==============================================================================
