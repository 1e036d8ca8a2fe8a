--------------------------------- MODULE Calls ---------------------------------
(***************************************************************************)
(* HTTP calls in flight that sell access: a payment provider's webhook, a  *)
(* cashier's record, an administrator's token batch, a customer's          *)
(* purchase.  A label names the store call the handler makes next.         *)
(***************************************************************************)
EXTENDS Naturals, FiniteSets

CONSTANTS
  Clients,       \* calls that may be in flight together
  ProviderRefs,  \* transaction references chosen by providers and cashiers
  PortalRefs,    \* references "portal-<uuid>" a purchase draws, each fresh
  Codes,         \* token codes GenerateTokenCode may draw
  None,
  MaxCount,      \* bound: tokens asked for in one call (the code allows 1000)
  MaxFaults      \* bound: store failures and clients that hang up

Refs == ProviderRefs \cup PortalRefs

ASSUME RefAssumption == ProviderRefs \cap PortalRefs = {}
ASSUME CallAssumption == None \notin Clients \cup Refs
ASSUME BoundAssumption == MaxCount \in Nat \ {0} /\ MaxFaults \in Nat

NoCall == [op |-> "none", ref |-> None, status |-> "absent", count |-> 0, codes |-> {}]

VARIABLES
  at,      \* by client, the next store call; "idle" when it has no call
  call,    \* by client, its request and local variables
  gone,    \* clients that hung up: the context of their request is cancelled
  faults   \* faults so far

callVars == <<at, call, gone, faults>>

CallInit ==
  /\ at = [c \in Clients |-> "idle"]
  /\ call = [c \in Clients |-> NoCall]
  /\ gone = {}
  /\ faults = 0

Proceed(c, label, request) ==
  /\ at' = [at EXCEPT ![c] = label]
  /\ call' = [call EXCEPT ![c] = request]
  /\ UNCHANGED <<gone, faults>>

Return(c) ==
  /\ at' = [at EXCEPT ![c] = "idle"]
  /\ call' = [call EXCEPT ![c] = NoCall]
  /\ gone' = gone \ {c}

Begin(c, label, request) == at[c] = "idle" /\ Proceed(c, label, request)

\* A store call made with a live context
Live(c, label) == at[c] = label /\ c \notin gone

StoreFault == faults < MaxFaults /\ faults' = faults + 1

\* A store call returns an error: always once its context is cancelled
Fails(c) ==
  \/ c \in gone /\ UNCHANGED faults
  \/ c \notin gone /\ StoreFault
==============================================================================
