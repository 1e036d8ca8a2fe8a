-------------------------------- MODULE Purchase --------------------------------
(***************************************************************************)
(* purchase of http/handlers/portal_handler.go: it records a payment,      *)
(* generates one token and redeems it for the customer's device, three     *)
(* service calls with nothing around them.  It composes Payments and       *)
(* TokenGeneration with the webhooks and batches that run beside it.       *)
(***************************************************************************)
EXTENDS Payments, TokenGeneration

VARIABLE
  connected   \* references of the purchases whose device was let in

vars == <<callVars, paymentVars, generationVars, connected>>

Init == CallInit /\ PaymentInit /\ GenerationInit /\ connected = {}

\* The plan is read and a fresh reference drawn; the payment is recorded as paid
BeginPurchase(c) ==
  /\ CodeRoom
  /\ \E r \in PortalRefs :
       /\ payment[r] = "absent" /\ \A d \in Clients : call[d].ref # r
       /\ Begin(c, "pay_look", [NoCall EXCEPT !.op = "purchase", !.ref = r,
                                              !.status = "paid", !.count = 1])
  /\ UNCHANGED <<paymentVars, generationVars, connected>>

\* RedeemToken of a code nobody else knows: it is unused, and the transaction
\* commits or fails as a whole
RedeemOwn(c) ==
  /\ Live(c, "redeem")
  /\ connected' = connected \cup {call[c].ref}
  /\ Return(c)
  /\ UNCHANGED <<faults, paymentVars, generationVars>>

RedeemOwnFails(c) ==
  /\ at[c] = "redeem"
  /\ Fails(c)
  /\ Return(c)
  /\ UNCHANGED <<paymentVars, generationVars, connected>>

\* The client closes its connection
HangUp(c) ==
  /\ at[c] # "idle" /\ c \notin gone
  /\ StoreFault
  /\ gone' = gone \cup {c}
  /\ UNCHANGED <<at, call, paymentVars, generationVars, connected>>

PurchaseStep(c) ==
  \/ PaymentStep(c) /\ UNCHANGED <<generationVars, connected>>
  \/ GenerationStep(c) /\ UNCHANGED <<paymentVars, connected>>
  \/ RedeemOwn(c)
  \/ RedeemOwnFails(c)

Next ==
  \E c \in Clients :
    \/ PaymentBegin(c) /\ UNCHANGED <<generationVars, connected>>
    \/ BeginGenerate(c) /\ UNCHANGED <<paymentVars, connected>>
    \/ BeginPurchase(c)
    \/ PurchaseStep(c)
    \/ HangUp(c)

Spec == Init /\ [][Next]_vars

\* Every store call returns: Postgres answers, or the call ends in an error, and
\* the waiters of a unique key are served in turn
FairSpec == Spec /\ \A c \in Clients : SF_vars(PurchaseStep(c))

------------------------------------------------------------------------------
\* "Idempotency by unique transaction_ref": however calls for one reference
\* overlap, fail or are repeated, every client that got an answer was told the
\* one status that is stored
AnswersAgree == \A r \in Refs : answered[r] \subseteq {payment[r]}

\* At most one of them was told that its payment is new
OneCreation == \A r \in Refs : created[r] <= 1

\* A code is given to one caller at most, and its row is stored before it is
\* given: batches and purchases that run together never share a token
CodesHandedOnce == \A k \in Codes : handed[k] <= 1 /\ (handed[k] = 1 => k \in stored)

\* Every device a purchase let in is in the sales report, whatever fails
ConnectedIsPaid == Cardinality(connected) <= SalesSummary

\* Store calls of CreatePaymentIfAbsent, and of the loop of GenerateTokens
PayLabels == {"pay_look", "pay_insert", "pay_commit"}
GenLabels == {"gen_plan", "gen_insert"}

Request == [op: {"none", "webhook", "record", "generate", "purchase"},
            ref: Refs \cup {None}, status: PaymentStatus \cup {"absent"},
            count: Nat, codes: SUBSET Codes]

TypeOK ==
  /\ at \in [Clients -> {"idle", "redeem"} \cup PayLabels \cup GenLabels]
  /\ call \in [Clients -> Request]
  /\ gone \subseteq Clients
  /\ faults \in Nat
  /\ payment \in [Refs -> PaymentStatus \cup {"absent"}]
  /\ inserting \in [Refs -> Clients \cup {None}]
  /\ answered \in [Refs -> SUBSET PaymentStatus]
  /\ created \in [Refs -> Nat]
  /\ stored \subseteq Codes
  /\ handed \in [Codes -> Nat]
  /\ connected \subseteq Refs

\* What a call in flight holds: a payment to record, and, once a purchase is past
\* its payment, a reference that is stored as paid
CallsKnow ==
  \A c \in Clients :
    /\ at[c] \in PayLabels => /\ call[c].ref \in Refs
                             /\ call[c].status \in PaymentStatus
    /\ at[c] # "idle" /\ call[c].ref \in PortalRefs
         => call[c].op = "purchase" /\ call[c].status = "paid"
    /\ call[c].op = "purchase" => call[c].ref \in PortalRefs
    /\ at[c] = "redeem" => call[c].op = "purchase"
    /\ at[c] \in GenLabels \cup {"redeem"} /\ call[c].op = "purchase"
         => payment[call[c].ref] = "paid"

\* Exactly the call about to commit holds the key of its reference, and no row of
\* that reference is committed
KeyHeld ==
  \A c \in Clients :
    /\ \A r \in Refs : inserting[r] = c => at[c] = "pay_commit" /\ call[c].ref = r
    /\ at[c] = "pay_commit" => /\ inserting[call[c].ref] = c
                              /\ payment[call[c].ref] = "absent"

\* No client was answered about a row that is not stored
AnswersStored ==
  \A r \in Refs : answered[r] # {} \/ created[r] # 0 => payment[r] # "absent"

\* A code is stored before a call holds it, held by one call, and not handed out
\* while its batch is incomplete
CodesHeld ==
  \A c \in Clients :
    /\ call[c].codes \subseteq stored
    /\ \A d \in Clients \ {c} : call[c].codes \cap call[d].codes = {}
    /\ at[c] = "gen_insert" => \A k \in call[c].codes : handed[k] = 0
    /\ at[c] \notin {"gen_insert", "redeem"} => call[c].codes = {}

\* References drawn by purchases are stored as paid or not at all, and those of the
\* devices let in are stored
Paid == {r \in Refs : payment[r] = "paid"}

PurchasesPaid ==
  /\ \A r \in PortalRefs : payment[r] \in {"absent", "paid"}
  /\ connected \subseteq Paid
  /\ IsFiniteSet(Paid)

\* The inductive invariant behind the guarantees of the sales side
SalesInv ==
  /\ TypeOK /\ CallsKnow /\ KeyHeld
  /\ AnswersStored /\ AnswersAgree /\ OneCreation
  /\ CodesHeld /\ CodesHandedOnce
  /\ PurchasesPaid

\* A failed payment leaves no key behind: callers that wait for it go on, and
\* every call whose client stays on the line returns
CallsReturn == \A c \in Clients : at[c] # "idle" ~> at[c] = "idle" \/ c \in gone

\* token_service.go:91, "Retry on hash collision.": only a collision is retried,
\* so a batch whose client hung up, and whose every store call fails, returns
CancelledReturns ==
  \A c \in Clients : at[c] = "gen_insert" /\ c \in gone ~> at[c] = "idle"
==============================================================================
