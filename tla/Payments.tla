-------------------------------- MODULE Payments --------------------------------
(***************************************************************************)
(* service/payment_service.go over CreatePaymentIfAbsent of                *)
(* repository/postgres.go: a transaction that looks a reference up and     *)
(* inserts a row if it finds none.  The unique key on transaction_ref      *)
(* makes an INSERT wait for an uncommitted one of the same reference.      *)
(***************************************************************************)
EXTENDS Calls

PaymentStatus == {"pending", "paid", "failed"}

VARIABLES
  payment,    \* committed status by reference, or "absent"
  inserting,  \* by reference, the client whose INSERT is not committed yet
  answered,   \* by reference, the statuses clients were answered with
  created     \* by reference, how many answers said "not a duplicate"

paymentVars == <<payment, inserting, answered, created>>

PaymentInit ==
  /\ payment = [r \in Refs |-> "absent"]
  /\ inserting = [r \in Refs |-> None]
  /\ answered = [r \in Refs |-> {}]
  /\ created = [r \in Refs |-> 0]

\* The status a webhook reports, in the words of its provider
StatusOf(word) ==
  CASE word \in {"paid", "success"} -> "paid"
    [] word = "failed" -> "failed"
    [] OTHER -> "pending"

BeginWebhook(c) ==
  /\ \E r \in ProviderRefs, word \in {"paid", "success", "failed", "processing"} :
       Begin(c, "pay_look", [NoCall EXCEPT !.op = "webhook", !.ref = r,
                                           !.status = StatusOf(word)])
  /\ UNCHANGED paymentVars

BeginRecord(c) ==
  /\ \E r \in ProviderRefs :
       Begin(c, "pay_look", [NoCall EXCEPT !.op = "record", !.ref = r, !.status = "paid"])
  /\ UNCHANGED paymentVars

\* The service returns a payment; a purchase goes on to its token
Answer(c, status) ==
  /\ answered' = [answered EXCEPT ![call[c].ref] = @ \cup {status}]
  /\ IF call[c].op = "purchase" THEN Proceed(c, "gen_plan", call[c])
     ELSE Return(c) /\ UNCHANGED faults

\* Mutant: the caller's own payment is returned
PayFoundOwn(c) ==
  /\ Live(c, "pay_look")
  /\ payment[call[c].ref] # "absent"
  /\ Answer(c, call[c].status)
  /\ UNCHANGED <<payment, inserting, created>>

PayFound(c) ==
  /\ Live(c, "pay_look")
  /\ payment[call[c].ref] # "absent"
  /\ Answer(c, payment[call[c].ref])
  /\ UNCHANGED <<payment, inserting, created>>

PayMissing(c) ==
  /\ Live(c, "pay_look")
  /\ payment[call[c].ref] = "absent"
  /\ Proceed(c, "pay_insert", call[c])
  /\ UNCHANGED paymentVars

\* Mutant: no unique key on transaction_ref
PayInsertKeyless(c) ==
  /\ Live(c, "pay_insert")
  /\ inserting[call[c].ref] = None
  /\ inserting' = [inserting EXCEPT ![call[c].ref] = c]
  /\ Proceed(c, "pay_commit", call[c])
  /\ UNCHANGED <<payment, answered, created>>

PayInsert(c) ==
  /\ Live(c, "pay_insert")
  /\ inserting[call[c].ref] = None
  /\ payment[call[c].ref] = "absent"
  /\ inserting' = [inserting EXCEPT ![call[c].ref] = c]
  /\ Proceed(c, "pay_commit", call[c])
  /\ UNCHANGED <<payment, answered, created>>

\* A row committed since the look-up: the INSERT fails on the unique key
PayCollides(c) ==
  /\ Live(c, "pay_insert")
  /\ inserting[call[c].ref] = None
  /\ payment[call[c].ref] # "absent"
  /\ Return(c)
  /\ UNCHANGED <<faults, paymentVars>>

Committed(c) ==
  /\ payment' = [payment EXCEPT ![call[c].ref] = call[c].status]
  /\ inserting' = [inserting EXCEPT ![call[c].ref] = None]

PayCommit(c) ==
  /\ Live(c, "pay_commit")
  /\ Committed(c)
  /\ created' = [created EXCEPT ![call[c].ref] = @ + 1]
  /\ Answer(c, call[c].status)

\* The commit is made and its acknowledgement lost: the caller sees an error
PayCommitLost(c) ==
  /\ at[c] = "pay_commit"
  /\ Fails(c)
  /\ Committed(c)
  /\ Return(c)
  /\ UNCHANGED <<answered, created>>

\* Mutant: the transaction is not rolled back
PayFailsOpen(c) ==
  /\ at[c] \in {"pay_look", "pay_insert", "pay_commit"}
  /\ Fails(c)
  /\ Return(c)
  /\ UNCHANGED paymentVars

\* Mutant: a purchase ignores the error
PayFailsIgnored(c) ==
  /\ at[c] \in {"pay_look", "pay_insert", "pay_commit"}
  /\ inserting' = [r \in Refs |-> IF inserting[r] = c THEN None ELSE inserting[r]]
  /\ Fails(c)
  /\ IF call[c].op = "purchase"
     THEN /\ at' = [at EXCEPT ![c] = "gen_plan"]
          /\ UNCHANGED <<call, gone>>
     ELSE Return(c)
  /\ UNCHANGED <<payment, answered, created>>

\* A store call fails; the deferred Rollback releases the key
PayFails(c) ==
  /\ at[c] \in {"pay_look", "pay_insert", "pay_commit"}
  /\ Fails(c)
  /\ inserting' = [r \in Refs |-> IF inserting[r] = c THEN None ELSE inserting[r]]
  /\ Return(c)
  /\ UNCHANGED <<payment, answered, created>>

\* SalesSummary: how many payments count as paid
SalesSummary == Cardinality({r \in Refs : payment[r] = "paid"})

PaymentBegin(c) == BeginWebhook(c) \/ BeginRecord(c)

PaymentStep(c) ==
  \/ PayFound(c) \/ PayMissing(c) \/ PayInsert(c) \/ PayCollides(c)
  \/ PayCommit(c) \/ PayCommitLost(c) \/ PayFails(c)
==============================================================================
