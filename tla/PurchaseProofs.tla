----------------------------- MODULE PurchaseProofs -----------------------------
(***************************************************************************)
(* Proofs about Purchase: however webhooks, records, batches and purchases *)
(* overlap and fail, references stay idempotent, codes are handed to one   *)
(* caller, and a device is let in only for a stored payment.               *)
(***************************************************************************)
EXTENDS Purchase, FiniteSetTheorems, TLAPS

USE RefAssumption, CallAssumption DEF Refs

\* What clients were told about payments
Told == AnswersStored /\ AnswersAgree /\ OneCreation

\* Who holds which codes
Codebook == CodesHeld /\ CodesHandedOnce

\* Client c goes on to label l with the call q
Moves(c, l, q) ==
  /\ at'   = [at EXCEPT ![c] = l]
  /\ call' = [call EXCEPT ![c] = q]

LEMMA InitInv == Init => SalesInv
<1> SUFFICES ASSUME Init PROVE SalesInv
  OBVIOUS
<1> USE DEF Init, CallInit, PaymentInit, GenerationInit, NoCall
<1>1. TypeOK
  BY DEF TypeOK, Request
<1>2. CallsKnow
  BY DEF CallsKnow, PayLabels, GenLabels
<1>3. KeyHeld
  BY DEF KeyHeld
<1>4. Told
  BY DEF Told, AnswersStored, AnswersAgree, OneCreation
<1>5. Codebook
  BY DEF Codebook, CodesHeld, CodesHandedOnce
<1>6. PurchasesPaid
  <2>1. Paid = {}
    BY DEF Paid
  <2>2. QED
    BY <2>1, FS_EmptySet DEF PurchasesPaid
<1>7. QED
  BY <1>1, <1>2, <1>3, <1>4, <1>5, <1>6 DEF SalesInv, Told, Codebook

------------------------------------------------------------------------------
(* What a step leaves alone keeps its part of the invariant *)

LEMMA ToldKept ==
  ASSUME SalesInv, UNCHANGED <<payment, answered, created>>
  PROVE  Told'
BY DEF SalesInv, Told, AnswersStored, AnswersAgree, OneCreation

LEMMA PaidKept ==
  ASSUME SalesInv, UNCHANGED <<payment, connected>>
  PROVE  PurchasesPaid'
<1>1. Paid' = Paid
  BY DEF Paid
<1>2. QED
  BY <1>1 DEF SalesInv, PurchasesPaid

\* A call outside the loop of GenerateTokens goes on outside it, or into it
LEMMA CodesKept ==
  ASSUME SalesInv, NEW c \in Clients, NEW l, NEW q, Moves(c, l, q),
         UNCHANGED <<stored, handed>>,
         \/ q.codes = {}
         \/ q.codes = call[c].codes /\ l \in {at[c], "redeem"} /\ at[c] # "gen_insert"
  PROVE  Codebook'
BY DEF SalesInv, TypeOK, Moves, Codebook, CodesHeld, CodesHandedOnce

\* A call that holds no key neither takes nor needs one
LEMMA KeysKept ==
  ASSUME SalesInv, NEW c \in Clients, NEW l, NEW q, Moves(c, l, q),
         UNCHANGED <<payment, inserting>>, at[c] # "pay_commit", l # "pay_commit"
  PROVE  KeyHeld'
BY DEF SalesInv, TypeOK, Moves, KeyHeld

\* A call that returns knows nothing any more
LEMMA ReturnKnows ==
  ASSUME SalesInv, NEW c \in Clients, Return(c), UNCHANGED payment
  PROVE  CallsKnow' /\ Moves(c, "idle", NoCall) /\ NoCall.codes = {}
BY DEF SalesInv, TypeOK, Return, NoCall, Moves, CallsKnow, PayLabels, GenLabels

LEMMA ReturnType ==
  ASSUME SalesInv, NEW c \in Clients, Return(c), faults' \in Nat,
         UNCHANGED <<payment, answered, created, stored, connected>>,
         inserting' \in [Refs -> Clients \cup {None}], handed' \in [Codes -> Nat]
  PROVE  TypeOK'
BY DEF SalesInv, TypeOK, Request, Return, NoCall, PayLabels, GenLabels

LEMMA FaultType ==
  ASSUME SalesInv, NEW c \in Clients, Fails(c) \/ StoreFault \/ faults' = faults
  PROVE  faults' \in Nat
BY DEF SalesInv, TypeOK, Fails, StoreFault

LEMMA WordKnown == ASSUME NEW w PROVE StatusOf(w) \in PaymentStatus
BY DEF StatusOf, PaymentStatus

------------------------------------------------------------------------------
(* Requests *)

\* A webhook or record, for a reference no purchase draws
LEMMA PaymentBeginInv ==
  ASSUME SalesInv, NEW c \in Clients, PaymentBegin(c), UNCHANGED <<generationVars, connected>>
  PROVE  SalesInv'
<1>1. PICK r \in ProviderRefs, op \in {"webhook", "record"}, status \in PaymentStatus :
        Begin(c, "pay_look", [NoCall EXCEPT !.op = op, !.ref = r, !.status = status])
  BY WordKnown DEF PaymentBegin, BeginWebhook, BeginRecord, PaymentStatus
<1> DEFINE q == [NoCall EXCEPT !.op = op, !.ref = r, !.status = status]
<1>2. /\ Moves(c, "pay_look", q) /\ at[c] = "idle" /\ UNCHANGED <<gone, faults>>
      /\ UNCHANGED <<paymentVars, generationVars, connected>>
  <2>1. UNCHANGED paymentVars
    BY DEF PaymentBegin, BeginWebhook, BeginRecord
  <2>2. QED
    BY <1>1, <2>1 DEF Begin, Proceed, Moves
<1>3. /\ q \in Request /\ q.codes = {}
      /\ q.op = op /\ q.ref = r /\ q.status = status
  BY DEF NoCall, Request, PaymentStatus
<1> HIDE DEF q
<1>4. TypeOK'
  BY <1>2, <1>3 DEF SalesInv, TypeOK, Moves, PayLabels, paymentVars, generationVars
<1>5. CallsKnow'
  BY <1>2, <1>3 DEF SalesInv, TypeOK, CallsKnow, Moves, PayLabels, GenLabels, paymentVars
<1>6. KeyHeld' /\ Told' /\ Codebook' /\ PurchasesPaid'
  BY <1>2, <1>3, KeysKept, ToldKept, CodesKept, PaidKept DEF paymentVars, generationVars
<1>7. QED
  BY <1>4, <1>5, <1>6 DEF SalesInv, Told, Codebook

LEMMA GenerateBeginInv ==
  ASSUME SalesInv, NEW c \in Clients, BeginGenerate(c), UNCHANGED <<paymentVars, connected>>
  PROVE  SalesInv'
<1>1. PICK n \in 1..MaxCount :
        Begin(c, "gen_plan", [NoCall EXCEPT !.op = "generate", !.count = n])
  BY DEF BeginGenerate
<1> DEFINE q == [NoCall EXCEPT !.op = "generate", !.count = n]
<1>2. /\ Moves(c, "gen_plan", q) /\ at[c] = "idle" /\ UNCHANGED <<gone, faults>>
      /\ UNCHANGED <<paymentVars, generationVars, connected>>
  <2>1. UNCHANGED generationVars
    BY DEF BeginGenerate
  <2>2. QED
    BY <1>1, <2>1 DEF Begin, Proceed, Moves
<1>3. /\ q \in Request /\ q.codes = {}
      /\ q.op = "generate" /\ q.ref = None /\ q.status = "absent"
  <2>1. n \in Nat
    BY BoundAssumption
  <2>2. QED
    BY <2>1 DEF NoCall, Request
<1> HIDE DEF q
<1>4. TypeOK'
  BY <1>2, <1>3 DEF SalesInv, TypeOK, Moves, GenLabels, paymentVars, generationVars
<1>5. CallsKnow'
  BY <1>2, <1>3 DEF SalesInv, TypeOK, CallsKnow, Moves, PayLabels, GenLabels, paymentVars
<1>6. KeyHeld' /\ Told' /\ Codebook' /\ PurchasesPaid'
  BY <1>2, <1>3, KeysKept, ToldKept, CodesKept, PaidKept DEF paymentVars, generationVars
<1>7. QED
  BY <1>4, <1>5, <1>6 DEF SalesInv, Told, Codebook

LEMMA PurchaseBeginInv ==
  ASSUME SalesInv, NEW c \in Clients, BeginPurchase(c)
  PROVE  SalesInv'
<1>1. PICK r \in PortalRefs :
        Begin(c, "pay_look", [NoCall EXCEPT !.op = "purchase", !.ref = r,
                                            !.status = "paid", !.count = 1])
  BY DEF BeginPurchase
<1> DEFINE q == [NoCall EXCEPT !.op = "purchase", !.ref = r, !.status = "paid", !.count = 1]
<1>2. /\ Moves(c, "pay_look", q) /\ at[c] = "idle" /\ UNCHANGED <<gone, faults>>
      /\ UNCHANGED <<paymentVars, generationVars, connected>>
  <2>1. UNCHANGED <<paymentVars, generationVars, connected>>
    BY DEF BeginPurchase
  <2>2. QED
    BY <1>1, <2>1 DEF Begin, Proceed, Moves
<1>3. /\ q \in Request /\ q.codes = {}
      /\ q.op = "purchase" /\ q.ref = r /\ q.status = "paid"
  BY DEF NoCall, Request, PaymentStatus
<1> HIDE DEF q
<1>4. TypeOK'
  BY <1>2, <1>3 DEF SalesInv, TypeOK, Moves, PayLabels, PaymentStatus, paymentVars,
                    generationVars
<1>5. CallsKnow'
  BY <1>2, <1>3 DEF SalesInv, TypeOK, CallsKnow, Moves, PayLabels, GenLabels,
                    PaymentStatus, paymentVars
<1>6. KeyHeld' /\ Told' /\ Codebook' /\ PurchasesPaid'
  BY <1>2, <1>3, KeysKept, ToldKept, CodesKept, PaidKept DEF paymentVars, generationVars
<1>7. QED
  BY <1>4, <1>5, <1>6 DEF SalesInv, Told, Codebook

------------------------------------------------------------------------------
(* CreatePaymentIfAbsent *)

\* The service answers: the call is done, or a purchase that is paid goes on
LEMMA AnswerMoves ==
  ASSUME SalesInv, NEW c \in Clients, at[c] \in PayLabels, NEW st \in PaymentStatus,
         Answer(c, st), call[c].op = "purchase" => payment'[call[c].ref] = "paid",
         \A r \in Refs : payment[r] = "paid" => payment'[r] = "paid"
  PROVE  /\ CallsKnow' /\ faults' = faults /\ gone' \in SUBSET Clients
         /\ answered' = [answered EXCEPT ![call[c].ref] = @ \cup {st}]
         /\ \E l \in {"idle", "gen_plan"}, q \in Request : Moves(c, l, q) /\ q.codes = {}
<1>1. call[c] \in Request /\ call[c].ref \in Refs /\ call[c].codes = {}
  BY DEF SalesInv, TypeOK, CallsKnow, CodesHeld, PayLabels
<1>2. CASE call[c].op = "purchase"
  <2>1. Moves(c, "gen_plan", call[c]) /\ UNCHANGED <<gone, faults>>
    BY <1>2 DEF Answer, Proceed, Moves
  <2>2. CallsKnow'
    BY <1>1, <1>2, <2>1 DEF SalesInv, TypeOK, Request, CallsKnow, Moves, PayLabels, GenLabels
  <2>3. QED
    BY <1>1, <2>1, <2>2 DEF SalesInv, TypeOK, Answer
<1>3. CASE call[c].op # "purchase"
  <2>1. Return(c) /\ faults' = faults
    BY <1>3 DEF Answer
  <2>2. Moves(c, "idle", NoCall) /\ gone' \in SUBSET Clients
    BY <2>1 DEF SalesInv, TypeOK, Return, Moves
  <2>3. NoCall \in Request /\ NoCall.codes = {} /\ NoCall.op = "none" /\ NoCall.ref = None
    BY DEF NoCall, Request
  <2>4. CallsKnow'
    BY <2>2, <2>3 DEF SalesInv, TypeOK, Request, CallsKnow, Moves, PayLabels, GenLabels
  <2>5. QED
    BY <2>1, <2>2, <2>3, <2>4 DEF Answer
<1>4. QED
  BY <1>2, <1>3

LEMMA PayFoundInv ==
  ASSUME SalesInv, NEW c \in Clients, PayFound(c), UNCHANGED <<generationVars, connected>>
  PROVE  SalesInv'
<1>1. PICK r \in Refs : r = call[c].ref
  BY DEF SalesInv, CallsKnow, PayFound, Live, PayLabels
<1>2. PICK st \in PaymentStatus : st = payment[r]
  BY <1>1 DEF SalesInv, TypeOK, PayFound
<1>3. at[c] = "pay_look" /\ Answer(c, st) /\ UNCHANGED <<payment, inserting, created>>
  BY <1>1, <1>2 DEF PayFound, Live
<1>4. call[c].op = "purchase" => payment[r] = "paid"
  BY <1>1, <1>2 DEF SalesInv, CallsKnow, PurchasesPaid, PaymentStatus
<1>5. PICK l \in {"idle", "gen_plan"}, q \in Request :
        /\ CallsKnow' /\ faults' = faults /\ gone' \in SUBSET Clients
        /\ answered' = [answered EXCEPT ![r] = @ \cup {st}]
        /\ Moves(c, l, q) /\ q.codes = {}
  BY <1>1, <1>3, <1>4, AnswerMoves DEF PayLabels
<1>6. TypeOK'
  BY <1>3, <1>5 DEF SalesInv, TypeOK, Moves, GenLabels, generationVars
<1>7. Told'
  BY <1>2, <1>3, <1>5 DEF SalesInv, TypeOK, PaymentStatus, Told, AnswersStored, AnswersAgree,
                          OneCreation
<1>8. KeyHeld' /\ Codebook' /\ PurchasesPaid'
  BY <1>3, <1>5, KeysKept, CodesKept, PaidKept DEF generationVars
<1>9. QED
  BY <1>5, <1>6, <1>7, <1>8 DEF SalesInv, Told, Codebook

LEMMA PayMissingInv ==
  ASSUME SalesInv, NEW c \in Clients, PayMissing(c), UNCHANGED <<generationVars, connected>>
  PROVE  SalesInv'
<1>1. /\ at[c] = "pay_look" /\ Moves(c, "pay_insert", call[c]) /\ UNCHANGED <<gone, faults>>
      /\ UNCHANGED <<paymentVars, generationVars, connected>>
  BY DEF PayMissing, Live, Proceed, Moves
<1>2. TypeOK'
  BY <1>1 DEF SalesInv, TypeOK, Moves, PayLabels, paymentVars, generationVars
<1>3. CallsKnow'
  BY <1>1 DEF SalesInv, TypeOK, CallsKnow, Moves, PayLabels, GenLabels, paymentVars
<1>4. call[c].codes = {}
  BY <1>1 DEF SalesInv, CodesHeld
<1>5. KeyHeld' /\ Told' /\ Codebook' /\ PurchasesPaid'
  BY <1>1, <1>4, KeysKept, ToldKept, CodesKept, PaidKept DEF paymentVars, generationVars
<1>6. QED
  BY <1>2, <1>3, <1>5 DEF SalesInv, Told, Codebook

LEMMA PayInsertInv ==
  ASSUME SalesInv, NEW c \in Clients, PayInsert(c), UNCHANGED <<generationVars, connected>>
  PROVE  SalesInv'
<1>1. /\ at[c] = "pay_insert" /\ Moves(c, "pay_commit", call[c]) /\ UNCHANGED <<gone, faults>>
      /\ UNCHANGED <<payment, answered, created, generationVars, connected>>
      /\ inserting[call[c].ref] = None /\ payment[call[c].ref] = "absent"
      /\ inserting' = [inserting EXCEPT ![call[c].ref] = c]
  BY DEF PayInsert, Live, Proceed, Moves
<1>2. TypeOK'
  BY <1>1 DEF SalesInv, TypeOK, Moves, PayLabels, generationVars
<1>3. CallsKnow'
  BY <1>1 DEF SalesInv, TypeOK, CallsKnow, Moves, PayLabels, GenLabels
<1>4. KeyHeld'
  BY <1>1 DEF SalesInv, TypeOK, CallsKnow, KeyHeld, Moves, PayLabels
<1>5. call[c].codes = {}
  BY <1>1 DEF SalesInv, CodesHeld
<1>6. Told' /\ Codebook' /\ PurchasesPaid'
  BY <1>1, <1>5, ToldKept, CodesKept, PaidKept DEF generationVars
<1>7. QED
  BY <1>2, <1>3, <1>4, <1>6 DEF SalesInv, Told, Codebook

LEMMA PayCollidesInv ==
  ASSUME SalesInv, NEW c \in Clients, PayCollides(c), UNCHANGED <<generationVars, connected>>
  PROVE  SalesInv'
<1>1. /\ at[c] = "pay_insert" /\ Return(c) /\ faults' = faults
      /\ UNCHANGED <<paymentVars, generationVars, connected>>
  BY DEF PayCollides, Live
<1>2. CallsKnow' /\ Moves(c, "idle", NoCall) /\ NoCall.codes = {}
  BY <1>1, ReturnKnows DEF paymentVars
<1>3. TypeOK'
  BY <1>1, FaultType, ReturnType DEF SalesInv, TypeOK, paymentVars, generationVars
<1>4. KeyHeld' /\ Told' /\ Codebook' /\ PurchasesPaid'
  BY <1>1, <1>2, KeysKept, ToldKept, CodesKept, PaidKept DEF paymentVars, generationVars
<1>5. QED
  BY <1>2, <1>3, <1>4 DEF SalesInv, Told, Codebook

\* The call that holds the key commits: its reference was free
LEMMA CommittedKeeps ==
  ASSUME SalesInv, NEW c \in Clients, at[c] = "pay_commit", Committed(c),
         NEW l, NEW q, Moves(c, l, q), l # "pay_commit", UNCHANGED connected
  PROVE  /\ KeyHeld' /\ PurchasesPaid'
         /\ payment' \in [Refs -> PaymentStatus \cup {"absent"}]
         /\ inserting' \in [Refs -> Clients \cup {None}]
<1>1. PICK r \in Refs : r = call[c].ref /\ payment[r] = "absent" /\ inserting[r] = c
  BY DEF SalesInv, CallsKnow, KeyHeld, PayLabels
<1>2. PICK st \in PaymentStatus : st = call[c].status
  BY DEF SalesInv, CallsKnow, PayLabels
<1>3. /\ payment' = [payment EXCEPT ![r] = st]
      /\ inserting' = [inserting EXCEPT ![r] = None]
  BY <1>1, <1>2 DEF Committed
<1>4. KeyHeld'
  BY <1>1, <1>3 DEF SalesInv, TypeOK, CallsKnow, KeyHeld, Moves, PayLabels
<1>5. Paid' = Paid \/ Paid' = Paid \cup {r}
  BY <1>1, <1>3 DEF SalesInv, TypeOK, Paid
<1>6. IsFiniteSet(Paid') /\ Paid \subseteq Paid'
  BY <1>5, FS_AddElement DEF SalesInv, PurchasesPaid
<1>7. r \in PortalRefs => st = "paid"
  BY <1>1, <1>2 DEF SalesInv, CallsKnow
<1>8. PurchasesPaid'
  BY <1>3, <1>6, <1>7 DEF SalesInv, TypeOK, PurchasesPaid
<1>9. QED
  BY <1>3, <1>4, <1>8 DEF SalesInv, TypeOK

LEMMA PayCommitInv ==
  ASSUME SalesInv, NEW c \in Clients, PayCommit(c), UNCHANGED <<generationVars, connected>>
  PROVE  SalesInv'
<1>1. PICK r \in Refs : r = call[c].ref /\ payment[r] = "absent" /\ at[c] = "pay_commit"
  BY DEF SalesInv, CallsKnow, KeyHeld, PayLabels, PayCommit, Live
<1>2. PICK st \in PaymentStatus : st = call[c].status
  BY <1>1 DEF SalesInv, CallsKnow, PayLabels
<1>3. /\ Committed(c) /\ payment' = [payment EXCEPT ![r] = st]
      /\ Answer(c, st) /\ created' = [created EXCEPT ![r] = @ + 1]
  BY <1>1, <1>2 DEF PayCommit, Committed
<1>4. /\ call[c].op = "purchase" => payment'[r] = "paid"
      /\ \A x \in Refs : payment[x] = "paid" => payment'[x] = "paid"
  BY <1>1, <1>2, <1>3 DEF SalesInv, TypeOK, CallsKnow
<1>5. PICK l \in {"idle", "gen_plan"}, q \in Request :
        /\ CallsKnow' /\ faults' = faults /\ gone' \in SUBSET Clients
        /\ answered' = [answered EXCEPT ![r] = @ \cup {st}]
        /\ Moves(c, l, q) /\ q.codes = {}
  BY <1>1, <1>3, <1>4, AnswerMoves DEF PayLabels
<1>6. /\ KeyHeld' /\ PurchasesPaid'
      /\ payment' \in [Refs -> PaymentStatus \cup {"absent"}]
      /\ inserting' \in [Refs -> Clients \cup {None}]
  BY <1>1, <1>3, <1>5, CommittedKeeps
<1>7. TypeOK'
  BY <1>3, <1>5, <1>6 DEF SalesInv, TypeOK, Moves, GenLabels, generationVars
<1>8. answered[r] = {} /\ created[r] = 0
  BY <1>1 DEF SalesInv, AnswersStored
<1>9. Told'
  BY <1>1, <1>2, <1>3, <1>5, <1>8 DEF SalesInv, TypeOK, PaymentStatus, Told, AnswersStored,
                                      AnswersAgree, OneCreation
<1>10. Codebook'
  BY <1>5, CodesKept DEF generationVars
<1>11. QED
  BY <1>5, <1>6, <1>7, <1>9, <1>10 DEF SalesInv, Told, Codebook

LEMMA PayCommitLostInv ==
  ASSUME SalesInv, NEW c \in Clients, PayCommitLost(c), UNCHANGED <<generationVars, connected>>
  PROVE  SalesInv'
<1>1. PICK r \in Refs : r = call[c].ref /\ payment[r] = "absent" /\ at[c] = "pay_commit"
  BY DEF SalesInv, CallsKnow, KeyHeld, PayLabels, PayCommitLost
<1>2. /\ Committed(c) /\ payment' = [payment EXCEPT ![r] = call[c].status]
      /\ Return(c) /\ UNCHANGED <<answered, created>>
  BY <1>1 DEF PayCommitLost, Committed
<1>3. Moves(c, "idle", NoCall) /\ gone' \in SUBSET Clients
  BY <1>2 DEF SalesInv, TypeOK, Return, Moves
<1>4. NoCall \in Request /\ NoCall.codes = {} /\ NoCall.op = "none" /\ NoCall.ref = None
  BY DEF NoCall, Request
<1>5. CallsKnow'
  BY <1>1, <1>2, <1>3, <1>4 DEF SalesInv, TypeOK, Request, CallsKnow, Moves, PayLabels, GenLabels
<1>6. /\ KeyHeld' /\ PurchasesPaid'
      /\ payment' \in [Refs -> PaymentStatus \cup {"absent"}]
      /\ inserting' \in [Refs -> Clients \cup {None}]
  BY <1>1, <1>2, <1>3, CommittedKeeps
<1>7. faults' \in Nat
  BY FaultType DEF PayCommitLost
<1>8. TypeOK'
  BY <1>2, <1>3, <1>4, <1>6, <1>7 DEF SalesInv, TypeOK, Moves, generationVars
<1>9. Told'
  BY <1>1, <1>2 DEF SalesInv, TypeOK, Told, AnswersStored, AnswersAgree, OneCreation, CallsKnow,
                    PayLabels, PaymentStatus
<1>10. Codebook'
  BY <1>3, <1>4, CodesKept DEF generationVars
<1>11. QED
  BY <1>5, <1>6, <1>8, <1>9, <1>10 DEF SalesInv, Told, Codebook

\* The rollback releases the key
LEMMA PayFailsInv ==
  ASSUME SalesInv, NEW c \in Clients, PayFails(c), UNCHANGED <<generationVars, connected>>
  PROVE  SalesInv'
<1>1. /\ at[c] \in PayLabels /\ Return(c) /\ faults' \in Nat
      /\ inserting' = [r \in Refs |-> IF inserting[r] = c THEN None ELSE inserting[r]]
      /\ UNCHANGED <<payment, answered, created>>
  BY FaultType DEF PayFails, PayLabels
<1>2. CallsKnow' /\ Moves(c, "idle", NoCall) /\ NoCall.codes = {}
  BY <1>1, ReturnKnows
<1>3. inserting' \in [Refs -> Clients \cup {None}]
  BY <1>1 DEF SalesInv, TypeOK
<1>4. TypeOK'
  BY <1>1, <1>3, ReturnType DEF SalesInv, TypeOK, generationVars
<1>5. KeyHeld'
  BY <1>1, <1>2 DEF SalesInv, TypeOK, CallsKnow, KeyHeld, Moves, PayLabels
<1>6. Told' /\ Codebook' /\ PurchasesPaid'
  BY <1>1, <1>2, ToldKept, CodesKept, PaidKept DEF generationVars
<1>7. QED
  BY <1>2, <1>4, <1>5, <1>6 DEF SalesInv, Told, Codebook

------------------------------------------------------------------------------
(* GenerateTokens *)

LEMMA GenPlanInv ==
  ASSUME SalesInv, NEW c \in Clients, GenPlan(c), UNCHANGED <<paymentVars, connected>>
  PROVE  SalesInv'
<1>1. /\ at[c] = "gen_plan" /\ Moves(c, "gen_insert", call[c]) /\ UNCHANGED <<gone, faults>>
      /\ UNCHANGED <<paymentVars, generationVars, connected>>
  BY DEF GenPlan, Live, Proceed, Moves
<1>2. TypeOK'
  BY <1>1 DEF SalesInv, TypeOK, Moves, GenLabels, paymentVars, generationVars
<1>3. CallsKnow'
  BY <1>1 DEF SalesInv, TypeOK, CallsKnow, Moves, PayLabels, GenLabels, paymentVars
<1>4. call[c].codes = {}
  BY <1>1 DEF SalesInv, CodesHeld
<1>5. KeyHeld' /\ Told' /\ Codebook' /\ PurchasesPaid'
  BY <1>1, <1>4, KeysKept, ToldKept, CodesKept, PaidKept DEF paymentVars, generationVars
<1>6. QED
  BY <1>2, <1>3, <1>5 DEF SalesInv, Told, Codebook

LEMMA GenPlanFailsInv ==
  ASSUME SalesInv, NEW c \in Clients, GenPlanFails(c), UNCHANGED <<paymentVars, connected>>
  PROVE  SalesInv'
<1>1. /\ at[c] = "gen_plan" /\ Return(c) /\ faults' \in Nat
      /\ UNCHANGED <<paymentVars, generationVars, connected>>
  BY FaultType DEF GenPlanFails
<1>2. CallsKnow' /\ Moves(c, "idle", NoCall) /\ NoCall.codes = {}
  BY <1>1, ReturnKnows DEF paymentVars
<1>3. TypeOK'
  BY <1>1, ReturnType DEF SalesInv, TypeOK, paymentVars, generationVars
<1>4. KeyHeld' /\ Told' /\ Codebook' /\ PurchasesPaid'
  BY <1>1, <1>2, KeysKept, ToldKept, CodesKept, PaidKept DEF paymentVars, generationVars
<1>5. QED
  BY <1>2, <1>3, <1>4 DEF SalesInv, Told, Codebook

\* A new code is stored, and held by this call or by nobody
LEMMA GenCreateInv ==
  ASSUME SalesInv, NEW c \in Clients, GenCreate(c), UNCHANGED <<paymentVars, connected>>
  PROVE  SalesInv'
<1>1. PICK k \in Codes \ stored :
        /\ stored' = stored \cup {k}
        /\ Proceed(c, "gen_insert", [call[c] EXCEPT !.codes = @ \cup {k}])
  BY DEF GenCreate
<1> DEFINE q == [call[c] EXCEPT !.codes = @ \cup {k}]
<1>2. /\ at[c] = "gen_insert" /\ Moves(c, "gen_insert", q) /\ UNCHANGED <<gone, faults>>
      /\ UNCHANGED <<paymentVars, handed, connected>>
  BY <1>1 DEF GenCreate, Wanting, Proceed, Moves
<1>3. /\ q \in Request /\ q.codes = call[c].codes \cup {k}
      /\ q.op = call[c].op /\ q.ref = call[c].ref /\ q.status = call[c].status
  <2>1. call[c] \in Request
    BY DEF SalesInv, TypeOK
  <2>2. QED
    BY <2>1 DEF Request
<1> HIDE DEF q
<1>4. TypeOK'
  BY <1>1, <1>2, <1>3 DEF SalesInv, TypeOK, Moves, GenLabels, paymentVars
<1>5. CallsKnow'
  BY <1>2, <1>3 DEF SalesInv, TypeOK, CallsKnow, Moves, PayLabels, GenLabels, paymentVars
<1>6. handed[k] = 0
  BY DEF SalesInv, TypeOK, CodesHandedOnce
<1>7. CodesHeld'
  BY <1>1, <1>2, <1>3, <1>6 DEF SalesInv, TypeOK, CodesHeld, Moves
<1>8. CodesHandedOnce'
  BY <1>1, <1>2 DEF SalesInv, CodesHandedOnce
<1>9. KeyHeld' /\ Told' /\ PurchasesPaid'
  BY <1>2, KeysKept, ToldKept, PaidKept DEF paymentVars
<1>10. QED
  BY <1>4, <1>5, <1>7, <1>8, <1>9 DEF SalesInv, Told

LEMMA GenRetryInv ==
  ASSUME SalesInv, NEW c \in Clients, GenCreateFails(c) \/ GenCreateLost(c),
         UNCHANGED <<paymentVars, connected>>
  PROVE  SalesInv'
<1>1. /\ stored' = stored \/ \E k \in Codes : stored' = stored \cup {k}
      /\ faults' \in Nat /\ UNCHANGED <<at, call, gone, paymentVars, handed, connected>>
  BY FaultType DEF GenCreateFails, GenCreateLost, generationVars
<1>2. TypeOK'
  BY <1>1 DEF SalesInv, TypeOK, paymentVars
<1>3. CallsKnow' /\ KeyHeld'
  BY <1>1 DEF SalesInv, CallsKnow, KeyHeld, paymentVars
<1>4. Codebook'
  BY <1>1 DEF SalesInv, Codebook, CodesHeld, CodesHandedOnce
<1>5. Told' /\ PurchasesPaid'
  BY <1>1, ToldKept, PaidKept DEF paymentVars
<1>6. QED
  BY <1>2, <1>3, <1>4, <1>5 DEF SalesInv, Told, Codebook

\* The codes of a complete batch are handed out; no other call holds them
LEMMA GenReturnInv ==
  ASSUME SalesInv, NEW c \in Clients, GenReturn(c), UNCHANGED <<paymentVars, connected>>
  PROVE  SalesInv'
<1>1. /\ at[c] = "gen_insert" /\ UNCHANGED <<stored, paymentVars, connected>>
      /\ handed' = [k \in Codes |-> IF k \in call[c].codes THEN handed[k] + 1 ELSE handed[k]]
  BY DEF GenReturn
<1>2. CodesHandedOnce' /\ handed' \in [Codes -> Nat]
  BY <1>1 DEF SalesInv, TypeOK, CodesHeld, CodesHandedOnce
<1>3. Told' /\ PurchasesPaid'
  BY <1>1, ToldKept, PaidKept DEF paymentVars
<1>4. CASE call[c].op = "purchase"
  <2>1. Moves(c, "redeem", call[c]) /\ UNCHANGED <<gone, faults>>
    BY <1>4 DEF GenReturn, Proceed, Moves
  <2>2. TypeOK'
    BY <1>1, <1>2, <2>1 DEF SalesInv, TypeOK, Moves, paymentVars
  <2>3. CallsKnow'
    BY <1>1, <1>4, <2>1 DEF SalesInv, TypeOK, CallsKnow, Moves, PayLabels, GenLabels,
                            paymentVars
  <2>4. CodesHeld'
    BY <1>1, <2>1 DEF SalesInv, TypeOK, CodesHeld, Moves
  <2>5. KeyHeld'
    BY <1>1, <2>1, KeysKept DEF paymentVars
  <2>6. QED
    BY <1>2, <1>3, <2>2, <2>3, <2>4, <2>5 DEF SalesInv, Told
<1>5. CASE call[c].op # "purchase"
  <2>1. Return(c) /\ faults' = faults
    BY <1>5 DEF GenReturn
  <2>2. CallsKnow' /\ Moves(c, "idle", NoCall) /\ NoCall.codes = {}
    BY <1>1, <2>1, ReturnKnows DEF paymentVars
  <2>3. TypeOK'
    BY <1>1, <1>2, <2>1, FaultType, ReturnType DEF SalesInv, TypeOK, paymentVars
  <2>4. CodesHeld'
    BY <1>1, <2>2 DEF SalesInv, TypeOK, CodesHeld, Moves
  <2>5. KeyHeld'
    BY <1>1, <2>2, KeysKept DEF paymentVars
  <2>6. QED
    BY <1>2, <1>3, <2>2, <2>3, <2>4, <2>5 DEF SalesInv, Told
<1>6. QED
  BY <1>4, <1>5

------------------------------------------------------------------------------
(* The end of a purchase, and clients that hang up *)

LEMMA RedeemOwnInv ==
  ASSUME SalesInv, NEW c \in Clients, RedeemOwn(c)
  PROVE  SalesInv'
<1>1. /\ at[c] = "redeem" /\ Return(c) /\ connected' = connected \cup {call[c].ref}
      /\ UNCHANGED <<faults, paymentVars, generationVars>>
  BY DEF RedeemOwn, Live
<1>2. call[c].ref \in Paid
  BY <1>1 DEF SalesInv, CallsKnow, Paid
<1>3. CallsKnow' /\ Moves(c, "idle", NoCall) /\ NoCall.codes = {}
  BY <1>1, ReturnKnows DEF paymentVars
<1>4. TypeOK'
  BY <1>1, <1>2 DEF SalesInv, TypeOK, Paid, Request, Return, NoCall, paymentVars, generationVars
<1>5. Paid' = Paid
  BY <1>1 DEF Paid, paymentVars
<1>6. PurchasesPaid'
  BY <1>1, <1>2, <1>5 DEF SalesInv, PurchasesPaid, paymentVars
<1>7. KeyHeld' /\ Told' /\ Codebook'
  BY <1>1, <1>3, KeysKept, ToldKept, CodesKept DEF paymentVars, generationVars
<1>8. QED
  BY <1>3, <1>4, <1>6, <1>7 DEF SalesInv, Told, Codebook

LEMMA RedeemOwnFailsInv ==
  ASSUME SalesInv, NEW c \in Clients, RedeemOwnFails(c)
  PROVE  SalesInv'
<1>1. /\ at[c] = "redeem" /\ Return(c) /\ faults' \in Nat
      /\ UNCHANGED <<paymentVars, generationVars, connected>>
  BY FaultType DEF RedeemOwnFails
<1>2. CallsKnow' /\ Moves(c, "idle", NoCall) /\ NoCall.codes = {}
  BY <1>1, ReturnKnows DEF paymentVars
<1>3. TypeOK'
  BY <1>1, ReturnType DEF SalesInv, TypeOK, paymentVars, generationVars
<1>4. KeyHeld' /\ Told' /\ Codebook' /\ PurchasesPaid'
  BY <1>1, <1>2, KeysKept, ToldKept, CodesKept, PaidKept DEF paymentVars, generationVars
<1>5. QED
  BY <1>2, <1>3, <1>4 DEF SalesInv, Told, Codebook

LEMMA UnmovedInv ==
  ASSUME SalesInv, faults' \in Nat, gone' \in SUBSET Clients,
         UNCHANGED <<at, call, paymentVars, generationVars, connected>>
  PROVE  SalesInv'
<1>1. TypeOK'
  BY DEF SalesInv, TypeOK, paymentVars, generationVars
<1>2. CallsKnow' /\ KeyHeld'
  BY DEF SalesInv, CallsKnow, KeyHeld, paymentVars
<1>3. Codebook'
  BY DEF SalesInv, Codebook, CodesHeld, CodesHandedOnce, generationVars
<1>4. Told' /\ PurchasesPaid'
  BY ToldKept, PaidKept DEF paymentVars
<1>5. QED
  BY <1>1, <1>2, <1>3, <1>4 DEF SalesInv, Told, Codebook

LEMMA StepInv == SalesInv /\ [Next]_vars => SalesInv'
<1> SUFFICES ASSUME SalesInv, [Next]_vars PROVE SalesInv'
  OBVIOUS
<1>1. ASSUME NEW c \in Clients, PaymentBegin(c), UNCHANGED <<generationVars, connected>>
      PROVE  SalesInv'
  BY <1>1, PaymentBeginInv
<1>2. ASSUME NEW c \in Clients, BeginGenerate(c), UNCHANGED <<paymentVars, connected>>
      PROVE  SalesInv'
  BY <1>2, GenerateBeginInv
<1>3. ASSUME NEW c \in Clients, BeginPurchase(c) PROVE SalesInv'
  BY <1>3, PurchaseBeginInv
<1>4. ASSUME NEW c \in Clients, PaymentStep(c), UNCHANGED <<generationVars, connected>>
      PROVE  SalesInv'
  BY <1>4, PayFoundInv, PayMissingInv, PayInsertInv, PayCollidesInv, PayCommitInv,
     PayCommitLostInv, PayFailsInv DEF PaymentStep
<1>5. ASSUME NEW c \in Clients, GenerationStep(c), UNCHANGED <<paymentVars, connected>>
      PROVE  SalesInv'
  BY <1>5, GenPlanInv, GenPlanFailsInv, GenCreateInv, GenRetryInv, GenReturnInv
     DEF GenerationStep
<1>6. ASSUME NEW c \in Clients, RedeemOwn(c) \/ RedeemOwnFails(c) PROVE SalesInv'
  BY <1>6, RedeemOwnInv, RedeemOwnFailsInv
<1>7. ASSUME NEW c \in Clients, HangUp(c) PROVE SalesInv'
  <2>1. faults' \in Nat
    BY <1>7, FaultType DEF HangUp
  <2>2. gone' \in SUBSET Clients
    BY <1>7 DEF HangUp, SalesInv, TypeOK
  <2>3. QED
    BY <1>7, <2>1, <2>2, UnmovedInv DEF HangUp
<1>8. CASE UNCHANGED vars
  <2>1. faults' \in Nat /\ gone' \in SUBSET Clients
    BY <1>8 DEF vars, callVars, SalesInv, TypeOK
  <2>2. QED
    BY <1>8, <2>1, UnmovedInv DEF vars, callVars
<1>9. QED
  BY <1>1, <1>2, <1>3, <1>4, <1>5, <1>6, <1>7, <1>8 DEF Next, PurchaseStep

\* The inductive invariant of the sales side holds
THEOREM SalesInvariant == Spec => []SalesInv
<1>1. QED
  BY InitInv, StepInv, PTL DEF Spec

\* "Idempotency by unique transaction_ref": every client that got an answer about a
\* reference was told the one status that CreatePaymentIfAbsent stored
THEOREM IdempotentAnswers == Spec => []AnswersAgree
<1>1. SalesInv => AnswersAgree
  BY DEF SalesInv
<1>2. QED
  BY <1>1, SalesInvariant, PTL

\* At most one call for a reference was told that its payment is new
THEOREM CreatedOnce == Spec => []OneCreation
<1>1. SalesInv => OneCreation
  BY DEF SalesInv
<1>2. QED
  BY <1>1, SalesInvariant, PTL

\* GenerateTokens gives a code to one caller at most, and only a stored one
THEOREM CodesUnshared == Spec => []CodesHandedOnce
<1>1. SalesInv => CodesHandedOnce
  BY DEF SalesInv
<1>2. QED
  BY <1>1, SalesInvariant, PTL

\* Every device a portal purchase let in is in the sales report
THEOREM ConnectionsPaid == Spec => []ConnectedIsPaid
<1>1. SalesInv => ConnectedIsPaid
  <2> SUFFICES ASSUME SalesInv PROVE ConnectedIsPaid
    OBVIOUS
  <2>1. connected \subseteq Paid /\ IsFiniteSet(Paid)
    BY DEF SalesInv, PurchasesPaid
  <2>2. Cardinality(connected) <= Cardinality(Paid)
    BY <2>1, FS_Subset
  <2>3. QED
    BY <2>2 DEF ConnectedIsPaid, SalesSummary, Paid
<1>2. QED
  BY <1>1, SalesInvariant, PTL
================================================================================
