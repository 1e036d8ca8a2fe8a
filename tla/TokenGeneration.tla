---------------------------- MODULE TokenGeneration ----------------------------
(***************************************************************************)
(* GenerateTokens of service/token_service.go: a loop that draws a code    *)
(* and inserts its row until it has as many tokens as were asked for.  Any *)
(* error of CreateToken, a taken code or a store that does not answer, is  *)
(* retried at once with another code.                                      *)
(***************************************************************************)
EXTENDS Calls

VARIABLES
  stored,   \* codes whose hash a token row holds
  handed    \* by code, how many answers it was given in

generationVars == <<stored, handed>>

GenerationInit == stored = {} /\ handed = [k \in Codes |-> 0]

\* Bound: a batch starts only while every loop can still find a free code
CodeRoom ==
  MaxCount * Cardinality({c \in Clients : at[c] # "idle"}) + MaxCount + MaxFaults - faults
    <= Cardinality(Codes \ stored)

\* POST /v1/admin/tokens/generate
BeginGenerate(c) ==
  /\ CodeRoom
  /\ \E n \in 1..MaxCount :
       Begin(c, "gen_plan", [NoCall EXCEPT !.op = "generate", !.count = n])
  /\ UNCHANGED generationVars

\* GetPlan; the plan exists and is active, plans are never taken away
GenPlan(c) ==
  /\ Live(c, "gen_plan")
  /\ Proceed(c, "gen_insert", call[c])
  /\ UNCHANGED generationVars

GenPlanFails(c) ==
  /\ at[c] = "gen_plan"
  /\ Fails(c)
  /\ Return(c)
  /\ UNCHANGED generationVars

Wanting(c) == at[c] = "gen_insert" /\ Cardinality(call[c].codes) < call[c].count

\* Mutant: no unique key on code_hash
GenCreateKeyless(c) ==
  /\ Wanting(c) /\ c \notin gone
  /\ \E k \in Codes \ call[c].codes :
       /\ stored' = stored \cup {k}
       /\ Proceed(c, "gen_insert", [call[c] EXCEPT !.codes = @ \cup {k}])
  /\ UNCHANGED handed

\* An iteration that draws a free code.  One that draws a taken code changes
\* nothing and is taken again.
GenCreate(c) ==
  /\ Wanting(c) /\ c \notin gone
  /\ \E k \in Codes \ stored :
       /\ stored' = stored \cup {k}
       /\ Proceed(c, "gen_insert", [call[c] EXCEPT !.codes = @ \cup {k}])
  /\ UNCHANGED handed

\* CreateToken fails, always once the context is cancelled: the same iteration
\* is taken again
GenCreateFails(c) ==
  /\ Wanting(c)
  /\ Fails(c)
  /\ UNCHANGED <<at, call, gone, generationVars>>

\* The row is inserted and the answer lost: the loop draws another code, and
\* nobody ever learns this one
GenCreateLost(c) ==
  /\ Wanting(c) /\ c \notin gone
  /\ StoreFault
  /\ \E k \in Codes \ stored : stored' = stored \cup {k}
  /\ UNCHANGED <<at, call, gone, handed>>

\* The loop is done; a failing audit record is ignored.  A batch is answered,
\* a purchase goes on to redeem its code.
GenReturn(c) ==
  /\ at[c] = "gen_insert"
  /\ Cardinality(call[c].codes) = call[c].count
  /\ handed' = [k \in Codes |-> IF k \in call[c].codes THEN handed[k] + 1 ELSE handed[k]]
  /\ IF call[c].op = "purchase" THEN Proceed(c, "redeem", call[c])
     ELSE Return(c) /\ UNCHANGED faults
  /\ UNCHANGED stored

GenerationStep(c) ==
  \/ GenPlan(c) \/ GenPlanFails(c)
  \/ GenCreate(c) \/ GenCreateFails(c) \/ GenCreateLost(c) \/ GenReturn(c)
==============================================================================
