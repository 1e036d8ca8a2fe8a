---------------------------- MODULE RateLimitProofs ----------------------------
(***************************************************************************)
(* The rate limiter's bounds hold for every limit, window and set of keys. *)
(***************************************************************************)
EXTENDS RateLimit, TLAPS

\* The types of a key's entries
LEMMA KeyTypes ==
  ASSUME LimitInv, NEW k \in Keys
  PROVE  /\ count[k] \in Nat /\ expires[k] \in Nat /\ clock \in Nat
         /\ asked[k] \in Seq(Nat) /\ Len(asked[k]) \in Nat
         /\ admitted[k] \in Seq(Nat) /\ Len(admitted[k]) \in Nat
         /\ Max \in Nat \ {0} /\ Window \in Nat \ {0}
<1>1. /\ count[k] \in Nat /\ expires[k] \in Nat /\ clock \in Nat
      /\ asked[k] \in Seq(Nat) /\ admitted[k] \in Seq(Nat)
  BY DEF LimitInv, TypeOK
<1>2. QED
  BY <1>1, LimitAssumption

\* What Counted leaves in the variables, under the types
LEMMA CountedFacts ==
  ASSUME LimitInv, NEW k \in Keys, Counted(k)
  PROVE  /\ Incr(k) \in Nat \ {0}
         /\ count' \in [Keys -> Nat] /\ count'[k] = Incr(k)
         /\ expires' \in [Keys -> Nat] /\ expires'[k] = clock + Window
         /\ asked' \in [Keys -> Seq(Nat)] /\ asked'[k] = Append(asked[k], clock)
         /\ \A j \in Keys \ {k} : /\ count'[j] = count[j] /\ expires'[j] = expires[j]
                                  /\ asked'[j] = asked[j]
<1>1. Incr(k) \in Nat \ {0}
  BY DEF LimitInv, TypeOK, Incr
<1>2. expires' \in [Keys -> Nat] /\ expires'[k] = clock + Window
  BY LimitAssumption DEF LimitInv, TypeOK, Counted
<1>3. Append(asked[k], clock) \in Seq(Nat)
  BY DEF LimitInv, TypeOK
<1>4. asked' \in [Keys -> Seq(Nat)] /\ asked'[k] = Append(asked[k], clock)
  BY <1>3 DEF LimitInv, TypeOK, Counted
<1>5. QED
  BY <1>1, <1>2, <1>4 DEF LimitInv, TypeOK, Counted

\* A counted request extends the run of requests its counter stands for
LEMMA AskedKept ==
  ASSUME LimitInv, NEW k \in Keys, Counted(k), clock' = clock
  PROVE  AskedInv'
<1> SUFFICES ASSUME NEW j \in Keys
             PROVE  /\ expires'[j] <= clock + Window
                    /\ Live(j)' => RunOfRequests(j)'
  BY DEF AskedInv
<1>1. CASE j # k
  <2>1. count'[j] = count[j] /\ expires'[j] = expires[j] /\ asked'[j] = asked[j]
    BY <1>1, CountedFacts
  <2>2. Live(j)' = Live(j) /\ RunOfRequests(j)' = RunOfRequests(j)
    BY <2>1 DEF Live, RunOfRequests
  <2>3. QED
    BY <2>1, <2>2 DEF LimitInv, AskedInv
<1>2. CASE j = k
  <2> DEFINE a == asked[k]
             n == Len(a)
  <2>1. /\ asked'[j] = Append(a, clock) /\ a \in Seq(Nat) /\ n \in Nat /\ clock \in Nat
        /\ count'[j] = Incr(k) /\ expires'[j] = clock + Window
        /\ Incr(k) \in Nat \ {0} /\ count[k] \in Nat
    BY <1>2, CountedFacts, KeyTypes
  <2>2. Incr(k) \in 1 .. n + 1
    <3>1. CASE Live(k)
      <4>1. count[k] <= n
        BY <2>1, <3>1 DEF LimitInv, AskedInv, RunOfRequests
      <4>2. QED
        BY <2>1, <3>1, <4>1 DEF Incr
    <3>2. CASE ~Live(k)
      BY <2>1, <3>2 DEF Incr
    <3>3. QED
      BY <3>1, <3>2
  <2>3. Len(asked'[j]) = n + 1 /\ asked'[j][n + 1] = clock
        /\ DOMAIN asked'[j] = 1 .. n + 1 /\ \A i \in 1 .. n : asked'[j][i] = a[i]
    BY <2>1
  <2>4. ASSUME NEW i \in 1 .. n + 1, i + Incr(k) > n + 1, i < n + 1
        PROVE  asked'[j][i + 1] < asked'[j][i] + Window
    <3>1. Live(k) /\ Incr(k) = count[k] + 1
      BY <2>1, <2>4 DEF Incr
    <3>2. expires[k] = a[n] + Window /\ clock < expires[k]
      BY <3>1 DEF LimitInv, AskedInv, RunOfRequests, Live
    <3>3. CASE i = n
      BY <2>1, <2>3, <2>4, <3>2, <3>3
    <3>4. CASE i < n
      <4>1. i \in DOMAIN a /\ i + count[k] > n
        BY <2>1, <2>4, <3>1, <3>4
      <4>2. a[i + 1] < a[i] + Window
        BY <3>1, <3>4, <4>1 DEF LimitInv, AskedInv, RunOfRequests
      <4>3. i \in 1 .. n /\ i + 1 \in 1 .. n
        BY <2>1, <2>4, <3>4
      <4>4. QED
        BY <2>3, <4>2, <4>3
    <3>5. QED
      BY <2>1, <2>4, <3>3, <3>4
  <2>5. RunOfRequests(j)'
    <3>1. count'[j] \in 1 .. n + 1 /\ expires'[j] = asked'[j][n + 1] + Window
      BY <2>1, <2>2, <2>3
    <3>2. \A i \in DOMAIN asked'[j] :
            i + count'[j] > n + 1 /\ i < n + 1 => asked'[j][i + 1] < asked'[j][i] + Window
      BY <2>1, <2>3, <2>4
    <3>3. QED
      BY <2>3, <3>1, <3>2 DEF RunOfRequests
  <2>6. expires'[j] <= clock + Window
    BY <2>1, LimitAssumption
  <2>7. QED
    BY <2>5, <2>6
<1>3. QED
  BY <1>1, <1>2

\* What was recorded of earlier refusals stays true when a request is counted
LEMMA RefusalsKept ==
  ASSUME LimitInv, NEW k \in Keys, Counted(k), NEW j \in Keys, NEW n \in refused[j]
  PROVE  /\ n \in DOMAIN asked'[j] /\ n > Max
         /\ \A i \in n - Max .. n - 1 : asked'[j][i + 1] < asked'[j][i] + Window
<1>1. /\ asked[j] \in Seq(Nat) /\ n \in DOMAIN asked[j] /\ n > Max
      /\ \A i \in n - Max .. n - 1 : asked[j][i + 1] < asked[j][i] + Window
  BY DEF LimitInv, TypeOK, RefusedIsBusy
<1>2. \A i \in DOMAIN asked[j] : i \in DOMAIN asked'[j] /\ asked'[j][i] = asked[j][i]
  <2>1. CASE j = k
    <3>1. clock \in Nat /\ asked'[j] = Append(asked[j], clock)
      BY <2>1, CountedFacts DEF LimitInv, TypeOK
    <3>2. QED
      BY <1>1, <3>1
  <2>2. CASE j # k
    BY <2>2, CountedFacts
  <2>3. QED
    BY <2>1, <2>2
<1>3. \A i \in n - Max .. n - 1 : i \in DOMAIN asked[j] /\ i + 1 \in DOMAIN asked[j]
  <2>1. DOMAIN asked[j] = 1 .. Len(asked[j]) /\ Len(asked[j]) \in Nat
    BY <1>1
  <2>2. n \in Nat /\ n <= Len(asked[j]) /\ Max \in Nat
    BY <1>1, <2>1, LimitAssumption
  <2>3. QED
    BY <1>1, <2>1, <2>2
<1>4. QED
  BY <1>1, <1>2, <1>3

\* A counted request that is not let through leaves the admissions covered
LEMMA AdmissionsKept ==
  ASSUME LimitInv, NEW k \in Keys, Counted(k), UNCHANGED <<clock, admitted>>
  PROVE  AdmittedInv' /\ WindowBound'
<1>1. WindowBound'
  BY DEF LimitInv, WindowBound
<1> SUFFICES ASSUME NEW j \in Keys, NEW i \in DOMAIN admitted[j]
             PROVE  /\ admitted[j][i] + Window <= expires'[j]
                    /\ \/ Live(j)' /\ i + count'[j] > Len(admitted[j])
                       \/ admitted[j][i] + Window <= clock
  BY <1>1 DEF AdmittedInv
<1>2. CASE j # k
  BY <1>2, CountedFacts DEF LimitInv, AdmittedInv, Live
<1>3. CASE j = k
  <2>1. /\ admitted[j] \in Seq(Nat) /\ admitted[j][i] \in Nat /\ clock \in Nat
        /\ expires[k] \in Nat /\ count[k] \in Nat /\ Len(admitted[j]) \in Nat /\ i \in Nat
    BY DEF LimitInv, TypeOK
  <2>2. count'[j] = Incr(k) /\ expires'[j] = clock + Window /\ Window \in Nat \ {0}
    BY <1>3, CountedFacts, LimitAssumption
  <2>3. /\ admitted[j][i] + Window <= expires[k]
        /\ \/ Live(k) /\ i + count[k] > Len(admitted[j])
           \/ admitted[j][i] + Window <= clock
    BY <1>3 DEF LimitInv, AdmittedInv
  <2>4. Live(j)' /\ Live(k) = (clock < expires[k])
    BY <2>1, <2>2 DEF Live
  <2>5. admitted[j][i] + Window <= expires'[j]
    <3>1. expires[k] <= clock + Window
      BY DEF LimitInv, AskedInv
    <3>2. QED
      BY <2>1, <2>2, <2>3, <3>1
  <2>6. CASE Live(k) /\ i + count[k] > Len(admitted[j])
    <3>1. i + count'[j] > Len(admitted[j])
      BY <2>1, <2>2, <2>6 DEF Incr
    <3>2. QED
      BY <2>4, <2>5, <3>1
  <2>7. CASE admitted[j][i] + Window <= clock
    BY <2>5, <2>7
  <2>8. QED
    BY <2>3, <2>6, <2>7
<1>4. QED
  BY <1>2, <1>3

\* A request let through is covered by its own count, and comes a window after
\* the one Max admissions before it
LEMMA AdmitBound ==
  ASSUME LimitInv, NEW k \in Keys, Admit(k)
  PROVE  AdmittedInv' /\ WindowBound'
<1> DEFINE d == admitted[k]
           n == Len(d)
<1>1. /\ d \in Seq(Nat) /\ n \in Nat /\ clock \in Nat /\ clock' = clock
      /\ expires[k] \in Nat /\ count[k] \in Nat /\ Incr(k) <= Max
      /\ Max \in Nat \ {0} /\ Window \in Nat \ {0}
  BY LimitAssumption DEF LimitInv, TypeOK, Admit
<1>2. /\ admitted'[k] = Append(d, clock)
      /\ \A j \in Keys \ {k} : admitted'[j] = admitted[j]
  BY DEF LimitInv, TypeOK, Admit
<1>3. /\ count'[k] = Incr(k) /\ Incr(k) \in Nat \ {0} /\ expires'[k] = clock + Window
      /\ \A j \in Keys \ {k} : count'[j] = count[j] /\ expires'[j] = expires[j]
  BY CountedFacts DEF Admit
<1>4. Len(admitted'[k]) = n + 1 /\ DOMAIN admitted'[k] = 1 .. n + 1 /\ DOMAIN d = 1 .. n
      /\ admitted'[k][n + 1] = clock /\ \A i \in 1 .. n : admitted'[k][i] = d[i]
  BY <1>1, <1>2
<1>5. \A i \in 1 .. n : /\ d[i] \in Nat /\ d[i] + Window <= clock + Window
                        /\ \/ Live(k) /\ i + count[k] > n
                           \/ d[i] + Window <= clock
  <2>1. expires[k] <= clock + Window
    BY DEF LimitInv, AskedInv
  <2>2. \A i \in 1 .. n : d[i] \in Nat /\ d[i] + Window <= expires[k]
    BY <1>1 DEF LimitInv, AdmittedInv
  <2>3. QED
    BY <1>1, <2>1, <2>2 DEF LimitInv, AdmittedInv
<1>6. AdmittedInv'
  <2> SUFFICES ASSUME NEW j \in Keys, NEW i \in DOMAIN admitted'[j]
               PROVE  /\ admitted'[j][i] + Window <= expires'[j]
                      /\ \/ Live(j)' /\ i + count'[j] > Len(admitted'[j])
                         \/ admitted'[j][i] + Window <= clock'
    BY DEF AdmittedInv
  <2>1. CASE j # k
    BY <1>1, <1>2, <1>3, <2>1 DEF LimitInv, AdmittedInv, Live
  <2>2. CASE j = k /\ i = n + 1
    BY <1>1, <1>3, <1>4, <2>2 DEF Live
  <2>3. CASE j = k /\ i \in 1 .. n
    <3>1. /\ admitted'[j][i] = d[i] /\ d[i] \in Nat /\ count'[j] = Incr(k)
          /\ expires'[j] = clock + Window /\ Len(admitted'[j]) = n + 1
          /\ \/ Live(k) /\ i + count[k] > n
             \/ d[i] + Window <= clock
          /\ d[i] + Window <= clock + Window
      BY <1>3, <1>4, <1>5, <2>3
    <3>2. Live(j)' /\ Live(k) = (clock < expires[k])
      BY <1>1, <3>1 DEF Live
    <3>3. i \in Nat
      BY <2>3
    <3>4. CASE Live(k) /\ i + count[k] > n
      <4>1. i + Incr(k) > n + 1
        BY <1>1, <3>3, <3>4 DEF Incr
      <4>2. QED
        BY <3>1, <3>2, <4>1
    <3>5. CASE d[i] + Window <= clock
      BY <1>1, <3>1, <3>5
    <3>6. QED
      BY <3>1, <3>4, <3>5
  <2>4. QED
    BY <1>1, <1>4, <2>1, <2>2, <2>3
<1>7. WindowBound'
  <2> SUFFICES ASSUME NEW j \in Keys, NEW i \in DOMAIN admitted'[j],
                      i + Max \in DOMAIN admitted'[j]
               PROVE  admitted'[j][i] + Window <= admitted'[j][i + Max]
    BY DEF WindowBound
  <2>1. CASE j # k
    BY <1>2, <2>1 DEF LimitInv, WindowBound
  <2>2. CASE j = k /\ i + Max = n + 1
    <3>1. i \in 1 .. n
      <4>1. i \in 1 .. n + 1
        BY <1>4, <2>2
      <4>2. QED
        BY <1>1, <2>2, <4>1
    <3>2. d[i] + Window <= clock
      <4>1. Live(k) => ~(i + count[k] > n)
        BY <1>1, <2>2, <3>1 DEF Incr
      <4>2. QED
        BY <1>5, <3>1, <4>1
    <3>3. QED
      BY <1>4, <2>2, <3>1, <3>2
  <2>3. CASE j = k /\ i + Max \in 1 .. n
    <3>1. i \in 1 .. n
      <4>1. i \in 1 .. n + 1
        BY <1>4, <2>3
      <4>2. QED
        BY <1>1, <2>3, <4>1
    <3>2. d[i] + Window <= d[i + Max]
      BY <1>4, <2>3, <3>1 DEF LimitInv, WindowBound
    <3>3. QED
      BY <1>4, <2>3, <3>1, <3>2
  <2>4. j = k => i + Max \in 1 .. n + 1
    BY <1>4
  <2>5. j = k => i + Max = n + 1 \/ i + Max \in 1 .. n
    <3> DEFINE m == i + Max
    <3>1. m \in 1 .. n + 1 => m = n + 1 \/ m \in 1 .. n
      BY <1>1
    <3>2. QED
      BY <2>4, <3>1
  <2>6. QED
    BY <2>1, <2>2, <2>3, <2>5
<1>8. QED
  BY <1>6, <1>7

LEMMA TypeKept ==
  ASSUME LimitInv, Next
  PROVE  TypeOK'
<1>1. CASE Tick
  BY <1>1 DEF Tick, LimitInv, TypeOK
<1>2. ASSUME NEW k \in Keys, Admit(k)
      PROVE  TypeOK'
  <2>1. Append(admitted[k], clock) \in Seq(Nat)
    BY KeyTypes
  <2>2. admitted' \in [Keys -> Seq(Nat)]
    BY <1>2, <2>1 DEF LimitInv, TypeOK, Admit
  <2>3. Counted(k) /\ clock' \in Nat /\ refused' \in [Keys -> SUBSET Nat]
    BY <1>2 DEF LimitInv, TypeOK, Admit
  <2>4. QED
    BY <2>2, <2>3, CountedFacts DEF TypeOK
<1>3. ASSUME NEW k \in Keys, Refuse(k)
      PROVE  TypeOK'
  <2>1. Counted(k)
    BY <1>3 DEF Refuse
  <2>2. Len(asked'[k]) \in Nat
    BY <2>1, CountedFacts DEF LimitInv, TypeOK
  <2>3. refused' \in [Keys -> SUBSET Nat]
    BY <1>3, <2>2 DEF LimitInv, TypeOK, Refuse
  <2>4. QED
    BY <1>3, <2>1, <2>3, CountedFacts DEF LimitInv, TypeOK, Refuse
<1>4. ASSUME NEW k \in Keys, LoseAnswer(k)
      PROVE  TypeOK'
  BY <1>4, CountedFacts DEF LimitInv, TypeOK, LoseAnswer
<1>5. QED
  BY <1>1, <1>2, <1>3, <1>4 DEF Next

Recorded == \A k \in Keys : refused[k] \subseteq DOMAIN asked[k]

\* A refused request is the last of a run of more than Max requests
LEMMA RefuseJustified ==
  ASSUME LimitInv, NEW k \in Keys, Refuse(k)
  PROVE  RefusedIsBusy' /\ Recorded'
<1> DEFINE last == Len(asked'[k])
<1>1. Counted(k) /\ clock' = clock
  BY DEF Refuse
<1>2. /\ asked'[k] \in Seq(Nat) /\ last \in Nat /\ last \in DOMAIN asked'[k]
      /\ DOMAIN asked'[k] = 1 .. last /\ Max \in Nat \ {0} /\ Window \in Nat \ {0}
      /\ clock \in Nat /\ count'[k] = Incr(k) /\ Incr(k) \in Nat /\ Incr(k) > Max
      /\ expires'[k] = clock + Window
  BY <1>1, CountedFacts, LimitAssumption DEF LimitInv, TypeOK, Refuse
<1>3. RunOfRequests(k)'
  <2>1. Live(k)'
    BY <1>1, <1>2 DEF Live
  <2>2. QED
    BY <1>1, <2>1, AskedKept DEF AskedInv
<1>4. last > Max
  BY <1>2, <1>3 DEF RunOfRequests
<1>5. \A i \in last - Max .. last - 1 : asked'[k][i + 1] < asked'[k][i] + Window
  <2> SUFFICES ASSUME NEW i \in last - Max .. last - 1
               PROVE  asked'[k][i + 1] < asked'[k][i] + Window
    OBVIOUS
  <2>1. i \in DOMAIN asked'[k] /\ i < last /\ i + count'[k] > last
    BY <1>2, <1>4
  <2>2. QED
    BY <1>3, <2>1 DEF RunOfRequests
<1>6. ASSUME NEW j \in Keys, NEW n \in refused'[j]
      PROVE  /\ n \in DOMAIN asked'[j] /\ n > Max
             /\ \A i \in n - Max .. n - 1 : asked'[j][i + 1] < asked'[j][i] + Window
  <2>1. n \in refused[j] \/ (j = k /\ n = last)
    <3>1. CASE j = k
      <4>1. refused'[k] = refused[k] \cup {last}
        BY DEF Refuse, LimitInv, TypeOK
      <4>2. QED
        BY <1>6, <3>1, <4>1
    <3>2. CASE j # k
      <4>1. refused'[j] = refused[j]
        BY <3>2 DEF Refuse, LimitInv, TypeOK
      <4>2. QED
        BY <1>6, <4>1
    <3>3. QED
      BY <3>1, <3>2
  <2>2. CASE n \in refused[j]
    BY <1>1, <2>2, RefusalsKept
  <2>3. CASE j = k /\ n = last
    BY <1>2, <1>4, <1>5, <2>3
  <2>4. QED
    BY <2>1, <2>2, <2>3
<1>7. QED
  BY <1>6 DEF RefusedIsBusy, Recorded

\* The other requests add no refusal
LEMMA NotRefused ==
  ASSUME LimitInv, NEW k \in Keys, Counted(k), UNCHANGED refused
  PROVE  RefusedIsBusy' /\ Recorded'
BY RefusalsKept DEF RefusedIsBusy, Recorded

\* Time passing ends windows, and so covers fewer admissions
LEMMA TickKept ==
  ASSUME LimitInv, Tick
  PROVE  AdmittedInv' /\ AskedInv'
<1>1. /\ clock \in Nat /\ clock' = clock + 1 /\ Window \in Nat /\ count' = count
      /\ expires' = expires /\ asked' = asked /\ admitted' = admitted
  BY LimitAssumption DEF Tick, LimitInv, TypeOK
<1>2. AdmittedInv'
  <2> SUFFICES ASSUME NEW k \in Keys, NEW i \in DOMAIN admitted[k]
               PROVE  /\ admitted[k][i] + Window <= expires[k]
                      /\ \/ Live(k)' /\ i + count[k] > Len(admitted[k])
                         \/ admitted[k][i] + Window <= clock + 1
    BY <1>1 DEF AdmittedInv
  <2>1. admitted[k][i] \in Nat /\ expires[k] \in Nat
    BY DEF LimitInv, TypeOK
  <2>2. /\ admitted[k][i] + Window <= expires[k]
        /\ \/ Live(k) /\ i + count[k] > Len(admitted[k])
           \/ admitted[k][i] + Window <= clock
    BY DEF LimitInv, AdmittedInv
  <2>3. QED
    BY <1>1, <2>1, <2>2 DEF Live
<1>3. AskedInv'
  <2> SUFFICES ASSUME NEW k \in Keys
               PROVE  expires[k] <= clock + 1 + Window /\ (Live(k)' => RunOfRequests(k)')
    BY <1>1 DEF AskedInv
  <2>1. expires[k] \in Nat /\ expires[k] <= clock + Window
    BY DEF LimitInv, TypeOK, AskedInv
  <2>2. Live(k)' => Live(k)
    BY <1>1, <2>1 DEF Live
  <2>3. RunOfRequests(k) => RunOfRequests(k)'
    BY <1>1 DEF RunOfRequests
  <2>4. QED
    BY <1>1, <2>1, <2>2, <2>3 DEF LimitInv, AskedInv
<1>4. QED
  BY <1>2, <1>3

LEMMA InitInv == Init => LimitInv
<1> SUFFICES ASSUME Init PROVE LimitInv
  OBVIOUS
<1>1. TypeOK
  BY DEF Init, TypeOK
<1>2. AdmittedInv /\ WindowBound
  BY DEF Init, AdmittedInv, WindowBound
<1>3. AskedInv
  <2> SUFFICES ASSUME NEW k \in Keys
               PROVE  expires[k] <= clock + Window /\ ~Live(k)
    BY DEF AskedInv
  <2>1. expires[k] = 0 /\ clock = 0
    BY DEF Init
  <2>2. QED
    BY <2>1, LimitAssumption DEF Live
<1>4. RefusedIsBusy /\ Recorded
  BY DEF Init, RefusedIsBusy, Recorded
<1>5. QED
  BY <1>1, <1>2, <1>3, <1>4 DEF LimitInv, Recorded

LEMMA NextInv == LimitInv /\ [Next]_vars => LimitInv'
<1> SUFFICES ASSUME LimitInv, [Next]_vars PROVE LimitInv'
  OBVIOUS
<1> USE DEF Recorded
<1>1. CASE Tick
  <2>1. TypeOK'
    BY <1>1, TypeKept DEF Next
  <2>2. WindowBound' /\ RefusedIsBusy' /\ Recorded'
    BY <1>1 DEF Tick, LimitInv, WindowBound, RefusedIsBusy
  <2>3. QED
    BY <1>1, <2>1, <2>2, TickKept DEF LimitInv
<1>2. ASSUME NEW k \in Keys, Admit(k)
      PROVE  LimitInv'
  <2>1. Counted(k) /\ clock' = clock /\ UNCHANGED refused /\ Next
    BY <1>2 DEF Admit, Next
  <2>2. QED
    BY <1>2, <2>1, TypeKept, AskedKept, AdmitBound, NotRefused DEF LimitInv
<1>3. ASSUME NEW k \in Keys, Refuse(k)
      PROVE  LimitInv'
  <2>1. Counted(k) /\ UNCHANGED <<clock, admitted>> /\ Next
    BY <1>3 DEF Refuse, Next
  <2>2. QED
    BY <1>3, <2>1, TypeKept, AskedKept, AdmissionsKept, RefuseJustified DEF LimitInv
<1>4. ASSUME NEW k \in Keys, LoseAnswer(k)
      PROVE  LimitInv'
  <2>1. Counted(k) /\ UNCHANGED <<clock, admitted>> /\ UNCHANGED refused /\ Next
    BY <1>4 DEF LoseAnswer, Next
  <2>2. QED
    BY <1>4, <2>1, TypeKept, AskedKept, AdmissionsKept, NotRefused DEF LimitInv
<1>5. CASE UNCHANGED vars
  BY <1>5 DEF vars, LimitInv, TypeOK, AdmittedInv, AskedInv, RunOfRequests, Live,
             WindowBound, RefusedIsBusy
<1>6. QED
  BY <1>1, <1>2, <1>3, <1>4, <1>5 DEF Next

------------------------------------------------------------------------------
\* The counter and the expiry Redis keeps cover every admission and every refusal
\* of a key, after any history of requests, lost answers and expired keys
THEOREM LimitInvariant == Spec => []LimitInv
BY InitInv, NextInv, PTL DEF Spec

\* For any limit and window: no window of time sees more than Max requests of a
\* key let through on Redis's answer (rate_limit.go, INCR and EXPIRE in one MULTI)
THEOREM AdmissionsBounded == Spec => []WindowBound
<1>1. LimitInv => WindowBound
  BY DEF LimitInv
<1>2. QED
  BY <1>1, LimitInvariant, PTL

\* For any limit and window: only a client that was never silent for a window
\* over its last Max requests gets 429
THEOREM OnlyBusyRefused == Spec => []RefusedIsBusy
<1>1. LimitInv => RefusedIsBusy
  BY DEF LimitInv
<1>2. QED
  BY <1>1, LimitInvariant, PTL
==============================================================================
