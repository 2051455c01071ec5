------------------------- MODULE TokenBucketProofs --------------------------
(***************************************************************************)
(* The rate limit of RedisRateLimiter.cs holds for every capacity, token   *)
(* size, number of workers, delay and difference of clocks: BucketInv is   *)
(* inductive, and it implies WindowBound and, with SentInv, SendBound.      *)
(***************************************************************************)
EXTENDS TokenBucket, FiniteSetTheorems, TLAPS

(* What the Lua script does to the bucket and to the window, for a time    *)
(* read a ticks ago on any worker's clock.                                 *)
LEMMA ScriptStep ==
    ASSUME BucketInv, NEW w \in Workers, NEW a \in 0..MaxDelay, Script(w, a)
    PROVE  /\ stored' = TRUE /\ idle' = 0 /\ tokens' \in 0..Capacity
           /\ age' \in Int /\ age' >= -MaxSkew /\ spent' \in Nat
           /\ span = none => spent' = 0
           /\ spent' > 0 => spent' + tokens' + age' + MaxSkew <= Capacity + span + Slack
<1> USE BucketAssumption, ClockAssumption
<1>1. /\ stored \in BOOLEAN /\ tokens \in 0..Capacity /\ age \in Int /\ idle \in Nat
      /\ span \in none..Window /\ spent \in Nat /\ Skew[w] \in -MaxSkew..MaxSkew
      /\ stored => age >= -MaxSkew
      /\ span = none => spent = 0
      /\ spent > 0 => IF stored THEN spent + tokens + age + MaxSkew <= Capacity + span + Slack
                                ELSE spent <= span
  BY DEF BucketInv, TypeOK
<1>2. CASE ~stored
  <2>1. Filled(w, a) = Capacity /\ RefillTime(w, a) = a - Skew[w] /\ Acquires(w, a)
    BY <1>2 DEF Filled, RefillTime, Acquires
  <2> QED BY <1>1, <1>2, <2>1 DEF Script, Slack, none
<1>3. CASE stored /\ Elapsed(w, a) = 0
  <2>1. Filled(w, a) = tokens /\ RefillTime(w, a) = age
    BY <1>1, <1>3 DEF Filled, RefillTime, AtMost
  <2>2. age <= a - Skew[w]
    BY <1>1, <1>3 DEF Elapsed
  <2> QED BY <1>1, <1>3, <2>1, <2>2 DEF Script, Acquires, Slack, none
<1>4. CASE stored /\ Elapsed(w, a) # 0
  <2>1. Elapsed(w, a) = age - a + Skew[w] /\ Elapsed(w, a) > 0
    BY <1>1, <1>4 DEF Elapsed
  <2>2. /\ Filled(w, a) \in 0..Capacity
        /\ Filled(w, a) <= tokens + (age - a + Skew[w])
        /\ RefillTime(w, a) = a - Skew[w]
    BY <1>1, <1>4, <2>1 DEF Filled, RefillTime, AtMost
  <2> QED BY <1>1, <1>4, <2>2 DEF Script, Acquires, Slack, none
<1> QED BY <1>2, <1>3, <1>4

(* BucketInv holds initially and is kept by every step. *)
LEMMA BucketInductive ==
    /\ Init => BucketInv
    /\ BucketInv /\ [Next]_vars => BucketInv'
<1> USE BucketAssumption, ClockAssumption
<1>1. ASSUME Init PROVE BucketInv
  <2>1. none \in none..MaxDelay /\ none \in none..Window /\ 0 \in 0..Capacity /\ 0 \in 0..MaxDelay
    BY DEF none
  <2>2. /\ late \in [Workers -> none..MaxDelay] /\ asked \in [Workers -> 0..MaxDelay]
        /\ pc \in [Workers -> {"idle", "wait", "asking", "granted"}]
    BY <1>1, <2>1 DEF Init
  <2>3. /\ stored \in BOOLEAN /\ tokens \in 0..Capacity /\ age \in Int /\ idle \in Nat
        /\ span \in none..Window /\ spent \in Nat /\ sent \in Nat /\ faults \in Nat
    <3>1. /\ stored = FALSE /\ tokens = 0 /\ age = 0 /\ idle = 0
          /\ span = none /\ spent = 0 /\ sent = 0 /\ faults = 0
      BY <1>1 DEF Init
    <3>2. stored \in BOOLEAN
      BY <3>1
    <3>3. /\ tokens \in 0..Capacity /\ age \in Int /\ idle \in Nat
          /\ spent \in Nat /\ sent \in Nat /\ faults \in Nat
      BY <2>1, <3>1
    <3>4. span \in none..Window
      BY <2>1, <3>1
    <3> QED BY <3>2, <3>3, <3>4
  <2>4. TypeOK
    BY <2>2, <2>3 DEF TypeOK
  <2> QED BY <1>1, <2>4 DEF Init, BucketInv, none
<1>2. SUFFICES ASSUME BucketInv, [Next]_vars PROVE BucketInv'
  BY <1>1
<1>3. ASSUME NEW w \in Workers, Begin(w) PROVE BucketInv'
  BY <1>2, <1>3 DEF Begin, BucketInv, TypeOK, bucket, window, Slack
<1>4. ASSUME NEW w \in Workers, Ask(w) PROVE BucketInv'
  BY <1>2, <1>4 DEF Ask, BucketInv, TypeOK, bucket, window, Slack
<1>5. ASSUME NEW w \in Workers, Evaluate(w) PROVE BucketInv'
  <2>1. asked[w] \in 0..MaxDelay /\ Script(w, asked[w])
    BY <1>2, <1>5 DEF Evaluate, BucketInv, TypeOK
  <2>2. /\ stored' = TRUE /\ idle' = 0 /\ tokens' \in 0..Capacity
        /\ age' \in Int /\ age' >= -MaxSkew /\ spent' \in Nat
        /\ span = none => spent' = 0
        /\ spent' > 0 => spent' + tokens' + age' + MaxSkew <= Capacity + span + Slack
    BY <1>2, <2>1, ScriptStep
  <2>3. TypeOK'
    BY <1>2, <1>5, <2>2 DEF Evaluate, BucketInv, TypeOK
  <2> QED BY <1>2, <1>5, <2>2, <2>3 DEF Evaluate, BucketInv, Slack
<1>6. ASSUME NEW w \in Workers, EvaluateLate(w) PROVE BucketInv'
  <2>1. late[w] \in 0..MaxDelay /\ Script(w, late[w])
    BY <1>2, <1>6 DEF EvaluateLate, BucketInv, TypeOK, none
  <2>2. /\ stored' = TRUE /\ idle' = 0 /\ tokens' \in 0..Capacity
        /\ age' \in Int /\ age' >= -MaxSkew /\ spent' \in Nat
        /\ span = none => spent' = 0
        /\ spent' > 0 => spent' + tokens' + age' + MaxSkew <= Capacity + span + Slack
    BY <1>2, <2>1, ScriptStep
  <2>3. TypeOK'
    BY <1>2, <1>6, <2>2 DEF EvaluateLate, BucketInv, TypeOK, none
  <2> QED BY <1>2, <1>6, <2>2, <2>3 DEF EvaluateLate, BucketInv, Slack
<1>7. ASSUME NEW w \in Workers, CallFails(w) PROVE BucketInv'
  <2>1. TypeOK'
    BY <1>2, <1>7 DEF CallFails, BucketInv, TypeOK, bucket, window, none
  <2> QED BY <1>2, <1>7, <2>1 DEF CallFails, BucketInv, bucket, window, Slack
<1>8. ASSUME NEW w \in Workers, Send(w) PROVE BucketInv'
  BY <1>2, <1>8 DEF Send, BucketInv, TypeOK, bucket, Slack
<1>9. ASSUME Tick PROVE BucketInv'
  <2>1. TypeOK
    BY <1>2 DEF BucketInv
  <2>2. asked' \in [Workers -> 0..MaxDelay]
    BY <1>9, <2>1 DEF Tick, TypeOK
  <2>3. late' \in [Workers -> none..MaxDelay]
    BY <1>9, <2>1 DEF Tick, TypeOK, none
  <2>4. /\ span' \in none..Window /\ spent' \in Nat /\ sent' \in Nat
        /\ span' = none => spent' = 0
        /\ spent' > 0 => spent' = spent /\ span' = span + 1
    BY <1>2, <1>9, <2>1 DEF Tick, BucketInv, TypeOK, none
  <2>5. pc' = pc /\ faults' = faults
    BY <1>9 DEF Tick
  <2>6. CASE stored /\ idle + 1 < TTL
    <3>1. stored' /\ age' = age + 1 /\ idle' = idle + 1 /\ tokens' = tokens
      BY <1>9, <2>6 DEF Tick
    <3>2. TypeOK'
      BY <2>1, <2>2, <2>3, <2>4, <2>5, <2>6, <3>1 DEF TypeOK
    <3>3. spent' > 0 => spent' + tokens' + age' + MaxSkew <= Capacity + span' + Slack
      BY <1>2, <2>1, <2>4, <2>6, <3>1 DEF BucketInv, TypeOK, Slack, none
    <3>4. age' >= idle' - MaxSkew /\ idle' < TTL
      BY <1>2, <2>1, <2>6, <3>1 DEF BucketInv, TypeOK
    <3> QED BY <2>4, <3>1, <3>2, <3>3, <3>4 DEF BucketInv, Slack
  <2>7. CASE ~(stored /\ idle + 1 < TTL)
    <3>1. ~stored' /\ age' = 0 /\ idle' = 0 /\ tokens' = 0 /\ stored' \in BOOLEAN
      BY <1>9, <2>7 DEF Tick
    <3>2. TypeOK'
      BY <2>1, <2>2, <2>3, <2>4, <2>5, <3>1 DEF TypeOK
    <3>3. spent > 0 => spent <= span + 1
      BY <1>2, <2>1, <2>7, DelayAssumption DEF BucketInv, TypeOK, Slack, none
    <3> QED BY <2>4, <3>1, <3>2, <3>3 DEF BucketInv
  <2> QED BY <2>6, <2>7
<1>10. ASSUME Mark PROVE BucketInv'
  BY <1>2, <1>10 DEF Mark, BucketInv, TypeOK, bucket, client, none
<1>11. ASSUME UNCHANGED vars PROVE BucketInv'
  BY <1>2, <1>11 DEF BucketInv, TypeOK, vars, bucket, client, window, Slack
<1> QED BY <1>2, <1>3, <1>4, <1>5, <1>6, <1>7, <1>8, <1>9, <1>10, <1>11 DEF Next

(* BucketIsSound: every reachable bucket is within its capacity, and what  *)
(* has been spent and can still be spent is bounded (BucketInv).           *)
THEOREM BucketIsSound == Spec => []BucketInv
BY BucketInductive, PTL DEF Spec

(* WindowIsBounded: in every window of time the Lua script gives out no    *)
(* more than the capacity and the inflow, plus the slack of late calls and *)
(* differing clocks (WindowBound), for every value of the constants.       *)
THEOREM WindowIsBounded == Spec => []WindowBound
<1>1. BucketInv => WindowBound
  BY BucketAssumption, ClockAssumption DEF BucketInv, TypeOK, WindowBound, Slack, none
<1> QED BY <1>1, BucketIsSound, PTL

-----------------------------------------------------------------------------
(* What the provider gets. *)

Granted == {w \in Workers : pc[w] = "granted"}

(* Each request of the window, and each one about to be sent, was paid in  *)
(* the window or is of a worker that held its token before.                *)
SentInv ==
    span # none =>
      Token * (sent + Cardinality(Granted)) <= spent + Token * Cardinality(Workers)

LEMMA GrantedFinite ==
    /\ IsFiniteSet(Granted) /\ Cardinality(Granted) \in Nat /\ Cardinality(Workers) \in Nat
    /\ Cardinality(Granted) <= Cardinality(Workers)
<1>1. Granted \subseteq Workers
  BY DEF Granted
<1>2. QED BY <1>1, WorkersAssumption, FS_Subset, FS_CardinalityType

LEMMA TokenTimes ==
    /\ \A m, n \in Nat : m <= n => Token * m <= Token * n
    /\ \A m \in Nat : Token * (m + 1) = Token * m + Token
    /\ \A m \in Nat : Token * m \in Nat
BY BucketAssumption

LEMMA SentStep == TypeOK /\ TypeOK' /\ SentInv /\ [Next]_vars => SentInv'
<1> SUFFICES ASSUME TypeOK, TypeOK', SentInv, [Next]_vars PROVE SentInv'
  OBVIOUS
<1>0. Token \in Nat /\ sent \in Nat /\ spent \in Nat /\ spent' \in Nat
  BY BucketAssumption DEF TypeOK
<1>1. ASSUME UNCHANGED <<span, sent>>, Granted' = Granted, spent' >= spent PROVE SentInv'
  BY <1>0, <1>1, GrantedFinite, TokenTimes DEF SentInv
<1>2. ASSUME NEW w \in Workers, Begin(w) \/ Ask(w) \/ CallFails(w) PROVE SentInv'
  <2>1. Granted' = Granted
    BY <1>2 DEF Begin, Ask, CallFails, Granted, TypeOK
  <2>2. UNCHANGED window
    BY <1>2 DEF Begin, Ask, CallFails
  <2>3. QED BY <1>0, <1>1, <2>1, <2>2 DEF window
<1>3. ASSUME NEW w \in Workers, NEW a, Script(w, a)
      PROVE  /\ spent' >= spent
             /\ Acquires(w, a) /\ span # none => spent' = spent + Token
  BY <1>0, <1>3 DEF Script
<1>4. ASSUME NEW w \in Workers, EvaluateLate(w) PROVE SentInv'
  BY <1>1, <1>3, <1>4 DEF EvaluateLate, Granted
<1>5. ASSUME NEW w \in Workers, Evaluate(w) PROVE SentInv'
  <2>1. CASE ~Acquires(w, asked[w])
    <3>1. Granted' = Granted
      BY <1>5, <2>1 DEF Evaluate, Granted, TypeOK
    <3>2. QED BY <1>1, <1>3, <1>5, <3>1 DEF Evaluate
  <2>2. CASE Acquires(w, asked[w])
    <3>1. Granted' = Granted \cup {w} /\ w \notin Granted
      BY <1>5, <2>2 DEF Evaluate, Granted, TypeOK
    <3>2. Cardinality(Granted') = Cardinality(Granted) + 1
      BY <3>1, GrantedFinite, FS_AddElement
    <3>3. UNCHANGED <<span, sent>> /\ (span # none => spent' = spent + Token)
      BY <1>3, <1>5, <2>2 DEF Evaluate
    <3>4. Token * (sent + Cardinality(Granted) + 1) = Token * (sent + Cardinality(Granted)) + Token
      BY <1>0, GrantedFinite, TokenTimes
    <3>5. QED BY <1>0, <3>2, <3>3, <3>4, GrantedFinite, TokenTimes DEF SentInv
  <2>3. QED BY <2>1, <2>2
<1>6. ASSUME NEW w \in Workers, Send(w) PROVE SentInv'
  <2>1. Granted' = Granted \ {w} /\ w \in Granted
    BY <1>6 DEF Send, Granted, TypeOK
  <2>2. Cardinality(Granted') = Cardinality(Granted) - 1
    BY <2>1, GrantedFinite, FS_RemoveElement
  <2>3. UNCHANGED <<span, spent>> /\ (span # none => sent' = sent + 1)
    BY <1>6 DEF Send
  <2>4. span # none => sent' + Cardinality(Granted') = sent + Cardinality(Granted)
    BY <1>0, <2>2, <2>3, GrantedFinite
  <2>5. QED BY <2>3, <2>4 DEF SentInv
<1>7. CASE Tick \/ Mark
  <2>1. Granted' = Granted
    BY <1>7 DEF Tick, Mark, Granted, client
  <2>2. CASE UNCHANGED <<spent, sent>> /\ span # none
    BY <1>0, <2>1, <2>2 DEF SentInv
  <2>3. CASE sent' = 0 /\ spent' = 0
    BY <1>0, <2>1, <2>3, GrantedFinite, TokenTimes DEF SentInv
  <2>4. QED BY <1>7, <2>2, <2>3 DEF Tick, Mark
<1>8. CASE UNCHANGED vars
  BY <1>0, <1>1, <1>8 DEF vars, client, window, Granted
<1>9. QED BY <1>2, <1>4, <1>5, <1>6, <1>7, <1>8 DEF Next

(* SendingIsBounded: the requests the provider gets in a window are paid   *)
(* by the tokens given out in it, and one more for each worker that held   *)
(* one when it began (SendBound), for every value of the constants.        *)
THEOREM SendingIsBounded == Spec => []SendBound
<1>1. Init => SentInv
  BY DEF Init, SentInv
<1>2. TypeOK /\ SentInv /\ WindowBound => SendBound
  <2> SUFFICES ASSUME TypeOK, SentInv, WindowBound, span # none PROVE SendBound
    BY DEF SendBound
  <2>1. /\ sent \in Nat /\ spent \in Nat /\ span \in Nat /\ Capacity \in Nat /\ Slack \in Nat
    BY BucketAssumption, ClockAssumption DEF TypeOK, none, Slack
  <2>2. Token * sent <= Token * (sent + Cardinality(Granted))
    BY <2>1, GrantedFinite, TokenTimes
  <2>3. /\ Token * sent \in Nat /\ Token * Cardinality(Workers) \in Nat
        /\ Token * (sent + Cardinality(Granted)) \in Nat
    BY <2>1, GrantedFinite, TokenTimes
  <2>4. QED BY <2>1, <2>2, <2>3 DEF SentInv, WindowBound, SendBound
<1>3. BucketInv => TypeOK
  BY DEF BucketInv
<1>4. QED BY <1>1, <1>2, <1>3, SentStep, BucketIsSound, WindowIsBounded, PTL DEF Spec
=============================================================================
