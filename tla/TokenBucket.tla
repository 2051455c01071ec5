---------------------------- MODULE TokenBucket -----------------------------
(***************************************************************************)
(* One rate limit of RateLimiter/Services/RedisRateLimiter.cs: the bucket  *)
(* of one key in Redis and the workers that wait for its tokens.           *)
(*                                                                         *)
(* Time and tokens are counted so that one unit flows in per tick: a token *)
(* is Token units and a second is max_rps * Token ticks.  Times are kept   *)
(* relative to the real clock: the age of a stored time, or of an argument *)
(* on its way.                                                             *)
(***************************************************************************)
EXTENDS Integers, FiniteSets

CONSTANTS
    Workers,
    Token,      \* units of a token
    Capacity,   \* ResolveCapacity, in units
    TTL,        \* EXPIRE of the script, in ticks
    MaxSkew,    \* the clocks of the workers differ from the real one by at most this
    Skew,       \* ... and by exactly this
    MaxDelay,   \* bound: ticks from reading the clock to the run of the script
    Window,     \* bound: length of the observed window
    MaxFaults   \* bound: calls that fail or time out

(* ResolveCapacity is at least one token, and the script keeps a bucket for *)
(* twice the time in which it fills up.                                    *)
ASSUME BucketAssumption ==
    /\ Token \in Nat \ {0} /\ Capacity \in Nat /\ Capacity >= Token
    /\ TTL \in Nat /\ TTL >= 2 * Capacity
ASSUME ClockAssumption ==
    /\ MaxSkew \in Nat /\ Skew \in [Workers -> -MaxSkew..MaxSkew]
    /\ MaxDelay \in Nat /\ Window \in Nat /\ MaxFaults \in Nat
ASSUME WorkersAssumption == IsFiniteSet(Workers)
(* A delay and a difference of clocks are short against the time to fill.  *)
ASSUME DelayAssumption == MaxDelay + 2 * MaxSkew <= Capacity

VARIABLES
    stored,  \* the key exists
    tokens,  \* its tokens, in units
    age,     \* ticks since last_refill
    idle,    \* ticks since the script last ran
    pc,      \* where WaitAsync of a worker is
    asked,   \* age of the time a worker passed to the script
    late,    \* the same for a call the worker gave up, or none
    span,    \* ticks since the observed window began, or none
    spent,   \* units given out in the window
    sent,    \* requests to the provider in the window
    faults

none == -1
bucket == <<stored, tokens, age, idle>>
client == <<pc, asked, late>>
window == <<span, spent, sent>>
vars == <<bucket, client, window, faults>>

TypeOK ==
    /\ stored \in BOOLEAN /\ tokens \in 0..Capacity /\ age \in Int /\ idle \in Nat
    /\ pc \in [Workers -> {"idle", "wait", "asking", "granted"}]
    /\ asked \in [Workers -> 0..MaxDelay] /\ late \in [Workers -> none..MaxDelay]
    /\ span \in none..Window /\ spent \in Nat /\ sent \in Nat /\ faults \in Nat

Init ==
    /\ stored = FALSE /\ tokens = 0 /\ age = 0 /\ idle = 0
    /\ pc = [w \in Workers |-> "idle"] /\ asked = [w \in Workers |-> 0]
    /\ late = [w \in Workers |-> none]
    /\ span = none /\ spent = 0 /\ sent = 0 /\ faults = 0

-----------------------------------------------------------------------------
(* The Lua script, called by w with a time read a ticks ago. *)

AtMost(x, y) == IF x < y THEN x ELSE y

Elapsed(w, a) == IF stored /\ age - a + Skew[w] > 0 THEN age - a + Skew[w] ELSE 0

(* Mutant of Filled: the refill is not capped. *)
FilledUncapped(w, a) == IF stored THEN tokens + Elapsed(w, a) ELSE Capacity

Filled(w, a) == IF stored THEN AtMost(Capacity, tokens + Elapsed(w, a)) ELSE Capacity

Acquires(w, a) == Filled(w, a) >= Token

(* Mutant of RefillTime: last_refill also goes back to an earlier time. *)
RefillTimeBack(w, a) == a - Skew[w]

(* last_refill moves only when tokens flowed in, or the key is new. *)
RefillTime(w, a) == IF stored /\ Elapsed(w, a) = 0 THEN age ELSE a - Skew[w]

(* Mutant of Script: a refusal stores the time but not the refill. *)
ScriptDropsRefill(w, a) ==
    /\ stored' = TRUE /\ idle' = 0
    /\ age' = RefillTime(w, a)
    /\ tokens' = IF Acquires(w, a) THEN Filled(w, a) - Token ELSE tokens
    /\ spent' = IF Acquires(w, a) /\ span # none THEN spent + Token ELSE spent

Script(w, a) ==
    /\ stored' = TRUE /\ idle' = 0
    /\ age' = RefillTime(w, a)
    /\ tokens' = IF Acquires(w, a) THEN Filled(w, a) - Token ELSE Filled(w, a)
    /\ spent' = IF Acquires(w, a) /\ span # none THEN spent + Token ELSE spent

-----------------------------------------------------------------------------
(* WaitAsync and TryAcquireWithRedisAsync. *)

Begin(w) ==
    /\ pc[w] = "idle"
    /\ pc' = [pc EXCEPT ![w] = "wait"]
    /\ UNCHANGED <<bucket, asked, late, window, faults>>

(* The clock is read and the script sent; also after a wait. *)
Ask(w) ==
    /\ pc[w] = "wait"
    /\ pc' = [pc EXCEPT ![w] = "asking"] /\ asked' = [asked EXCEPT ![w] = 0]
    /\ UNCHANGED <<bucket, late, window, faults>>

(* Mutant of Evaluate: an answer without a wait time counts as acquired    *)
(* (Redis truncates the wait time to an integer).                          *)
AdmitOnZeroWait(w) ==
    /\ pc[w] = "asking"
    /\ Script(w, asked[w])
    /\ pc' = [pc EXCEPT ![w] = "granted"]
    /\ UNCHANGED <<asked, late, span, sent, faults>>

(* The script runs and its answer arrives.  A refusal waits: Redis truncates *)
(* wait_time to an integer, so the delay is 1 / max_rps whatever is missing. *)
Evaluate(w) ==
    /\ pc[w] = "asking"
    /\ Script(w, asked[w])
    /\ pc' = [pc EXCEPT ![w] = IF Acquires(w, asked[w]) THEN "granted" ELSE "wait"]
    /\ UNCHANGED <<asked, late, span, sent, faults>>

(* A connection error or the request timeout: null, so the caller waits    *)
(* and asks again.  The script it gave up may still run (one such call per *)
(* worker at a time, a bound).                                             *)
CallFails(w) ==
    /\ pc[w] = "asking" /\ faults < MaxFaults /\ late[w] = none
    /\ faults' = faults + 1
    /\ pc' = [pc EXCEPT ![w] = "wait"]
    /\ late' \in {late, [late EXCEPT ![w] = asked[w]]}
    /\ UNCHANGED <<bucket, asked, window>>

(* It takes a token nobody uses. *)
EvaluateLate(w) ==
    /\ late[w] # none
    /\ Script(w, late[w])
    /\ late' = [late EXCEPT ![w] = none]
    /\ UNCHANGED <<pc, asked, span, sent, faults>>

(* WaitAsync returned; the worker calls the provider, at any time later. *)
Send(w) ==
    /\ pc[w] = "granted"
    /\ pc' = [pc EXCEPT ![w] = "idle"]
    /\ sent' = IF span # none THEN sent + 1 ELSE sent
    /\ UNCHANGED <<bucket, asked, late, span, spent, faults>>

-----------------------------------------------------------------------------
(* Time (external).  A key that was idle for TTL ticks expires.            *)
Tick ==
    /\ \A w \in Workers : late[w] < MaxDelay /\ (pc[w] = "asking" => asked[w] < MaxDelay)
    /\ asked' = [w \in Workers |-> IF pc[w] = "asking" THEN asked[w] + 1 ELSE 0]
    /\ late' = [w \in Workers |-> IF late[w] = none THEN none ELSE late[w] + 1]
    /\ IF stored /\ idle + 1 < TTL
       THEN stored' = TRUE /\ age' = age + 1 /\ idle' = idle + 1 /\ UNCHANGED tokens
       ELSE stored' = FALSE /\ age' = 0 /\ idle' = 0 /\ tokens' = 0
    /\ IF span = none \/ span = Window
       THEN span' = none /\ spent' = 0 /\ sent' = 0
       ELSE span' = span + 1 /\ UNCHANGED <<spent, sent>>
    /\ UNCHANGED <<pc, faults>>

(* A window to look at begins. *)
Mark ==
    /\ span = none
    /\ span' = 0 /\ spent' = 0 /\ sent' = 0
    /\ UNCHANGED <<bucket, client, faults>>

Next ==
    \/ \E w \in Workers :
         Begin(w) \/ Ask(w) \/ Evaluate(w) \/ CallFails(w) \/ EvaluateLate(w) \/ Send(w)
    \/ Tick \/ Mark

Spec == Init /\ [][Next]_vars

-----------------------------------------------------------------------------
(* Properties. *)

Slack == MaxDelay + 2 * MaxSkew

(* WindowBound: in any window the script gives out at most the capacity    *)
(* and what flows in, plus the refill of the delays and clock differences: *)
(* times that arrive late or out of order, and a key that expires, never   *)
(* refill the same interval twice.                                         *)
WindowBound == span # none => spent <= Capacity + span + Slack

(* SendBound: the provider gets at most the requests of the window's tokens *)
(* and of the tokens the workers held when the window began.               *)
SendBound == span # none => Token * sent <= Capacity + span + Slack + Token * Cardinality(Workers)

(* Why WindowBound is inductive: tokens, and what can still flow in for    *)
(* the time that has passed, are bounded by what the window allows; a key  *)
(* expires only when it would be full.                                     *)
BucketInv ==
    /\ TypeOK
    /\ stored => age >= idle - MaxSkew /\ idle < TTL
    /\ span = none => spent = 0
    /\ spent > 0 => IF stored THEN spent + tokens + age + MaxSkew <= Capacity + span + Slack
                              ELSE spent <= span

-----------------------------------------------------------------------------
(* Fairness: time passes, the script runs and its answer arrives, a worker *)
(* asks again after its delay and sends what it was granted.               *)
Fairness ==
    /\ WF_vars(Tick)
    /\ \A w \in Workers :
         WF_vars(Ask(w)) /\ WF_vars(Evaluate(w)) /\ WF_vars(EvaluateLate(w)) /\ WF_vars(Send(w))

FairSpec == Spec /\ Fairness

(* GrantsContinue: while workers wait, tokens are granted again and again  *)
(* (to one of them: nothing is fair between the workers), whatever tokens  *)
(* late calls wasted and however far apart the clocks are.                 *)
GrantsContinue == \A w \in Workers : pc[w] = "wait" ~> \E v \in Workers : pc[v] = "granted"
=============================================================================
