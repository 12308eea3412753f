--------------------------- MODULE GatewayProofs ---------------------------
(***************************************************************************)
(* Proofs about Gateway: the rate limiter implements RateWindow, for every *)
(* rate, burst and sequence of attempts and pauses, and the token budget   *)
(* is charged no more than upstreams report, and no less where no gap is   *)
(* open.                                                                   *)
(***************************************************************************)
EXTENDS Gateway, TLAPS

\* What a window that starts at attempt i leaves at time t, after the attempts
\* granted so far.
Left(i, t) ==
  limit.burst + limit.rate * (t - granted[i]) - (Len(granted) - i + 1) * One

\* The bucket, at the time of the last attempt.
BucketTight ==
  /\ lastTime \in Int /\ lastTime <= now
  /\ tokens \in Int /\ tokens <= limit.burst
  /\ \A i \in 1 .. Len(granted) : tokens <= Left(i, lastTime)
  /\ tokens = limit.burst \/ \E i \in 1 .. Len(granted) : tokens = Left(i, lastTime)

LimitOK ==
  /\ limit \in [rate : Int, burst : Int]
  /\ limit # Unlimited => limit.rate > 0 /\ limit.burst > 0

(***************************************************************************)
(* The inductive invariant: a limit that is there is positive, and the     *)
(* bucket holds the least of the burst and of what each window leaves.     *)
(***************************************************************************)
LimiterInv ==
  /\ now \in Int
  /\ granted \in Seq(Int)
  /\ LimitOK
  /\ limit # Unlimited => BucketTight

\* Multiplication distributes over two consecutive spans of time.
LEMMA Spans ==
  ASSUME NEW r \in Int, NEW a \in Int, NEW b \in Int, NEW c \in Int
  PROVE  r * (a - c) = r * (b - c) + r * (a - b)
BY SMT

\* One more attempt costs One more.
LEMMA OneMore ==
  ASSUME NEW k \in Int
  PROVE  (k + 1) * One = k * One + One
BY RateAssumption, SMT

\* Time does not drain the bucket.
LEMMA NonNegative ==
  ASSUME NEW r \in Int, NEW d \in Int, r > 0, d >= 0
  PROVE  r * d \in Int /\ r * d >= 0
BY SMT

\* NewRateLimiter and ParseRateSpec make only positive limits.
LEMMA ParsedLimit ==
  ASSUME NEW s \in RateSpecs
  PROVE  LET l == ParseRateSpec(s).limit
         IN  /\ l \in [rate : Int, burst : Int]
             /\ l # Unlimited => l.rate > 0 /\ l.burst > 0
<1>1. s.count \in Int
  BY RateAssumption
<1>2. s.unit \in DOMAIN Period => s.count \div Period[s.unit] \in Int
  BY <1>1 DEF Period
<1>3. Unlimited = [rate |-> 0, burst |-> 0]
  BY DEF Unlimited
<1> QED
  BY <1>1, <1>2, <1>3
     DEF ParseRateSpec, Accepted, Rejected, NewRateLimiter

LEMMA LimiterInitially == Init => LimiterInv
<1> SUFFICES ASSUME Init PROVE LimiterInv
  OBVIOUS
<1>1. spec \in RateSpecs /\ limit = ParseRateSpec(spec).limit
  BY DEF Init, LimiterInit
<1>2. LimitOK
  BY <1>1, ParsedLimit DEF LimitOK
<1>3. now = 0 /\ granted = <<>> /\ tokens = limit.burst /\ lastTime = 0
  BY DEF Init, LimiterInit, Window!Init
<1> QED
  BY <1>2, <1>3 DEF LimiterInv, LimitOK, BucketTight

-----------------------------------------------------------------------------
(* The bucket now.                                                         *)

\* Allow's refill keeps the bucket tight.
LEMMA RefillTight ==
  ASSUME LimiterInv, limit # Unlimited
  PROVE  /\ Refilled \in Int /\ Refilled <= limit.burst
         /\ \A i \in 1 .. Len(granted) : Left(i, now) \in Int /\ Refilled <= Left(i, now)
         /\ \/ Refilled = limit.burst
            \/ \E i \in 1 .. Len(granted) : Refilled = Left(i, now)
<1> DEFINE gain == limit.rate * (now - lastTime)
<1>1. /\ limit.rate \in Int /\ limit.rate > 0 /\ limit.burst \in Int
      /\ now \in Int /\ lastTime \in Int /\ lastTime <= now /\ tokens \in Int
      /\ tokens <= limit.burst
  BY DEF LimiterInv, LimitOK, BucketTight
<1>2. gain \in Int /\ gain >= 0
  <2>1. now - lastTime \in Int /\ now - lastTime >= 0
    BY <1>1
  <2> QED
    BY <1>1, <2>1, NonNegative
<1>3. ASSUME NEW i \in 1 .. Len(granted)
      PROVE  /\ Left(i, lastTime) \in Int /\ Left(i, now) \in Int
             /\ Left(i, now) = Left(i, lastTime) + gain
  <2>1. granted[i] \in Int /\ i \in Int /\ Len(granted) \in Int
    BY DEF LimiterInv
  <2>2. limit.rate * (now - granted[i]) = limit.rate * (lastTime - granted[i]) + gain
    BY <1>1, <2>1, Spans
  <2>3. /\ limit.rate * (lastTime - granted[i]) \in Int
        /\ (Len(granted) - i + 1) * One \in Int
    BY <1>1, <2>1, RateAssumption
  <2> DEFINE before == limit.rate * (lastTime - granted[i])
             after == limit.rate * (now - granted[i])
             spent == (Len(granted) - i + 1) * One
  <2>4. /\ Left(i, lastTime) = limit.burst + before - spent
        /\ Left(i, now) = limit.burst + after - spent
    BY DEF Left
  <2>5. before \in Int /\ spent \in Int /\ gain \in Int /\ after = before + gain
    BY <1>2, <2>2, <2>3
  <2> HIDE DEF gain, before, after, spent
  <2> QED
    BY <1>1, <2>4, <2>5
<1>4. Refilled = Least(limit.burst, tokens + gain)
  BY DEF Refilled
<1>5. \/ Refilled = limit.burst /\ limit.burst <= tokens + gain
      \/ Refilled = tokens + gain /\ tokens + gain <= limit.burst
  <2> HIDE DEF gain
  <2> QED
    BY <1>1, <1>2, <1>4 DEF Least
<1>6. \A i \in 1 .. Len(granted) : tokens <= Left(i, lastTime)
  BY DEF LimiterInv, BucketTight
<1>7. tokens = limit.burst \/ \E i \in 1 .. Len(granted) : tokens = Left(i, lastTime)
  BY DEF LimiterInv, BucketTight
<1>8. Refilled \in Int /\ Refilled <= limit.burst /\ Refilled <= tokens + gain
  <2> HIDE DEF gain
  <2> QED
    BY <1>1, <1>2, <1>5
<1>9. ASSUME NEW i \in 1 .. Len(granted)
      PROVE  Left(i, now) \in Int /\ Refilled <= Left(i, now)
  <2> HIDE DEF gain
  <2> QED
    BY <1>1, <1>2, <1>3, <1>6, <1>8
<1>10. \/ Refilled = limit.burst
       \/ \E i \in 1 .. Len(granted) : Refilled = Left(i, now)
  <2>1. CASE tokens = limit.burst
    <3> HIDE DEF gain
    <3> QED
      BY <1>1, <1>2, <1>5, <2>1
  <2>2. CASE \E i \in 1 .. Len(granted) : tokens = Left(i, lastTime)
    <3>1. PICK i \in 1 .. Len(granted) : tokens = Left(i, lastTime)
      BY <2>2
    <3>2. tokens + gain = Left(i, now)
      BY <1>3, <3>1
    <3> HIDE DEF gain
    <3> QED
      BY <1>5, <3>2
  <2> QED
    BY <1>7, <2>1, <2>2
<1> QED
  BY <1>8, <1>9, <1>10

\* The bucket holds a token exactly if no window is full.
LEMMA AvailableFits ==
  ASSUME LimiterInv
  PROVE  Available <=> Window!Fits
<1>1. CASE limit = Unlimited
  BY <1>1 DEF Available, Window!Fits, Unlimited, Window!Unlimited
<1>2. CASE limit # Unlimited
  <2>1. limit.burst \in Int /\ One \in Int
    BY RateAssumption DEF LimiterInv, LimitOK
  <2>2. ASSUME NEW i \in 1 .. Len(granted)
        PROVE  Left(i, now) >= One
                 <=> (Len(granted) - i + 2) * One
                       <= limit.burst + limit.rate * (now - granted[i])
    <3>1. /\ granted[i] \in Int /\ Len(granted) - i + 1 \in Int
          /\ now \in Int /\ limit.rate \in Int
      BY DEF LimiterInv, LimitOK
    <3>2. Len(granted) - i + 2 = (Len(granted) - i + 1) + 1
      BY <3>1 DEF LimiterInv
    <3>3. (Len(granted) - i + 2) * One = (Len(granted) - i + 1) * One + One
      BY <3>1, <3>2, OneMore
    <3>4. (Len(granted) - i + 1) * One \in Int /\ limit.rate * (now - granted[i]) \in Int
      BY <2>1, <3>1
    <3> QED
      BY <2>1, <3>3, <3>4 DEF Left
  <2>3. DOMAIN granted = 1 .. Len(granted)
    BY DEF LimiterInv
  <2>4. Refilled >= One
          <=> /\ One <= limit.burst
              /\ \A i \in 1 .. Len(granted) : Left(i, now) >= One
    BY <1>2, <2>1, RefillTight
  <2> QED
    BY <1>2, <2>2, <2>3, <2>4 DEF Available, Window!Fits, Unlimited, Window!Unlimited
<1> QED
  BY <1>1, <1>2

LEMMA ExactBucket == LimiterInv => BucketExact
<1> SUFFICES ASSUME LimiterInv, limit # Unlimited PROVE BucketExact
  BY DEF BucketExact
<1>1. DOMAIN granted = 1 .. Len(granted)
  BY DEF LimiterInv
<1>2. limit.burst \in Int
  BY DEF LimiterInv, LimitOK
<1> QED
  BY <1>1, <1>2, RefillTight DEF BucketExact, Left

-----------------------------------------------------------------------------
(* Steps.                                                                  *)

\* A granted attempt leaves each window, and the burst, with One less.
LEMMA TakeKeeps ==
  ASSUME LimiterInv, Take, now' = now, limit' = limit
  PROVE  LimiterInv'
<1>1. /\ now \in Int /\ granted \in Seq(Int) /\ Len(granted) \in Nat
      /\ granted' = Append(granted, now)
  BY DEF LimiterInv, Take
<1>2. granted' \in Seq(Int) /\ Len(granted') = Len(granted) + 1
  BY <1>1
<1>3. LimitOK'
  BY DEF LimiterInv, LimitOK, Unlimited
<1>4. ASSUME limit # Unlimited PROVE BucketTight'
  <2>1. /\ limit.burst \in Int /\ limit.rate \in Int /\ One \in Int /\ One > 0
    BY RateAssumption DEF LimiterInv, LimitOK
  <2>2. tokens' = Refilled - One /\ lastTime' = now
    BY <1>4 DEF Take
  <2> DEFINE after(i) == limit.burst + limit.rate * (now - granted'[i])
                           - (Len(granted') - i + 1) * One
  <2>3. ASSUME NEW i \in 1 .. Len(granted)
        PROVE  after(i) = Left(i, now) - One
    <3>1. granted'[i] = granted[i] /\ granted[i] \in Int /\ i \in Int
      BY <1>1
    <3>2. Len(granted) - i + 1 \in Int
          /\ Len(granted') - i + 1 = (Len(granted) - i + 1) + 1
      BY <1>1, <1>2, <3>1
    <3>3. (Len(granted') - i + 1) * One = (Len(granted) - i + 1) * One + One
      BY <3>2, OneMore
    <3>4. (Len(granted) - i + 1) * One \in Int /\ limit.rate * (now - granted[i]) \in Int
      BY <1>1, <2>1, <3>1, <3>2
    <3> QED
      BY <2>1, <3>1, <3>3, <3>4 DEF Left
  <2>4. after(Len(granted) + 1) = limit.burst - One
    <3>1. granted'[Len(granted) + 1] = now
      BY <1>1
    <3>2. now - now = 0 /\ Len(granted') - (Len(granted) + 1) + 1 = 1
      BY <1>1, <1>2
    <3>3. limit.rate * 0 = 0 /\ 1 * One = One
      BY <2>1
    <3>4. after(Len(granted) + 1) = limit.burst + 0 - One
      BY <3>1, <3>2, <3>3
    <3> QED
      BY <2>1, <3>4
  <2>5. 1 .. Len(granted') = (1 .. Len(granted)) \cup {Len(granted) + 1}
    BY <1>1, <1>2
  <2> HIDE DEF after
  <2>r. /\ Refilled \in Int /\ Refilled <= limit.burst
        /\ \A i \in 1 .. Len(granted) : Left(i, now) \in Int /\ Refilled <= Left(i, now)
        /\ \/ Refilled = limit.burst
           \/ \E i \in 1 .. Len(granted) : Refilled = Left(i, now)
    BY <1>4, RefillTight
  <2>6. \A i \in 1 .. Len(granted') : tokens' <= after(i)
    <3>1. ASSUME NEW i \in 1 .. Len(granted) PROVE tokens' <= after(i)
      <4>1. Left(i, now) \in Int /\ Refilled <= Left(i, now)
        BY <2>r
      <4>2. after(i) = Left(i, now) - One
        BY <2>3
      <4> QED
        BY <2>1, <2>2, <2>r, <4>1, <4>2
    <3>2. tokens' <= after(Len(granted) + 1)
      BY <2>1, <2>2, <2>4, <2>r
    <3> QED
      BY <2>5, <3>1, <3>2
  <2>7. \E i \in 1 .. Len(granted') : tokens' = after(i)
    <3>1. CASE Refilled = limit.burst
      BY <2>2, <2>4, <2>5, <3>1
    <3>2. CASE \E i \in 1 .. Len(granted) : Refilled = Left(i, now)
      <4>1. PICK i \in 1 .. Len(granted) : Refilled = Left(i, now)
        BY <3>2
      <4>2. i \in 1 .. Len(granted') /\ tokens' = after(i)
        BY <2>2, <2>3, <2>5, <4>1
      <4> QED
        BY <4>2
    <3> QED
      BY <2>r, <3>1, <3>2
  <2>8. tokens' \in Int /\ tokens' <= limit.burst
    BY <1>4, <2>1, <2>2, RefillTight
  <2>9. \A i : Left(i, lastTime)' = after(i)
    BY <2>2 DEF Left, after
  <2> QED
    BY <1>1, <2>2, <2>6, <2>7, <2>8, <2>9 DEF BucketTight
<1> QED
  BY <1>1, <1>2, <1>3, <1>4 DEF LimiterInv, Unlimited

\* A refused one leaves them as they are, and the refill is not lost.
LEMMA RefuseKeeps ==
  ASSUME LimiterInv, Refuse, limit # Unlimited, now' = now, limit' = limit
  PROVE  LimiterInv'
<1>1. tokens' = Refilled /\ lastTime' = now /\ granted' = granted
  BY DEF Refuse
<1>2. LimitOK' /\ now' \in Int /\ granted' \in Seq(Int)
  BY <1>1 DEF LimiterInv, LimitOK, Unlimited
<1>3. \A i : Left(i, lastTime)' = Left(i, now)
  BY <1>1 DEF Left
<1>4. BucketTight'
  BY <1>1, <1>2, <1>3, RefillTight DEF BucketTight
<1> QED
  BY <1>2, <1>4 DEF LimiterInv

\* The limiter at rest: only the clock moves.
LEMMA RestKeeps ==
  ASSUME LimiterInv, UNCHANGED <<limit, granted, tokens, lastTime>>,
         now' \in Int, now' >= now
  PROVE  LimiterInv'
<1>1. LimitOK' /\ granted' \in Seq(Int)
  BY DEF LimiterInv, LimitOK, Unlimited
<1>2. \A i : Left(i, lastTime)' = Left(i, lastTime)
  BY DEF Left
<1>3. ASSUME limit # Unlimited PROVE BucketTight'
  BY <1>2, <1>3 DEF LimiterInv, BucketTight
<1> QED
  BY <1>1, <1>3 DEF LimiterInv, Unlimited

\* Allow, as RateWindow sees it.
LEMMA AllowStep ==
  ASSUME LimiterInv, NEW ok \in BOOLEAN, Allow(ok), now' = now
  PROVE  LimiterInv' /\ Window!Next
<1>1. limit' = limit /\ ok = Available
  BY DEF Allow
<1>2. CASE ok
  <2>1. Take
    BY <1>2 DEF Allow
  <2>2. Window!Fits
    BY <1>1, <1>2, AvailableFits
  <2>3. Window!Grant
    BY <1>1, <2>1, <2>2 DEF Take, Window!Grant
  <2> QED
    BY <1>1, <2>1, <2>3, TakeKeeps DEF Window!Next
<1>3. CASE ~ ok
  <2>1. Refuse
    BY <1>3 DEF Allow
  <2>2. ~ Window!Fits /\ limit # Unlimited
    BY <1>1, <1>3, AvailableFits DEF Available
  <2>3. Window!Deny
    BY <1>1, <2>1, <2>2 DEF Refuse, Window!Deny
  <2> QED
    BY <1>1, <2>1, <2>2, <2>3, RefuseKeeps DEF Window!Next
<1> QED
  BY <1>2, <1>3

WindowVars == <<limit, now, granted, denied>>

\* Every step of the engine, as RateWindow sees it.
LEMMA EngineStep ==
  ASSUME LimiterInv, [Next]_vars
  PROVE  LimiterInv' /\ [Window!Next]_WindowVars
<1>1. ASSUME NEW ok \in BOOLEAN, Allow(ok), UNCHANGED time
      PROVE  LimiterInv' /\ [Window!Next]_WindowVars
  BY <1>1, AllowStep DEF time
<1>2. ASSUME UNCHANGED <<limiterVars, time>>
      PROVE  LimiterInv' /\ [Window!Next]_WindowVars
  <2>1. UNCHANGED <<limit, granted, denied, tokens, lastTime, now>>
    BY <1>2 DEF limiterVars, time
  <2>2. now' \in Int /\ now' >= now
    BY <2>1 DEF LimiterInv
  <2> QED
    BY <2>1, <2>2, RestKeeps DEF WindowVars
<1>3. ASSUME NEW d \in Pauses, Pause(d)
      PROVE  LimiterInv' /\ [Window!Next]_WindowVars
  <2>1. UNCHANGED <<limit, granted, denied, tokens, lastTime>> /\ now' = now + d
    BY <1>3 DEF Pause, limiterVars
  <2>2. now' \in Int /\ now' > now
    BY <2>1, RateAssumption DEF LimiterInv
  <2>3. now' >= now
    BY <2>2 DEF LimiterInv
  <2>4. Window!TimePasses
    BY <2>1, <2>2 DEF Window!TimePasses
  <2> QED
    BY <2>1, <2>2, <2>3, <2>4, RestKeeps DEF Window!Next
<1>4. CASE Denied
  BY <1>1, <1>4 DEF Denied
<1>5. ASSUME NEW u, NEW form, NEW r, NEW delivered, Plain(u, form, r, delivered)
      PROVE  LimiterInv' /\ [Window!Next]_WindowVars
  BY <1>1, <1>5 DEF Plain, Admitted
<1>6. ASSUME NEW c, NEW t, Connect(c, t)
      PROVE  LimiterInv' /\ [Window!Next]_WindowVars
  BY <1>1, <1>6 DEF Connect, Admitted
<1>7. ASSUME NEW c, Handshake(c)
      PROVE  LimiterInv' /\ [Window!Next]_WindowVars
  BY <1>2, <1>7 DEF Handshake
<1>8. ASSUME NEW c, NEW u, NEW r, NEW delivered, Inner(c, u, r, delivered)
      PROVE  LimiterInv' /\ [Window!Next]_WindowVars
  BY <1>2, <1>8 DEF Inner
<1>9. ASSUME NEW c, Close(c)
      PROVE  LimiterInv' /\ [Window!Next]_WindowVars
  BY <1>2, <1>9 DEF Close
<1>10. CASE UNCHANGED vars
  BY <1>2, <1>10 DEF vars
<1> QED
  BY <1>3, <1>4, <1>5, <1>6, <1>7, <1>8, <1>9, <1>10 DEF Next

-----------------------------------------------------------------------------
(***************************************************************************)
(* The limiter implements RateWindow: whatever the rate, the burst and the *)
(* order of attempts and pauses, Allow grants exactly the attempts that    *)
(* keep every window within the burst and the rate.                        *)
(***************************************************************************)
THEOREM LimiterImplements == Spec => ImplementsWindow
<1>1. Init => LimiterInv /\ Window!Init
  BY LimiterInitially DEF Init, LimiterInit
<1>2. LimiterInv /\ [Next]_vars => LimiterInv' /\ [Window!Next]_WindowVars
  BY EngineStep
<1> QED
  BY <1>1, <1>2, PTL DEF Spec, ImplementsWindow, Window!Spec, WindowVars

(***************************************************************************)
(* The bucket always holds what the past leaves over.                      *)
(***************************************************************************)
THEOREM BucketStaysExact == Spec => []BucketExact
<1>1. LimiterInv /\ [Next]_vars => LimiterInv'
  BY EngineStep
<1> QED
  BY <1>1, LimiterInitially, ExactBucket, PTL DEF Spec

(***************************************************************************)
(* A limit that was asked for is never silently off, whatever the text.    *)
(***************************************************************************)
THEOREM LimitNeverSilent == Spec => []NoSilentUnlimited
<1>1. Init => NoSilentUnlimited
  <2> SUFFICES ASSUME Init, up, limit = Unlimited
               PROVE  spec.form = "empty"
    BY DEF NoSilentUnlimited
  <2>1. spec \in RateSpecs /\ ParseRateSpec(spec).ok
        /\ ParseRateSpec(spec).limit = Unlimited
    BY DEF Init, LimiterInit
  <2>2. spec.count \in Int
    BY <2>1, RateAssumption
  <2> QED
    BY <2>1, <2>2 DEF ParseRateSpec, Accepted, Rejected, NewRateLimiter, Period,
       Unlimited
<1>2. NoSilentUnlimited /\ [Next]_vars => NoSilentUnlimited'
  <2> SUFFICES ASSUME NoSilentUnlimited, [Next]_vars
               PROVE  NoSilentUnlimited'
    OBVIOUS
  <2>1. UNCHANGED <<spec, up, limit>>
    BY DEF Next, vars, limiterVars, Pause, Denied, Admitted, Allow, Plain, Connect,
       Handshake, Inner, Close
  <2> QED
    BY <2>1 DEF NoSilentUnlimited, Unlimited
<1> QED
  BY <1>1, <1>2, PTL DEF Spec

-----------------------------------------------------------------------------
(* Metering.                                                               *)

\* Anything an upstream may answer.
Responses == [status : {"ok", "error"}, json : BOOLEAN, names : Names,
              in : Nat, out : Nat, cache : Nat]

Usages == [Recognised : BOOLEAN, TokensIn : Nat, TokensOut : Nat]

\* The tokens of a response that stand where this endpoint's parser looks.
Visible(u, r) ==
  IF r.names # "none" /\ r.names = Endpoint(u) /\ (r.json \/ r.names = "headers")
  THEN r.in + r.out ELSE 0

\* The tokens of a response that llmparse found.
Found(usage) == IF usage.Recognised THEN usage.TokensIn + usage.TokensOut ELSE 0

\* The parser reads a response under the names its endpoint reports under.
LEMMA ParserReadsAll ==
  ASSUME NEW u \in URLs, NEW r \in Responses
  PROVE  ParseResponse(u, r) \in Usages /\ Found(ParseResponse(u, r)) = Visible(u, r)
<1> USE DEF Responses, Names, Usage, Usages, FromBody, Found, Visible
<1>1. CASE u.path = "/v1/chat/completions"
  <2>1. Endpoint(u) = "prompt_tokens" /\ ParseResponse(u, r) = FromBody("prompt_tokens", r)
    BY <1>1 DEF Endpoint, ParseResponse, Recognise, isBedrock, isVertex, URLs
  <2> QED
    BY <2>1
<1>2. CASE u.path \in {"/v1/responses", "/v1/messages"}
  <2>1. Endpoint(u) = "input_tokens" /\ ParseResponse(u, r) = FromBody("input_tokens", r)
    BY <1>2 DEF Endpoint, ParseResponse, Recognise, isBedrock, isVertex, URLs
  <2> QED
    BY <2>1
<1>3. CASE u.path = "/api/chat"
  <2>1. /\ Endpoint(u) = "prompt_eval_count"
        /\ ParseResponse(u, r) = FromBody("prompt_eval_count", r)
    BY <1>3 DEF Endpoint, ParseResponse, Recognise, isBedrock, isVertex, URLs
  <2> QED
    BY <2>1
<1>4. CASE isBedrock(u)
  <2>1. Endpoint(u) = "headers" /\ ParseResponse(u, r) = parseBedrock(r)
    BY <1>4 DEF Endpoint, ParseResponse, Recognise, isBedrock, isVertex, URLs
  <2> QED
    BY <2>1 DEF parseBedrock
<1>5. CASE isVertex(u)
  <2>1. Endpoint(u) = "promptTokenCount" /\ ParseResponse(u, r) = parseVertex(r)
    BY <1>5 DEF Endpoint, ParseResponse, Recognise, isBedrock, isVertex, URLs
  <2> QED
    BY <2>1 DEF parseVertex
<1>6. CASE ~ Recognise(u)
  <2>1. Endpoint(u) = "none" /\ ParseResponse(u, r) = Usage(FALSE, 0, 0)
    BY <1>6 DEF Endpoint, ParseResponse, Recognise, isBedrock, isVertex, URLs
  <2> QED
    BY <2>1
<1> QED
  BY <1>1, <1>2, <1>3, <1>4, <1>5, <1>6 DEF Recognise

LEMMA UnparsedTyped == Unparsed \in Usages /\ Found(Unparsed) = 0
BY DEF Unparsed, Usage, Usages, Found

LEMMA AnswersTyped ==
  ASSUME NEW u \in URLs, NEW r \in Answers(u)
  PROVE  r \in Responses
<1>1. Endpoint(u) \in Names /\ OwnNames(u) \subseteq Names
  BY DEF Endpoint, OwnNames, Names, URLs
<1>2. \A gap, extra : Where(gap, extra) \subseteq extra
  BY DEF Where
<1>3. Counts \subseteq Nat
  BY GatewayAssumption
<1>4. ({Endpoint(u)} \ {"none"}) \cup Where("names", OwnNames(u)) \subseteq Names
  BY <1>1, <1>2
<1>5. {"ok"} \cup Where("error", {"error"}) \subseteq {"ok", "error"}
  BY <1>2
<1>6. {TRUE} \cup Where("stream", {FALSE}) \subseteq BOOLEAN
  BY <1>2
<1>7. {0} \cup (IF u.path = "/v1/messages" THEN Counts ELSE {}) \subseteq Nat
  BY <1>3
<1> DEFINE statuses == {"ok"} \cup Where("error", {"error"})
           jsons == {TRUE} \cup Where("stream", {FALSE})
           names == ({Endpoint(u)} \ {"none"}) \cup Where("names", OwnNames(u))
           caches == {0} \cup (IF u.path = "/v1/messages" THEN Counts ELSE {})
<1>8. \/ r \in [status : statuses, json : jsons, names : names, in : Counts,
                out : Counts, cache : caches]
      \/ r \in [status : {"ok", "error"}, json : {FALSE}, names : {"none"},
                in : {0}, out : {0}, cache : {0}]
  BY DEF Answers
<1>9. /\ statuses \subseteq {"ok", "error"} /\ jsons \subseteq BOOLEAN
      /\ names \subseteq Names /\ caches \subseteq Nat
  BY <1>4, <1>5, <1>6, <1>7
<1> HIDE DEF statuses, jsons, names, caches
<1>10. CASE r \in [status : statuses, json : jsons, names : names, in : Counts,
                   out : Counts, cache : caches]
  BY <1>3, <1>9, <1>10 DEF Responses
<1>11. CASE r \in [status : {"ok", "error"}, json : {FALSE}, names : {"none"},
                   in : {0}, out : {0}, cache : {0}]
  <2>1. {"none"} \subseteq Names /\ {0} \subseteq Nat /\ {FALSE} \subseteq BOOLEAN
    BY DEF Names
  <2> QED
    BY <1>11, <2>1 DEF Responses
<1> QED
  BY <1>8, <1>10, <1>11

\* A step that a response arrives in, and what it is charged for.
Responds(r, usage) == Charge(usage) /\ Report(r)

\* Whatever is charged for stands in the response.
LEMMA ChargedFor ==
  ASSUME [Next]_vars
  PROVE  \/ UNCHANGED <<used, reported>>
         \/ \E r \in Responses, usage \in Usages :
              /\ Responds(r, usage)
              /\ Found(usage) <= r.in + r.out
              /\ Gaps = {} => Found(usage) = r.in + r.out
<1> DEFINE Goal == \E r \in Responses, usage \in Usages :
                     /\ Responds(r, usage)
                     /\ Found(usage) <= r.in + r.out
                     /\ Gaps = {} => Found(usage) = r.in + r.out
<1>v. ASSUME NEW u, NEW r \in Responses
      PROVE  Visible(u, r) <= r.in + r.out /\ 0 <= r.in + r.out
  BY <1>v DEF Visible, Responses
<1>g. ASSUME Gaps = {}, NEW u \in URLs, NEW r \in Answers(u), NEW form \in Forms,
             NEW delivered \in Deliveries
      PROVE  /\ Shown(u, form) = u /\ delivered
             /\ Visible(u, r) = r.in + r.out
             /\ r.status = "ok" \/ r.in + r.out = 0
             /\ Recognise(u) \/ r.in + r.out = 0
  <2>1. \A gap, extra : Where(gap, extra) = {}
    BY <1>g DEF Where
  <2>2. form = "absolute" /\ delivered
    BY <2>1 DEF Forms, Deliveries
  <2>3. \/ r \in [status : {"ok"}, json : {TRUE}, names : {Endpoint(u)} \ {"none"},
                  in : Counts, out : Counts,
                  cache : {0} \cup (IF u.path = "/v1/messages" THEN Counts ELSE {})]
        \/ r \in [status : {"ok", "error"}, json : {FALSE}, names : {"none"},
                  in : {0}, out : {0}, cache : {0}]
    BY <2>1 DEF Answers
  <2>4. \/ r.status = "ok" /\ r.json /\ r.names = Endpoint(u) /\ r.names # "none"
        \/ r.in = 0 /\ r.out = 0 /\ r.names = "none"
    BY <2>3
  <2>5. Recognise(u) \/ Endpoint(u) = "none"
    BY DEF Endpoint, Recognise, isBedrock, isVertex, URLs
  <2> QED
    BY <2>2, <2>4, <2>5 DEF Shown, Visible
<1>1. ASSUME NEW u \in Destinations, NEW form \in Forms, NEW delivered \in Deliveries,
             NEW r \in Answers(u), Plain(u, form, r, delivered)
      PROVE  Goal
  <2> DEFINE v == Shown(u, form)
             usage == IF delivered /\ r.status = "ok" /\ Recognise(v)
                      THEN ParseResponse(v, r) ELSE Unparsed
  <2>1. u \in URLs /\ v \in URLs
    BY DEF Destinations, Shown, URLs
  <2>2. r \in Responses
    BY <2>1, AnswersTyped
  <2>3. Responds(r, usage)
    BY <1>1 DEF Plain, Responds
  <2>4. Gaps = {} => /\ v = u /\ delivered /\ Visible(u, r) = r.in + r.out
                     /\ r.status = "ok" \/ r.in + r.out = 0
                     /\ Recognise(u) \/ r.in + r.out = 0
    BY <2>1, <1>g
  <2> HIDE DEF v
  <2>5. ParseResponse(v, r) \in Usages /\ Found(ParseResponse(v, r)) = Visible(v, r)
    BY <2>1, <2>2, ParserReadsAll
  <2>6. usage \in Usages /\ Found(usage) <= r.in + r.out
    BY <2>2, <2>5, <1>v, UnparsedTyped
  <2>7. Gaps = {} => Found(usage) = r.in + r.out
    BY <2>4, <2>5, UnparsedTyped
  <2> HIDE DEF usage
  <2> QED
    BY <2>2, <2>3, <2>6, <2>7
<1>2. ASSUME NEW c, NEW u \in Destinations, NEW delivered \in Deliveries,
             NEW r \in Answers(u), Inner(c, u, r, delivered)
      PROVE  Goal
  <2> DEFINE usage == IF delivered THEN ParseResponse(u, r) ELSE Unparsed
  <2>1. u \in URLs
    BY DEF Destinations
  <2>2. r \in Responses
    BY <2>1, AnswersTyped
  <2>3. Responds(r, usage)
    BY <1>2 DEF Inner, Responds
  <2>4. ParseResponse(u, r) \in Usages /\ Found(ParseResponse(u, r)) = Visible(u, r)
    BY <2>1, <2>2, ParserReadsAll
  <2>5. "absolute" \in Forms
    BY DEF Forms
  <2>6. Gaps = {} => delivered /\ Visible(u, r) = r.in + r.out
    BY <2>1, <2>5, <1>g
  <2>7. usage \in Usages /\ Found(usage) <= r.in + r.out
    BY <2>2, <2>4, <1>v, UnparsedTyped
  <2>8. Gaps = {} => Found(usage) = r.in + r.out
    BY <2>4, <2>6
  <2> HIDE DEF usage
  <2> QED
    BY <2>2, <2>3, <2>7, <2>8
<1>3. ASSUME NEW c, NEW t, Connect(c, t) PROVE UNCHANGED <<used, reported>>
  BY <1>3 DEF Connect
<1> HIDE DEF Goal
<1>4. Goal \/ UNCHANGED <<used, reported>>
  BY <1>1, <1>2, <1>3 DEF Next, vars, Pause, Denied, Handshake, Close
<1> QED
  BY <1>4 DEF Goal

MeterInv ==
  /\ used \in Nat /\ reported \in Nat
  /\ used <= reported
  /\ Gaps = {} => used = reported

LEMMA MeterStep == MeterInv /\ [Next]_vars => MeterInv'
<1> SUFFICES ASSUME MeterInv, [Next]_vars PROVE MeterInv'
  OBVIOUS
<1>1. CASE UNCHANGED <<used, reported>>
  BY <1>1 DEF MeterInv
<1>2. CASE ~ UNCHANGED <<used, reported>>
  <2>1. PICK r \in Responses, usage \in Usages :
          /\ Responds(r, usage)
          /\ Found(usage) <= r.in + r.out
          /\ Gaps = {} => Found(usage) = r.in + r.out
    BY <1>2, ChargedFor
  <2>2. used' = used + Found(usage) /\ Found(usage) \in Nat
    BY <2>1 DEF Responds, Charge, Found, Usages, MeterInv
  <2>3. reported' = reported + r.in + r.out /\ r.in \in Nat /\ r.out \in Nat
    BY <2>1 DEF Responds, Report, Responses
  <2> QED
    BY <2>1, <2>2, <2>3 DEF MeterInv
<1> QED
  BY <1>1, <1>2

(***************************************************************************)
(* The budget is never charged more than upstreams report, whichever form  *)
(* the requests have and whatever the responses look like or come to.      *)
(***************************************************************************)
THEOREM NoOvercharge == Spec => []NeverOvercharged
<1>1. Init => MeterInv
  BY DEF Init, MeterInv
<1>2. MeterInv => NeverOvercharged
  BY DEF MeterInv, NeverOvercharged
<1> QED
  BY <1>1, <1>2, MeterStep, PTL DEF Spec

(***************************************************************************)
(* Where none of the gaps is open, every input and output token that an    *)
(* endpoint reports is charged once, for any counts and any number of      *)
(* responses.                                                              *)
(***************************************************************************)
THEOREM MeteringExact == ASSUME Gaps = {} PROVE Spec => []UsageCharged
<1>1. Init => MeterInv
  BY DEF Init, MeterInv
<1>2. MeterInv => UsageCharged
  BY DEF MeterInv, UsageCharged
<1> QED
  BY <1>1, <1>2, MeterStep, PTL DEF Spec
=============================================================================
