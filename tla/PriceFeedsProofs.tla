-------------------------- MODULE PriceFeedsProofs --------------------------
(***************************************************************************)
(* Proofs about the prices and the fees made of them, for any schedules,   *)
(* prices, ages, decimals and digits, and any number of failures and       *)
(* restarts.                                                               *)
(*                                                                         *)
(* KnownRate: a row, once written, is replaced and never removed, and the  *)
(* prices of an answer are positive: a row of zero is the product with a   *)
(* KRW rate of zero, which CMC has not kept from before (KrwDue) but just  *)
(* been told.                                                              *)
(*                                                                         *)
(* FreshPrices: for each row OnTime says where its scheduler is since it   *)
(* asked for the row; between two asks lie less than two intervals,        *)
(* because a cron tick comes once in each (NextTick) and the period of the *)
(* next one is another (SamePeriod), and what a work is late by is counted *)
(* when it ends.                                                           *)
(*                                                                         *)
(* PresentFee: an amount that is cut to fewer decimals begins with the     *)
(* same digits, so as a text it does not come before what is left          *)
(* (LongerIsNotBefore); the fees of BOA are whole BOA, and so a tenth of   *)
(* them survives the cut to the decimals of the tolerance (TenthSurvives). *)
(***************************************************************************)
EXTENDS PriceFeedsProperties, WellFoundedInduction, NaturalsInduction, TLAPS

RateOK == krwRate \in Nat
TimesOK == now \in Int /\ asked \in [Feeds -> Int]
CoinOK == coin \in [Sources -> [Symbols -> {NoPrice} \cup [krw : Int, at : Int]]]
PInv == RateOK /\ TimesOK /\ CoinOK

(* No row is lost in a step.                                               *)
RowsStay == \A s \in Sources, c \in Symbols : coin[s][c] # NoPrice => coin'[s][c] # NoPrice
ZeroAsked == KrwDue /\ 0 \in KrwRates
NoNewZero == ZeroRows' \subseteq ZeroRows \/ ZeroAsked
RowsMove == RowsStay /\ NoNewZero

LEMMA Positive ==
    ASSUME NEW x \in Int, NEW y \in Nat, x > 0, y # 0
    PROVE  x * y \in Int /\ x * y # 0
  OBVIOUS

LEMMA PricesOfAnswers ==
    ASSUME NEW price \in Answers, NEW c \in DOMAIN price
    PROVE  c \in Symbols /\ price[c] \in Int
  <1>1. PICK S \in SUBSET Symbols : price \in [S -> Prices]
    BY DEF Answers
  <1> QED
    BY <1>1, FeedSetup

LEMMA ZeroIsAsked ==
    ASSUME RateOK, NEW rate \in KrwKnown
    PROVE  rate \in Nat /\ (rate = 0 => ZeroAsked)
  BY FeedSetup DEF RateOK, KrwKnown, KrwDue, ZeroAsked

(***************************************************************************)
(* An answer that is stored.                                               *)
(***************************************************************************)
LEMMA StoredRows ==
    ASSUME PInv, NEW s \in Sources, NEW price \in Answers, NEW rate \in Nat,
           Good(price), Store(s, price, rate)
    PROVE  CoinOK' /\ RowsStay /\ (rate # 0 => ZeroRows' \subseteq ZeroRows)
  <1>1. PICK age \in Ages : coin' = [coin EXCEPT ![s] = [c \in Symbols |->
            IF c \in DOMAIN price THEN [krw |-> price[c] * rate, at |-> asked[s] - age] ELSE @[c]]]
    BY DEF Store
  <1>2. asked[s] - age \in Int
    BY FeedSetup DEF PInv, TimesOK, Feeds
  <1>3. ASSUME NEW c \in DOMAIN price
        PROVE  price[c] * rate \in Int /\ (rate # 0 => price[c] * rate # 0)
    <2>1. price[c] \in Int /\ price[c] > 0
      BY PricesOfAnswers DEF Good
    <2> QED
      BY <2>1, Positive
  <1>4. ASSUME NEW r \in Sources, NEW c \in Symbols
        PROVE  \/ coin'[r][c] = coin[r][c]
               \/ /\ coin'[r][c] \in [krw : Int, at : Int]
                  /\ rate # 0 => coin'[r][c].krw # 0
    BY <1>1, <1>2, <1>3 DEF PInv, CoinOK
  <1>5. CoinOK'
    <2> DEFINE RowOrNone == {NoPrice} \cup [krw : Int, at : Int]
               Stored == [c \in Symbols |-> IF c \in DOMAIN price
                             THEN [krw |-> price[c] * rate, at |-> asked[s] - age] ELSE coin[s][c]]
    <2>1. coin \in [Sources -> [Symbols -> RowOrNone]]
      BY DEF PInv, CoinOK
    <2>2. \A c \in DOMAIN price : [krw |-> price[c] * rate, at |-> asked[s] - age] \in RowOrNone
      BY <1>2, <1>3
    <2>3. Stored \in [Symbols -> RowOrNone]
      <3> HIDE DEF RowOrNone
      <3> QED
        BY <2>1, <2>2
    <2>4. coin' = [coin EXCEPT ![s] = Stored]
      BY <1>1
    <2>5. coin' \in [Sources -> [Symbols -> RowOrNone]]
      <3> HIDE DEF RowOrNone, Stored
      <3> QED
        BY <2>1, <2>3, <2>4
    <2> QED
      BY <2>5 DEF CoinOK
  <1>6. ASSUME rate # 0
        PROVE  ZeroRows' \subseteq ZeroRows
    <2> SUFFICES ASSUME NEW r \in ZeroRows'
                 PROVE  r \in ZeroRows
      OBVIOUS
    <2>1. r \in Sources \X Symbols /\ coin'[r[1]][r[2]] # NoPrice /\ coin'[r[1]][r[2]].krw = 0
      BY DEF ZeroRows
    <2>2. r[1] \in Sources /\ r[2] \in Symbols
      BY <2>1
    <2>3. coin'[r[1]][r[2]] = coin[r[1]][r[2]]
      BY <1>4, <1>6, <2>1, <2>2
    <2> QED
      BY <2>1, <2>3 DEF ZeroRows
  <1>7. RowsStay
    BY <1>4, FeedSetup DEF RowsStay
  <1> QED
    BY <1>5, <1>6, <1>7

(***************************************************************************)
(* Init and the steps.                                                     *)
(***************************************************************************)
LEMMA PInvInit == Init => PInv
  BY DEF Init, PInv, RateOK, TimesOK, CoinOK, Never

LEMMA EndKeepsTimes ==
    ASSUME TimesOK, NEW f \in Feeds, End(f)
    PROVE  TimesOK'
  BY DEF TimesOK, End, Never

LEMMA SameCoins ==
    ASSUME PInv, coin' = coin
    PROVE  CoinOK' /\ RowsMove
  BY DEF PInv, CoinOK, RowsMove, RowsStay, NoNewZero, ZeroRows

LEMMA FeedKeepsRows ==
    ASSUME PInv, Feed
    PROVE  PInv' /\ RowsMove
  <1>1. ASSUME NEW f \in Feeds, Fail(f)
        PROVE  PInv' /\ RowsMove
    BY <1>1, EndKeepsTimes, SameCoins DEF PInv, RateOK, Fail, tables
  <1>2. ASSUME NEW g \in GasPrices, AnswerGas(g)
        PROVE  PInv' /\ RowsMove
    BY <1>2, EndKeepsTimes, SameCoins DEF PInv, RateOK, AnswerGas, Feeds
  <1>3. ASSUME NEW price \in Answers, AnswerCGC(price)
        PROVE  PInv' /\ RowsMove
    <2>1. TimesOK' /\ RateOK'
      BY <1>3, EndKeepsTimes DEF PInv, RateOK, AnswerCGC, Feeds, Sources
    <2>2. CASE Good(price)
      BY <1>3, <2>1, <2>2, StoredRows DEF AnswerCGC, PInv, Sources, RowsMove, NoNewZero
    <2>3. CASE ~Good(price)
      BY <1>3, <2>1, <2>3, SameCoins DEF AnswerCGC, PInv, tables
    <2> QED
      BY <2>2, <2>3
  <1>4. ASSUME NEW price \in Answers, AnswerCMC(price)
        PROVE  PInv' /\ RowsMove
    <2> PICK rate : rate = krwRate'
      OBVIOUS
    <2>1. rate \in Nat /\ (rate = 0 => ZeroAsked)
      BY <1>4, ZeroIsAsked DEF AnswerCMC, PInv
    <2>2. TimesOK' /\ RateOK'
      BY <1>4, <2>1, EndKeepsTimes DEF PInv, RateOK, AnswerCMC, Feeds, Sources
    <2>3. CASE Good(price)
      <3>1. Store("CMC", price, rate)
        BY <1>4, <2>3 DEF AnswerCMC
      <3>2. CoinOK' /\ RowsStay /\ (rate # 0 => ZeroRows' \subseteq ZeroRows)
        BY <2>1, <2>3, <3>1, StoredRows DEF Sources
      <3> QED
        BY <2>1, <2>2, <3>2 DEF PInv, RowsMove, NoNewZero
    <2>4. CASE ~Good(price)
      BY <1>4, <2>2, <2>4, SameCoins DEF AnswerCMC, PInv, tables
    <2> QED
      BY <2>3, <2>4
  <1>5. ASSUME Restart
        PROVE  PInv' /\ RowsMove
    <2>1. TimesOK' /\ RateOK'
      BY <1>5 DEF Restart, PInv, TimesOK, RateOK, Never
    <2> QED
      BY <1>5, <2>1, SameCoins DEF Restart, PInv, tables
  <1> QED
    BY <1>1, <1>2, <1>3, <1>4, <1>5 DEF Feed

LEMMA TickKeepsRows ==
    ASSUME PInv, Tick
    PROVE  PInv' /\ RowsMove
  <1>1. now' \in Int
    BY DEF Tick, PInv, TimesOK
  <1>2. \E ask : asked' = [f \in Feeds |-> IF f \in ask THEN now' ELSE asked[f]]
    BY DEF Tick
  <1>3. TimesOK' /\ RateOK'
    BY <1>1, <1>2 DEF Tick, PInv, TimesOK, RateOK
  <1> QED
    BY <1>3, SameCoins DEF Tick, PInv, tables

LEMMA TraderKeepsRows ==
    ASSUME PInv, Trader \/ UNCHANGED vars
    PROVE  PInv' /\ RowsMove
  <1>1. UNCHANGED <<now, asked, krwRate, coin>>
    BY DEF Trader, AskFee, Pay, ReadGas, Judge, Leave, vars, feeds, tables
  <1> QED
    BY <1>1, SameCoins DEF PInv, TimesOK, RateOK

LEMMA StepKeepsRows ==
    ASSUME PInv, [Next]_vars
    PROVE  PInv' /\ RowsMove
  BY FeedKeepsRows, TickKeepsRows, TraderKeepsRows DEF Next

(* Rows that stay make a rate that stays. *)
LEMMA RatesStay ==
    ASSUME RowsStay, RateKnown
    PROVE  RateKnown'
  BY DEF RateKnown, RowsStay, Rows

(* A rate that has been known stays known, and a price of zero is written  *)
(* only by a work that asked for the KRW rate and could be answered with   *)
(* zero (the price schedulers, getCoinPrices and getEthBoaRate).           *)
THEOREM KnownRate == Spec => KnownRateStaysKnown
  <1> DEFINE Known == /\ RateKnown => RateKnown'
                      /\ ZeroRows' \subseteq ZeroRows \/ (KrwDue /\ 0 \in KrwRates)
  <1>1. PInv /\ [Next]_vars => PInv'
    BY StepKeepsRows
  <1>2. PInv /\ [Next]_vars => [Known]_vars
    BY StepKeepsRows, RatesStay DEF RowsMove, NoNewZero, ZeroAsked
  <1> QED
    BY PInvInit, <1>1, <1>2, PTL DEF Spec, KnownRateStaysKnown

(***************************************************************************)
(* Cron ticks and periods.                                                 *)
(***************************************************************************)
LEMMA Division ==
    ASSUME NEW a \in Nat \ {0}, NEW x \in Nat
    PROVE  \E q \in Int, r \in 0 .. a - 1 : x = a * q + r /\ x \div a = q /\ x % a = r
  <1>1. x \div a \in Int /\ x % a \in 0 .. a - 1 /\ x = a * (x \div a) + (x % a)
    OBVIOUS
  <1> QED
    BY <1>1

LEMMA Remainder ==
    ASSUME NEW a \in Nat \ {0}, NEW q \in Int, NEW r \in 0 .. a - 1
    PROVE  (a * q + r) % a = r
  <1> DEFINE x == a * q + r
             d == x \div a
             m == x % a
  <1>1. x \in Int /\ d \in Int /\ m \in 0 .. a - 1 /\ x = a * d + m
    OBVIOUS
  <1>2. a * (q - d) = m - r
    BY <1>1
  <1>3. CASE q - d >= 1
    <2>1. a * (q - d) >= a
      BY <1>1, <1>3
    <2> HIDE DEF x, d, m
    <2> QED
      BY <1>1, <1>2, <2>1
  <1>4. CASE q - d <= -1
    <2>1. a * (q - d) <= -a
      BY <1>1, <1>4
    <2> HIDE DEF x, d, m
    <2> QED
      BY <1>1, <1>2, <2>1
  <1>5. CASE q = d
    BY <1>1, <1>5
  <1> QED
    BY <1>1, <1>3, <1>4, <1>5

(* Two cron ticks are at most an interval apart, also where a minute ends. *)
LEMMA NextTick ==
    ASSUME NEW t \in Nat
    PROVE  \E x \in 1 .. Interval : CronTick(t + x)
  <1>1. PICK q, m : q \in Int /\ m \in 0 .. Minute - 1 /\ t = Minute * q + m
    BY Division, FeedSetup
  <1>2. PICK p, r : p \in Int /\ r \in 0 .. Interval - 1 /\ m = Interval * p + r
    <2>1. m \in Nat /\ Interval \in Nat \ {0}
      BY <1>1, FeedSetup
    <2> QED
      BY <2>1, Division
  <1>3. CASE m + (Interval - r) < Minute
    <2> DEFINE x == Interval - r
               y == m + x
    <2>1. x \in 1 .. Interval /\ y \in 0 .. Minute - 1
      BY <1>1, <1>2, <1>3, FeedSetup
    <2>2. t + x = Minute * q + y
      <3>1. Minute * q \in Int
        BY <1>1, FeedSetup
      <3> QED
        BY <1>1, <2>1, <3>1, FeedSetup
    <2>3. y = Interval * (p + 1) + 0
      BY <1>2, FeedSetup
    <2> HIDE DEF x, y
    <2>4. (t + x) % Minute = y
      BY <1>1, <2>1, <2>2, Remainder, FeedSetup
    <2>5. y % Interval = 0
      <3>1. p + 1 \in Int /\ 0 \in 0 .. Interval - 1
        BY <1>2, FeedSetup
      <3>2. (Interval * (p + 1) + 0) % Interval = 0
        BY <3>1, Remainder, FeedSetup
      <3> QED
        BY <2>3, <3>2
    <2> QED
      BY <2>1, <2>4, <2>5 DEF CronTick
  <1>4. CASE m + (Interval - r) >= Minute
    <2> DEFINE x == Minute - m
    <2>1. x \in 1 .. Interval
      BY <1>1, <1>2, <1>4, FeedSetup
    <2>2. t + x = Minute * (q + 1) + 0
      BY <1>1, FeedSetup
    <2> HIDE DEF x
    <2>3. (t + x) % Minute = 0
      <3>1. q + 1 \in Int /\ 0 \in 0 .. Minute - 1
        BY <1>1, FeedSetup
      <3>2. (Minute * (q + 1) + 0) % Minute = 0
        BY <3>1, Remainder, FeedSetup
      <3> QED
        BY <2>2, <3>2
    <2>4. 0 % Interval = 0
      <3>1. 0 \in 0 .. Interval - 1 /\ Interval * 0 + 0 = 0
        BY FeedSetup
      <3>2. (Interval * 0 + 0) % Interval = 0
        BY <3>1, Remainder, FeedSetup
      <3> QED
        BY <3>1, <3>2
    <2> QED
      BY <2>1, <2>3, <2>4 DEF CronTick
  <1> QED
    BY <1>1, <1>2, <1>3, <1>4, FeedSetup

LEMMA TicksAreNear ==
    ASSUME NEW from \in Nat, NEW to \in Int, NoTick(from, to)
    PROVE  to < from + Interval
  <1>1. PICK x \in 1 .. Interval : CronTick(from + x)
    BY NextTick
  <1> QED
    BY <1>1, FeedSetup DEF NoTick

LEMMA SamePeriod ==
    ASSUME NEW f \in Feeds, NEW s \in Nat, NEW t \in Nat, Period(f, s) = Period(f, t)
    PROVE  t < s + Interval
  <1>1. Offset[f] \in Nat /\ Interval \in Nat \ {0}
    BY FeedSetup
  <1>2. PICK p \in Int, r \in 0 .. Interval - 1, q \in 0 .. Interval - 1 :
            s + Offset[f] = Interval * p + r /\ t + Offset[f] = Interval * p + q
    <2>1. s + Offset[f] \in Nat /\ t + Offset[f] \in Nat
      BY <1>1
    <2>2. PICK p \in Int, r \in 0 .. Interval - 1 :
              s + Offset[f] = Interval * p + r /\ (s + Offset[f]) \div Interval = p
      BY <1>1, <2>1, Division
    <2>3. PICK e \in Int, q \in 0 .. Interval - 1 :
              t + Offset[f] = Interval * e + q /\ (t + Offset[f]) \div Interval = e
      BY <1>1, <2>1, Division
    <2> QED
      BY <2>2, <2>3 DEF Period
  <1>3. Interval * p \in Int
    BY <1>1
  <1> QED
    BY <1>1, <1>2, <1>3
(***************************************************************************)
(* The stamps of the schedulers.                                           *)
(***************************************************************************)
Stamp == Nat \cup {Never}
StampsOK ==
    /\ now \in Nat /\ old \in [Feeds -> Stamp] /\ asked \in [Feeds -> Stamp]
    /\ missed \in [Feeds -> [Symbols -> Nat]] /\ late \in [Feeds -> [Symbols -> Nat]]
    /\ \A f \in Feeds :
        /\ old[f] <= now
        /\ asked[f] # Never => old[f] # Never /\ asked[f] <= now

(* What a work that waits is late by. *)
LEMMA OvertimeIs ==
    ASSUME StampsOK, NEW f \in Feeds
    PROVE  /\ Overtime(f) \in 0 .. now
           /\ asked[f] = Never => Overtime(f) = 0
           /\ asked[f] # Never => now <= asked[f] + Latency + Overtime(f)
  <1>1. now \in Nat /\ asked[f] \in Nat \cup {Never} /\ Latency \in Nat
    BY FeedSetup DEF StampsOK, Stamp
  <1>2. CASE asked[f] = Never
    BY <1>1, <1>2 DEF Overtime, Idle
  <1>3. CASE asked[f] \in Nat
    BY <1>1, <1>3 DEF Overtime, Idle, Never
  <1> QED
    BY <1>1, <1>2, <1>3

LEMMA StampsInit == Init => StampsOK
  BY DEF Init, StampsOK, Stamp, Never

LEMMA EndStamps ==
    ASSUME StampsOK, NEW f \in Feeds, End(f), NEW S \in SUBSET Symbols, Miss(f, S)
    PROVE  StampsOK'
  <1>1. asked[f] \in Nat /\ asked[f] <= now
    BY DEF StampsOK, Stamp, End, Idle
  <1>2. missed' \in [Feeds -> [Symbols -> Nat]] /\ late' \in [Feeds -> [Symbols -> Nat]]
    <2>1. PICK o \in Nat : o = Overtime(f)
      BY OvertimeIs DEF StampsOK
    <2>2. late' = [late EXCEPT ![f] = [c \in Symbols |-> IF c \in S THEN @[c] + o ELSE o]]
      BY <2>1 DEF Miss
    <2> QED
      BY <2>2 DEF StampsOK, Miss
  <1>3. now' = now /\ old' \in [Feeds -> Stamp] /\ asked' \in [Feeds -> Stamp]
    BY <1>1 DEF StampsOK, End, Stamp
  <1>4. ASSUME NEW g \in Feeds
        PROVE  /\ old'[g] <= now'
               /\ asked'[g] # Never => old'[g] # Never /\ asked'[g] <= now'
    <2>1. CASE g = f
      BY <1>1, <2>1 DEF StampsOK, End
    <2>2. CASE g # f
      BY <2>2 DEF StampsOK, End
    <2> QED
      BY <2>1, <2>2
  <1> QED
    BY <1>2, <1>3, <1>4 DEF StampsOK

LEMMA TickStamps ==
    ASSUME StampsOK, Tick
    PROVE  StampsOK'
  <1> DEFINE begin == IF CronTick(now') THEN Idle ELSE {}
             ask == {f \in begin : Due(f, now')}
  <1>1. /\ now' = now + 1 /\ now' \in Nat /\ missed' = missed /\ late' = late
        /\ asked' = [f \in Feeds |-> IF f \in ask THEN now' ELSE asked[f]]
        /\ old' = [f \in Feeds |-> IF f \in begin \ ask THEN now' ELSE old[f]]
    BY DEF Tick, StampsOK
  <1>2. ASSUME NEW f \in Feeds
        PROVE  /\ old'[f] \in Stamp /\ asked'[f] \in Stamp /\ old'[f] <= now'
               /\ asked'[f] # Never => old'[f] # Never /\ asked'[f] <= now'
    <2>1. old[f] \in Stamp /\ asked[f] \in Stamp /\ old[f] <= now
      BY DEF StampsOK
    <2>2. CASE f \in ask
      <3>1. old'[f] = old[f] /\ asked'[f] = now' /\ old[f] # Never
        BY <1>1, <2>2 DEF Due
      <3> QED
        BY <1>1, <2>1, <3>1, FeedSetup DEF Stamp, StampsOK
    <2>3. CASE f \in begin \ ask
      <3>1. old'[f] = now' /\ asked'[f] = Never
        BY <1>1, <2>3 DEF Idle
      <3> QED
        BY <1>1, <3>1 DEF Stamp
    <2>4. CASE f \notin begin
      <3>1. old'[f] = old[f] /\ asked'[f] = asked[f]
        BY <1>1, <2>4
      <3> QED
        BY <1>1, <2>1, <3>1 DEF StampsOK, Stamp, Never
    <2> QED
      BY <2>2, <2>3, <2>4
  <1>3. old' \in [Feeds -> Stamp] /\ asked' \in [Feeds -> Stamp]
    BY <1>1, <1>2
  <1> QED
    BY <1>1, <1>2, <1>3 DEF StampsOK

(***************************************************************************)
(* How long the asks of one scheduler take: what each of its steps does to *)
(* OnTime.  d stands for the time of the misses.                           *)
(***************************************************************************)
LEMMA Gaps ==
    ASSUME NEW k \in Nat
    PROVE  /\ Gap \in Nat /\ k * Gap \in Nat /\ (k + 1) * Gap = k * Gap + Gap
           /\ (k + 2) * Gap = k * Gap + Gap + Gap
           /\ Gap = Interval + (Interval - 1) /\ Interval \in Nat \ {0} /\ Latency \in 0 .. Interval - 1
  BY FeedSetup DEF Gap

(* What OnTime comes to. *)
LEMMA OnTimeBound ==
    ASSUME StampsOK, NEW f \in Feeds, NEW k \in Nat, NEW time \in Int, OnTime(f, k, time)
    PROVE  now <= time + k * Gap + Gap + Latency + Overtime(f)
  <1>0. now \in Nat /\ old[f] \in Stamp /\ asked[f] \in Stamp
    BY DEF StampsOK
  <1> PICK d \in Nat : d = k * Gap
    BY Gaps
  <1>g. Gap = Interval + (Interval - 1) /\ Interval \in Nat \ {0} /\ Latency \in 0 .. Interval - 1
    BY Gaps
  <1> SUFFICES now <= time + d + Gap + Latency + Overtime(f)
    OBVIOUS
  <1>o. Overtime(f) \in Nat
    BY <1>0, OvertimeIs
  <1>1. CASE Awaiting(f, k, time)
    <2>1. asked[f] \in Nat /\ asked[f] <= time + d + Gap
      BY <1>0, <1>1 DEF Awaiting, Stamp
    <2>2. now <= asked[f] + Latency + Overtime(f)
      BY <1>1, OvertimeIs DEF Awaiting
    <2> QED
      BY <1>0, <1>g, <1>o, <2>1, <2>2
  <1>2. CASE Between(f, k, time)
    <2>1. PICK s \in 0 .. old[f], o \in 0 .. now :
            /\ s + o <= time + d /\ Period(f, s) = Period(f, old[f])
            /\ NoTick(IF s + Latency + o <= old[f] THEN old[f] ELSE s + Latency + o, now)
      BY <1>2 DEF Between
    <2>2. old[f] \in Nat /\ s \in Nat /\ o \in Nat
      BY <1>0, <1>2, <2>1 DEF Stamp, Between
    <2>3. old[f] < s + Interval
      BY <2>1, <2>2, SamePeriod
    <2>4. PICK from \in Nat : from < s + o + Interval /\ NoTick(from, now)
      <3>1. CASE s + Latency + o <= old[f]
        <4>1. NoTick(old[f], now)
          BY <2>1, <3>1
        <4> QED
          BY <2>2, <2>3, <4>1, FeedSetup
      <3>2. CASE ~(s + Latency + o <= old[f])
        <4>1. s + Latency + o \in Nat /\ s + Latency + o < s + o + Interval
          BY <2>2, FeedSetup
        <4>2. NoTick(s + Latency + o, now)
          BY <2>1, <3>2
        <4> QED
          BY <4>1, <4>2
      <3> QED
        BY <3>1, <3>2
    <2>5. now < from + Interval
      BY <1>0, <2>4, TicksAreNear
    <2> QED
      BY <1>0, <1>g, <1>o, <2>1, <2>2, <2>4, <2>5
  <1>3. CASE Restarted(f, k, time)
    <2>1. PICK s \in 0 .. now : s <= time + d - Gap + Latency /\ NoTick(s, now)
      BY <1>3 DEF Restarted
    <2>2. now < s + Interval
      BY <1>0, <2>1, TicksAreNear
    <2> QED
      BY <1>0, <1>g, <1>o, <2>1, <2>2
  <1> QED
    BY <1>1, <1>2, <1>3 DEF OnTime

LEMMA LongerQuiet ==
    ASSUME NEW from \in Int, now \in Nat, now' = now + 1, NoTick(from, now), ~CronTick(now')
    PROVE  NoTick(from, now')
  BY DEF NoTick

LEMMA NothingPassed ==
    ASSUME NEW from \in Int, NEW to \in Int, to <= from
    PROVE  NoTick(from, to)
  BY DEF NoTick

LEMMA TickOnTime ==
    ASSUME StampsOK, Tick, NEW f \in Feeds, NEW k \in Nat, NEW time \in Int, OnTime(f, k, time)
    PROVE  OnTime(f, k, time)'
  <1> DEFINE begin == IF CronTick(now') THEN Idle ELSE {}
             ask == {g \in begin : Due(g, now')}
             d == k * Gap
  <1>0. /\ now \in Nat /\ old[f] \in Stamp /\ asked[f] \in Stamp /\ now' = now + 1 /\ old[f] <= now
        /\ asked'[f] = IF f \in ask THEN now' ELSE asked[f]
        /\ old'[f] = IF f \in begin \ ask THEN now' ELSE old[f]
        /\ d \in Nat
    BY Gaps DEF StampsOK, Tick
  <1>i. Gap = Interval + (Interval - 1) /\ Interval \in Nat \ {0} /\ Latency \in 0 .. Interval - 1
    BY Gaps
  <1>1. CASE Awaiting(f, k, time)
    <2>1. f \notin Idle
      BY <1>1 DEF Awaiting, Idle
    <2>2. asked'[f] = asked[f]
      BY <1>0, <2>1
    <2> QED
      BY <1>1, <2>2 DEF Awaiting, OnTime
  <1>2. CASE Between(f, k, time)
    <2>0. PICK s \in 0 .. old[f], o \in 0 .. now :
            /\ s + o <= time + d /\ Period(f, s) = Period(f, old[f])
            /\ NoTick(IF s + Latency + o <= old[f] THEN old[f] ELSE s + Latency + o, now)
      BY <1>2 DEF Between
    <2>1. asked[f] = Never /\ f \in Idle /\ old[f] # Never /\ old[f] \in Nat /\ s \in Nat
          /\ o \in Nat /\ o \in 0 .. now'
      BY <1>0, <1>2, <2>0 DEF Between, Idle, Stamp
    <2>2. CASE ~CronTick(now')
      <3>1. old'[f] = old[f] /\ asked'[f] = Never
        BY <1>0, <2>1, <2>2
      <3> DEFINE from == IF s + Latency + o <= old[f] THEN old[f] ELSE s + Latency + o
      <3>2. from \in Int
        BY <1>i, <2>1
      <3>3. NoTick(from, now')
        BY <1>0, <2>0, <2>2, <3>2, LongerQuiet
      <3> QED
        BY <2>0, <2>1, <3>1, <3>3 DEF OnTime, Between
    <2>3. CASE CronTick(now') /\ ~Due(f, now')
      <3>1. old'[f] = now' /\ asked'[f] = Never
        BY <1>0, <2>1, <2>3
      <3>2. Period(f, now') = Period(f, s)
        BY <2>0, <2>1, <2>3 DEF Due
      <3> DEFINE from == IF s + Latency + o <= now' THEN now' ELSE s + Latency + o
      <3>3. NoTick(from, now')
        <4>1. from \in Int /\ now' \in Int /\ now' <= from
          BY <1>0, <1>i, <2>1
        <4> HIDE DEF from
        <4> QED
          BY <4>1, NothingPassed
      <3>4. s \in 0 .. now' /\ now' # Never
        BY <1>0, <2>0, <2>1 DEF Never
      <3> QED
        BY <2>0, <2>1, <3>1, <3>2, <3>3, <3>4 DEF OnTime, Between
    <2>4. CASE CronTick(now') /\ Due(f, now')
      <3>1. asked'[f] = now'
        BY <1>0, <2>1, <2>4
      <3>2. old[f] < s + Interval
        BY <2>0, <2>1, SamePeriod
      <3>3. now < s + o + Interval + Interval - 1
        <4>1. CASE s + Latency + o <= old[f]
          <5>1. now < old[f] + Interval
            BY <1>0, <2>0, <2>1, <4>1, TicksAreNear
          <5> QED
            BY <1>0, <1>i, <2>1, <3>2, <5>1
        <4>2. CASE ~(s + Latency + o <= old[f])
          <5>1. s + Latency + o \in Nat
            BY <1>i, <2>1
          <5>2. now < s + Latency + o + Interval
            BY <1>0, <2>0, <4>2, <5>1, TicksAreNear
          <5> QED
            BY <1>0, <1>i, <2>1, <5>2
        <4> QED
          BY <4>1, <4>2
      <3>4. now' <= time + d + Gap /\ now' # Never
        <4> HIDE DEF d
        <4> QED
          BY <1>0, <1>i, <2>0, <2>1, <3>3 DEF Never
      <3> QED
        BY <3>1, <3>4 DEF OnTime, Awaiting
    <2> QED
      BY <2>2, <2>3, <2>4
  <1>3. CASE Restarted(f, k, time)
    <2>0. PICK s \in 0 .. now : s <= time + d - Gap + Latency /\ NoTick(s, now)
      BY <1>3 DEF Restarted
    <2>1. asked[f] = Never /\ f \in Idle /\ old[f] = Never /\ s \in Nat /\ f \notin ask
      BY <1>0, <1>3, <2>0 DEF Restarted, Idle, Due
    <2>2. CASE ~CronTick(now')
      <3>1. old'[f] = Never /\ asked'[f] = Never
        BY <1>0, <2>1, <2>2
      <3>2. NoTick(s, now')
        BY <1>0, <2>0, <2>1, <2>2, LongerQuiet
      <3>3. s \in 0 .. now'
        BY <1>0, <2>0
      <3> QED
        BY <2>0, <3>1, <3>2, <3>3 DEF OnTime, Restarted
    <2>3. CASE CronTick(now')
      <3>1. old'[f] = now' /\ asked'[f] = Never
        BY <1>0, <2>1, <2>3
      <3>2. now < s + Interval
        BY <1>0, <2>0, <2>1, TicksAreNear
      <3>3. now' + 0 <= time + d
        <4> HIDE DEF d
        <4> QED
          BY <1>0, <1>i, <2>0, <2>1, <3>2
      <3> DEFINE from == IF now' + Latency + 0 <= now' THEN now' ELSE now' + Latency + 0
      <3>4. NoTick(from, now')
        <4>1. from \in Int /\ now' \in Int /\ now' <= from
          BY <1>0, <1>i
        <4> HIDE DEF from
        <4> QED
          BY <4>1, NothingPassed
      <3>5. now' \in 0 .. now' /\ now' # Never /\ 0 \in 0 .. now'
        BY <1>0 DEF Never
      <3> QED
        BY <3>1, <3>3, <3>4, <3>5 DEF OnTime, Between
    <2> QED
      BY <2>2, <2>3
  <1> QED
    BY <1>1, <1>2, <1>3 DEF OnTime

(* The end of an ask without a price, of one with a price, and a restart.  *)
LEMMA MissOnTime ==
    ASSUME StampsOK, NEW f \in Feeds, End(f), NEW k \in Nat, NEW time \in Int,
           NEW o \in Int, o = Overtime(f), OnTime(f, k, time)
    PROVE  OnTime(f, k + 1, time + o)'
  <1>1. /\ asked[f] \in Nat /\ asked'[f] = Never /\ old'[f] = asked[f] /\ now' = now
        /\ now \in Nat /\ now <= asked[f] + Latency + o /\ o \in 0 .. now
    BY OvertimeIs DEF StampsOK, Stamp, End, Idle
  <1>2. asked[f] <= time + k * Gap + Gap
    BY <1>1 DEF OnTime, Awaiting, Between, Restarted, Never
  <1>3. asked[f] + o <= time + o + (k + 1) * Gap
    <2> DEFINE d == k * Gap
               e == (k + 1) * Gap
    <2>1. d \in Nat /\ Gap \in Nat /\ e = d + Gap
      BY Gaps
    <2> HIDE DEF d, e
    <2>2. asked[f] <= time + d + Gap
      BY <1>2 DEF d
    <2>3. asked[f] + o <= time + o + e
      BY <1>1, <2>1, <2>2
    <2> QED
      BY <2>3 DEF e
  <1> DEFINE from == IF asked[f] + Latency + o <= asked[f] THEN asked[f] ELSE asked[f] + Latency + o
  <1>4. NoTick(from, now)
    <2>1. from \in Int /\ now <= from
      BY <1>1, FeedSetup
    <2> HIDE DEF from
    <2> QED
      BY <1>1, <2>1, NothingPassed
  <1>5. asked[f] \in 0 .. asked[f] /\ asked[f] # Never
    BY <1>1 DEF Never
  <1> QED
    BY <1>1, <1>3, <1>4, <1>5 DEF OnTime, Between

LEMMA AnswerOnTime ==
    ASSUME StampsOK, NEW f \in Feeds, End(f), NEW time \in Int, NEW o \in Int, o = Overtime(f), asked[f] <= time
    PROVE  OnTime(f, 0, time + o)'
  <1>1. /\ asked[f] \in Nat /\ asked'[f] = Never /\ old'[f] = asked[f] /\ now' = now
        /\ now \in Nat /\ now <= asked[f] + Latency + o /\ o \in 0 .. now
    BY OvertimeIs DEF StampsOK, Stamp, End, Idle
  <1>2. asked[f] + o <= time + o + 0 * Gap
    <2>1. Gap \in Nat
      BY FeedSetup DEF Gap
    <2>2. 0 * Gap = 0
      BY <2>1
    <2> QED
      BY <1>1, <2>2
  <1> DEFINE from == IF asked[f] + Latency + o <= asked[f] THEN asked[f] ELSE asked[f] + Latency + o
  <1>3. NoTick(from, now)
    <2>1. from \in Int /\ now <= from
      BY <1>1, FeedSetup
    <2> HIDE DEF from
    <2> QED
      BY <1>1, <2>1, NothingPassed
  <1>4. asked[f] \in 0 .. asked[f] /\ asked[f] # Never
    BY <1>1 DEF Never
  <1> QED
    BY <1>1, <1>2, <1>3, <1>4 DEF OnTime, Between

LEMMA RestartOnTime ==
    ASSUME StampsOK, Restart, NEW f \in Feeds, NEW k \in Nat, NEW time \in Int,
           NEW o \in Int, o = Overtime(f), OnTime(f, k, time)
    PROVE  OnTime(f, k + 2, time + o)'
  <1>1. now \in Nat /\ now' = now /\ asked'[f] = Never /\ old'[f] = Never
    BY DEF StampsOK, Restart
  <1>2. now <= time + o + (k + 2) * Gap - Gap + Latency
    <2> DEFINE d == k * Gap
               e == (k + 2) * Gap
    <2>1. d \in Nat /\ Gap \in Nat /\ e = d + Gap + Gap /\ Latency \in Nat
      BY Gaps
    <2>2. now <= time + d + Gap + Latency + o
      BY OnTimeBound
    <2> HIDE DEF d, e
    <2>3. now <= time + o + e - Gap + Latency
      BY <1>1, <2>1, <2>2
    <2> QED
      BY <2>3 DEF e
  <1>3. NoTick(now, now) /\ now \in 0 .. now
    BY <1>1, NothingPassed
  <1> QED
    BY <1>1, <1>2, <1>3 DEF OnTime, Restarted

(***************************************************************************)
(* The steps of a scheduler and the rows it has written.                   *)
(***************************************************************************)
AgesOK == \A age \in Ages : age \in Nat /\ age <= MaxAge /\ MaxAge \in Nat

LEMMA OldestAge == MaxAge \in Nat /\ AgesOK
  <1>1. \E a \in Ages : \A b \in Ages : b <= a
    BY FeedSetup
  <1>2. MaxAge \in Ages /\ \A b \in Ages : b <= MaxAge
    BY <1>1 DEF MaxAge
  <1> QED
    BY <1>2, FeedSetup DEF AgesOK

RowAtOK == \A s \in Sources, c \in Symbols : coin[s][c] # NoPrice => coin[s][c].at \in Int
GasAtOK == gas # NoPrice => gas.at \in Int
FreshInv == PInv /\ StampsOK /\ GasAtOK /\ RowsOnTime

LEMMA RowTimes ==
    ASSUME CoinOK, NEW s \in Sources, NEW c \in Symbols, coin[s][c] # NoPrice
    PROVE  coin[s][c].at \in Int
  BY DEF CoinOK

(* What one feed does leaves the times of the others alone. *)
LEMMA OthersOnTime ==
    ASSUME NEW f \in Feeds, NEW g \in Feeds, f # g, StampsOK, End(f), NEW S, Miss(f, S),
           NEW k, NEW time, OnTime(g, k, time)
    PROVE  OnTime(g, k, time)' /\ missed'[g] = missed[g] /\ late'[g] = late[g]
  <1>1. old'[g] = old[g] /\ asked'[g] = asked[g] /\ now' = now /\ missed'[g] = missed[g] /\ late'[g] = late[g]
    BY DEF StampsOK, End, Miss
  <1> QED
    BY <1>1 DEF OnTime, Awaiting, Between, Restarted

LEMMA MissedCounts ==
    ASSUME StampsOK, NEW f \in Feeds, NEW S, Miss(f, S), NEW c \in Symbols, NEW o \in Int, o = Overtime(f)
    PROVE  /\ missed[f][c] \in Nat /\ missed'[f][c] = IF c \in S THEN missed[f][c] + 1 ELSE 0
           /\ late[f][c] \in Nat /\ late'[f][c] = IF c \in S THEN late[f][c] + o ELSE o
  BY DEF StampsOK, Miss

(* One row of a source over the end of an ask of some feed: the row stays  *)
(* and its misses grow, or it is written.                                  *)
LEMMA SourceRowOnTime ==
    ASSUME StampsOK, CoinOK, CoinOK', NEW f \in Feeds, End(f), NEW S, Miss(f, S),
           NEW s \in Sources, NEW c \in Symbols, coin'[s][c] # NoPrice,
           coin[s][c] # NoPrice => OnTime(s, missed[s][c], coin[s][c].at + MaxAge + late[s][c]),
           \/ coin'[s][c] = coin[s][c] /\ (s = f => c \in S)
           \/ s = f /\ c \notin S /\ asked[f] <= coin'[s][c].at + MaxAge
    PROVE  OnTime(s, missed[s][c], coin[s][c].at + MaxAge + late[s][c])'
  <1>1. s \in Feeds /\ coin'[s][c].at \in Int /\ coin'[s][c].at + MaxAge \in Int /\ late[s][c] \in Nat
    BY RowTimes, OldestAge DEF CoinOK, Feeds, StampsOK
  <1> PICK base \in Int : base = coin'[s][c].at + MaxAge
    BY <1>1
  <1> PICK time \in Int : time = base + late[s][c]
    BY <1>1
  <1> PICK k : k = missed[s][c]
    OBVIOUS
  <1> PICK o \in Nat : o = Overtime(f)
    BY OvertimeIs DEF StampsOK
  <1>2. CASE s # f
    <2>1. coin'[s][c] = coin[s][c]
      BY <1>2
    <2>2. OnTime(s, k, time)
      BY <2>1
    <2>3. OnTime(s, k, time)' /\ missed'[s] = missed[s] /\ late'[s] = late[s]
      BY <1>1, <1>2, <2>2, OthersOnTime
    <2> QED
      BY <2>3 DEF OnTime, Awaiting, Between, Restarted
  <1>3. CASE s = f /\ c \in S
    <2>1. coin'[s][c] = coin[s][c]
      BY <1>3
    <2>2. OnTime(f, k, time)
      BY <1>3, <2>1
    <2>3. k \in Nat /\ missed'[f][c] = k + 1 /\ late'[f][c] = late[f][c] + o
      BY <1>3, MissedCounts
    <2>4. OnTime(f, k + 1, time + o)'
      BY <2>2, <2>3, MissOnTime
    <2>5. time + o = coin'[f][c].at + MaxAge + late'[f][c]
      BY <1>1, <1>3, <2>3
    <2> QED
      BY <1>3, <2>3, <2>4, <2>5 DEF OnTime, Awaiting, Between, Restarted
  <1>4. CASE s = f /\ c \notin S
    <2>1. asked[f] <= base
      BY <1>1, <1>4
    <2>2. missed'[f][c] = 0 /\ late'[f][c] = o
      BY <1>4, MissedCounts
    <2>3. OnTime(f, 0, base + o)'
      BY <2>1, AnswerOnTime
    <2>4. base + o = coin'[f][c].at + MaxAge + late'[f][c]
      BY <1>4, <2>2
    <2> QED
      BY <1>4, <2>2, <2>3, <2>4 DEF OnTime, Awaiting, Between, Restarted
  <1> QED
    BY <1>2, <1>3, <1>4

(* The row of gas_price is written when its ask ends. *)
LEMMA GasRowOnTime ==
    ASSUME StampsOK, GasAtOK', NEW f \in Feeds, End(f), NEW S, Miss(f, S), gas' # NoPrice,
           gas # NoPrice => OnTime("GAS", missed["GAS"]["ETH"], gas.at + late["GAS"]["ETH"]),
           \/ gas' = gas /\ (f = "GAS" => "ETH" \in S)
           \/ f = "GAS" /\ "ETH" \notin S /\ asked[f] <= gas'.at
    PROVE  OnTime("GAS", missed["GAS"]["ETH"], gas.at + late["GAS"]["ETH"])'
  <1>1. "GAS" \in Feeds /\ "ETH" \in Symbols
    BY DEF Feeds, Symbols
  <1> PICK base \in Int : base = gas'.at
    BY DEF GasAtOK
  <1> PICK time \in Int : time = base + late["GAS"]["ETH"]
    BY <1>1 DEF StampsOK
  <1> PICK k : k = missed["GAS"]["ETH"]
    OBVIOUS
  <1> PICK o \in Nat : o = Overtime(f)
    BY OvertimeIs DEF StampsOK
  <1>2. CASE f # "GAS"
    <2>1. OnTime("GAS", k, time)
      BY <1>2
    <2>2. OnTime("GAS", k, time)' /\ missed'["GAS"] = missed["GAS"] /\ late'["GAS"] = late["GAS"]
      BY <1>1, <1>2, <2>1, OthersOnTime
    <2> QED
      BY <2>2 DEF OnTime, Awaiting, Between, Restarted
  <1>3. CASE f = "GAS" /\ "ETH" \in S
    <2>1. OnTime("GAS", k, time)
      BY <1>3
    <2>2. k \in Nat /\ missed'["GAS"]["ETH"] = k + 1 /\ late["GAS"]["ETH"] \in Nat
          /\ late'["GAS"]["ETH"] = late["GAS"]["ETH"] + o
      BY <1>1, <1>3, MissedCounts
    <2>3. OnTime("GAS", k + 1, time + o)'
      BY <1>1, <1>3, <2>1, <2>2, MissOnTime
    <2>4. time + o = gas'.at + late'["GAS"]["ETH"]
      BY <2>2
    <2> QED
      BY <2>2, <2>3, <2>4 DEF OnTime, Awaiting, Between, Restarted
  <1>4. CASE f = "GAS" /\ "ETH" \notin S
    <2>1. asked["GAS"] <= base
      BY <1>4
    <2>2. missed'["GAS"]["ETH"] = 0 /\ late'["GAS"]["ETH"] = o
      BY <1>1, <1>4, MissedCounts
    <2>3. OnTime("GAS", 0, base + o)'
      BY <1>1, <1>4, <2>1, AnswerOnTime
    <2>4. base + o = gas'.at + late'["GAS"]["ETH"]
      BY <2>2
    <2> QED
      BY <2>2, <2>3, <2>4 DEF OnTime, Awaiting, Between, Restarted
  <1> QED
    BY <1>2, <1>3, <1>4

(* An ask without a price. *)
LEMMA MissKeepsFresh ==
    ASSUME FreshInv, PInv', NEW f \in Feeds, End(f), Miss(f, Symbols), UNCHANGED tables
    PROVE  FreshInv'
  <1>1. StampsOK'
    BY EndStamps DEF FreshInv
  <1>2. GasAtOK'
    BY DEF FreshInv, GasAtOK, tables
  <1>3. ASSUME NEW s \in Sources, NEW c \in Symbols, coin'[s][c] # NoPrice
        PROVE  OnTime(s, missed[s][c], coin[s][c].at + MaxAge + late[s][c])'
    BY <1>3, SourceRowOnTime DEF FreshInv, PInv, RowsOnTime, tables
  <1>4. ASSUME gas' # NoPrice
        PROVE  OnTime("GAS", missed["GAS"]["ETH"], gas.at + late["GAS"]["ETH"])'
    BY <1>2, <1>4, GasRowOnTime DEF FreshInv, RowsOnTime, tables, Symbols
  <1>5. RowsOnTime'
    BY <1>3, <1>4 DEF RowsOnTime
  <1> QED
    BY <1>1, <1>2, <1>5 DEF FreshInv

LEMMA StoreKeepsFresh ==
    ASSUME FreshInv, PInv', NEW s \in Sources, End(s), NEW price \in Answers, NEW rate, Store(s, price, rate)
    PROVE  FreshInv'
  <1>1. PICK age \in Ages : coin' = [coin EXCEPT ![s] = [c \in Symbols |->
            IF c \in DOMAIN price THEN [krw |-> price[c] * rate, at |-> asked[s] - age] ELSE @[c]]]
    BY DEF Store
  <1>2. s \in Feeds /\ s # "GAS" /\ Miss(s, Symbols \ DOMAIN price) /\ gas' = gas
    BY DEF Store, Feeds, Sources
  <1>3. StampsOK' /\ GasAtOK'
    BY <1>2, EndStamps DEF FreshInv, GasAtOK
  <1>4. asked[s] \in Int /\ age \in Nat /\ age <= MaxAge /\ MaxAge \in Nat
    BY <1>2, OldestAge DEF FreshInv, PInv, TimesOK, AgesOK
  <1>5. ASSUME NEW r \in Sources, NEW c \in Symbols, coin'[r][c] # NoPrice
        PROVE  OnTime(r, missed[r][c], coin[r][c].at + MaxAge + late[r][c])'
    <2>1. \/ coin'[r][c] = coin[r][c] /\ (r = s => c \in Symbols \ DOMAIN price)
          \/ r = s /\ c \notin Symbols \ DOMAIN price /\ asked[s] <= coin'[r][c].at + MaxAge
      <3>1. CASE r = s /\ c \in DOMAIN price
        <4>1. coin'[r][c].at = asked[s] - age
          BY <1>1, <3>1 DEF FreshInv, PInv, CoinOK
        <4> QED
          BY <1>4, <3>1, <4>1
      <3>2. CASE r # s \/ c \notin DOMAIN price
        BY <1>1, <3>2 DEF FreshInv, PInv, CoinOK
      <3> QED
        BY <3>1, <3>2
    <2> QED
      BY <1>2, <1>5, <2>1, SourceRowOnTime DEF FreshInv, PInv, RowsOnTime
  <1>6. ASSUME gas' # NoPrice
        PROVE  OnTime("GAS", missed["GAS"]["ETH"], gas.at + late["GAS"]["ETH"])'
    BY <1>2, <1>3, <1>6, GasRowOnTime DEF FreshInv, RowsOnTime
  <1>7. RowsOnTime'
    BY <1>5, <1>6 DEF RowsOnTime
  <1> QED
    BY <1>3, <1>7 DEF FreshInv

LEMMA GasKeepsFresh ==
    ASSUME FreshInv, PInv', NEW g \in GasPrices, AnswerGas(g)
    PROVE  FreshInv'
  <1>0. "GAS" \in Feeds /\ End("GAS") /\ coin' = coin /\ "GAS" \notin Sources
    BY DEF AnswerGas, Feeds, Sources
  <1>1. CASE ~Fits(g)
    BY <1>0, <1>1, MissKeepsFresh DEF AnswerGas, tables
  <1>2. CASE Fits(g)
    <2>1. gas' = [average |-> g, at |-> now] /\ Miss("GAS", {})
      BY <1>2 DEF AnswerGas
    <2>2. StampsOK' /\ GasAtOK'
      BY <1>0, <2>1, EndStamps DEF FreshInv, GasAtOK, StampsOK
    <2>3. asked["GAS"] <= gas'.at
      BY <1>0, <2>1 DEF FreshInv, StampsOK, End, Idle
    <2>4. ASSUME NEW s \in Sources, NEW c \in Symbols, coin'[s][c] # NoPrice
          PROVE  OnTime(s, missed[s][c], coin[s][c].at + MaxAge + late[s][c])'
      BY <1>0, <2>1, <2>4, SourceRowOnTime DEF FreshInv, PInv, RowsOnTime
    <2>5. ASSUME gas' # NoPrice
          PROVE  OnTime("GAS", missed["GAS"]["ETH"], gas.at + late["GAS"]["ETH"])'
      BY <1>0, <2>1, <2>2, <2>3, <2>5, GasRowOnTime DEF FreshInv, RowsOnTime
    <2>6. RowsOnTime'
      BY <2>4, <2>5 DEF RowsOnTime
    <2> QED
      BY <2>2, <2>6 DEF FreshInv
  <1> QED
    BY <1>1, <1>2

LEMMA RestartKeepsFresh ==
    ASSUME FreshInv, PInv', Restart
    PROVE  FreshInv'
  <1>1. StampsOK' /\ GasAtOK'
    <2>1. missed' \in [Feeds -> [Symbols -> Nat]] /\ late' \in [Feeds -> [Symbols -> Nat]]
      <3>1. \A f \in Feeds : Overtime(f) \in Nat
        BY OvertimeIs DEF FreshInv, StampsOK
      <3> QED
        BY <3>1 DEF FreshInv, StampsOK, Restart
    <2> QED
      BY <2>1 DEF FreshInv, StampsOK, GasAtOK, Restart, Stamp, tables, Never
  <1>2. coin' = coin /\ gas' = gas
    BY DEF Restart, tables
  <1>3. ASSUME NEW f \in Feeds, NEW c \in Symbols, NEW base \in Int, OnTime(f, missed[f][c], base + late[f][c])
        PROVE  OnTime(f, missed[f][c], base + late[f][c])'
    <2> PICK k : k = missed[f][c]
      OBVIOUS
    <2> PICK o \in Nat : o = Overtime(f)
      BY OvertimeIs DEF FreshInv, StampsOK
    <2>1. k \in Nat /\ missed'[f][c] = k + 2 /\ late[f][c] \in Nat /\ late'[f][c] = late[f][c] + o
      BY DEF FreshInv, StampsOK, Restart
    <2> PICK time \in Int : time = base + late[f][c]
      BY <2>1
    <2>2. OnTime(f, k + 2, time + o)'
      BY <1>3, <2>1, RestartOnTime DEF FreshInv
    <2>3. time + o = base + late'[f][c]
      BY <2>1
    <2> QED
      BY <2>1, <2>2, <2>3 DEF OnTime, Awaiting, Between, Restarted
  <1>4. ASSUME NEW s \in Sources, NEW c \in Symbols, coin'[s][c] # NoPrice
        PROVE  OnTime(s, missed[s][c], coin[s][c].at + MaxAge + late[s][c])'
    <2>1. PICK base \in Int : base = coin[s][c].at + MaxAge
      BY <1>2, <1>4, RowTimes, OldestAge DEF FreshInv, PInv
    <2>2. OnTime(s, missed[s][c], base + late[s][c])
      BY <1>2, <1>4, <2>1 DEF FreshInv, RowsOnTime
    <2>3. OnTime(s, missed[s][c], base + late[s][c])'
      BY <1>3, <2>1, <2>2 DEF Feeds
    <2> QED
      BY <1>2, <2>1, <2>3 DEF OnTime, Awaiting, Between, Restarted
  <1>5. ASSUME gas' # NoPrice
        PROVE  OnTime("GAS", missed["GAS"]["ETH"], gas.at + late["GAS"]["ETH"])'
    <2>1. PICK base \in Int : base = gas.at
      BY <1>2, <1>5 DEF FreshInv, GasAtOK
    <2>2. OnTime("GAS", missed["GAS"]["ETH"], base + late["GAS"]["ETH"])
      BY <1>2, <1>5, <2>1 DEF FreshInv, RowsOnTime
    <2>3. OnTime("GAS", missed["GAS"]["ETH"], base + late["GAS"]["ETH"])'
      BY <1>3, <2>1, <2>2 DEF Feeds, Symbols
    <2> QED
      BY <1>2, <2>1, <2>3 DEF OnTime, Awaiting, Between, Restarted
  <1>6. RowsOnTime'
    BY <1>4, <1>5 DEF RowsOnTime
  <1> QED
    BY <1>1, <1>6 DEF FreshInv

LEMMA TickKeepsFresh ==
    ASSUME FreshInv, PInv', Tick
    PROVE  FreshInv'
  <1>1. StampsOK' /\ GasAtOK' /\ coin' = coin /\ gas' = gas /\ missed' = missed /\ late' = late
    BY TickStamps DEF FreshInv, GasAtOK, Tick, tables
  <1>2. ASSUME NEW f \in Feeds, NEW c \in Symbols, NEW base \in Int, OnTime(f, missed[f][c], base + late[f][c])
        PROVE  OnTime(f, missed[f][c], base + late[f][c])'
    <2> PICK k : k = missed[f][c]
      OBVIOUS
    <2>1. k \in Nat /\ missed'[f][c] = k /\ late[f][c] \in Nat /\ late'[f][c] = late[f][c]
      BY <1>1 DEF FreshInv, StampsOK
    <2> PICK time \in Int : time = base + late[f][c]
      BY <2>1
    <2>2. OnTime(f, k, time)'
      BY <1>2, <2>1, TickOnTime DEF FreshInv
    <2> QED
      BY <2>1, <2>2 DEF OnTime, Awaiting, Between, Restarted
  <1>3. ASSUME NEW s \in Sources, NEW c \in Symbols, coin'[s][c] # NoPrice
        PROVE  OnTime(s, missed[s][c], coin[s][c].at + MaxAge + late[s][c])'
    <2>1. PICK base \in Int : base = coin[s][c].at + MaxAge
      BY <1>1, <1>3, RowTimes, OldestAge DEF FreshInv, PInv
    <2>2. OnTime(s, missed[s][c], base + late[s][c])'
      BY <1>1, <1>2, <1>3, <2>1 DEF FreshInv, RowsOnTime, Feeds
    <2> QED
      BY <1>1, <2>1, <2>2 DEF OnTime, Awaiting, Between, Restarted
  <1>4. ASSUME gas' # NoPrice
        PROVE  OnTime("GAS", missed["GAS"]["ETH"], gas.at + late["GAS"]["ETH"])'
    <2>1. PICK base \in Int : base = gas.at
      BY <1>1, <1>4 DEF FreshInv, GasAtOK
    <2>2. OnTime("GAS", missed["GAS"]["ETH"], base + late["GAS"]["ETH"])'
      BY <1>1, <1>2, <1>4, <2>1 DEF FreshInv, RowsOnTime, Feeds, Symbols
    <2> QED
      BY <1>1, <2>1, <2>2 DEF OnTime, Awaiting, Between, Restarted
  <1>5. RowsOnTime'
    BY <1>3, <1>4 DEF RowsOnTime
  <1> QED
    BY <1>1, <1>5 DEF FreshInv

LEMMA TraderKeepsFresh ==
    ASSUME FreshInv, PInv', Trader \/ UNCHANGED vars
    PROVE  FreshInv'
  <1>1. UNCHANGED <<now, feeds, tables>>
    BY DEF Trader, AskFee, Pay, ReadGas, Judge, Leave, vars
  <1> QED
    BY <1>1 DEF FreshInv, StampsOK, GasAtOK, RowsOnTime, OnTime, Awaiting, Between, Restarted, Idle,
                feeds, tables

LEMMA FreshInit == Init => FreshInv
  BY PInvInit, StampsInit DEF Init, FreshInv, GasAtOK, RowsOnTime

LEMMA StepKeepsFresh ==
    ASSUME FreshInv, [Next]_vars
    PROVE  FreshInv'
  <1>0. PInv'
    BY StepKeepsRows DEF FreshInv
  <1>1. ASSUME NEW f \in Feeds, Fail(f) PROVE FreshInv'
    BY <1>0, <1>1, MissKeepsFresh DEF Fail, tables
  <1>2. ASSUME NEW g \in GasPrices, AnswerGas(g) PROVE FreshInv'
    BY <1>0, <1>2, GasKeepsFresh
  <1>3. ASSUME NEW price \in Answers, AnswerCGC(price) PROVE FreshInv'
    <2>1. CASE Good(price)
      BY <1>0, <1>3, <2>1, StoreKeepsFresh DEF AnswerCGC, Sources
    <2>2. CASE ~Good(price)
      BY <1>0, <1>3, <2>2, MissKeepsFresh DEF AnswerCGC, Sources, Feeds
    <2> QED
      BY <2>1, <2>2
  <1>4. ASSUME NEW price \in Answers, AnswerCMC(price) PROVE FreshInv'
    <2>1. CASE Good(price)
      <3> PICK rate : rate = krwRate'
        OBVIOUS
      <3>1. End("CMC") /\ Store("CMC", price, rate)
        BY <1>4, <2>1 DEF AnswerCMC
      <3> QED
        BY <1>0, <3>1, StoreKeepsFresh DEF Sources
    <2>2. CASE ~Good(price)
      BY <1>0, <1>4, <2>2, MissKeepsFresh DEF AnswerCMC, Sources, Feeds
    <2> QED
      BY <2>1, <2>2
  <1>5. CASE Restart
    BY <1>0, <1>5, RestartKeepsFresh
  <1>6. CASE Tick
    BY <1>0, <1>6, TickKeepsFresh
  <1>7. CASE Trader \/ UNCHANGED vars
    BY <1>0, <1>7, TraderKeepsFresh
  <1> QED
    BY <1>1, <1>2, <1>3, <1>4, <1>5, <1>6, <1>7 DEF Next, Feed

LEMMA OldestIs ==
    ASSUME NEW k \in Nat
    PROVE  OldestAfter(k) \in Nat /\ OldestAfter(k) = k * Gap + Gap + Latency
  <1>1. OldestAfter(k) = (k + 1) * Gap + Latency
    BY DEF OldestAfter, Gap
  <1>2. (k + 1) * Gap = k * Gap + Gap /\ k * Gap \in Nat /\ Gap \in Nat /\ Latency \in Nat
    BY Gaps
  <1> QED
    BY <1>1, <1>2

LEMMA FreshIsUsed == FreshInv => UsedIsFresh
  <1> SUFFICES ASSUME FreshInv
               PROVE  UsedIsFresh
    OBVIOUS
  <1>0. ASSUME NEW f \in Feeds, NEW c \in Symbols, NEW base \in Int, OnTime(f, missed[f][c], base + late[f][c])
        PROVE  now <= base + OldestAfter(missed[f][c]) + Lost(f, c) /\ OldestAfter(missed[f][c]) \in Nat
               /\ Lost(f, c) \in Nat
    <2> PICK k \in Nat, l \in Nat, o \in Nat : k = missed[f][c] /\ l = late[f][c] /\ o = Overtime(f)
      BY OvertimeIs DEF FreshInv, StampsOK
    <2> PICK time \in Int : time = base + l
      OBVIOUS
    <2> PICK d \in Nat : d = k * Gap
      BY Gaps
    <2>1. now <= time + d + Gap + Latency + o
      BY <1>0, OnTimeBound DEF FreshInv
    <2>2. OldestAfter(k) \in Nat /\ OldestAfter(k) = d + Gap + Latency /\ Gap \in Nat /\ Latency \in Nat
      <3>1. OldestAfter(k) \in Nat /\ OldestAfter(k) = k * Gap + Gap + Latency
        BY OldestIs
      <3> QED
        BY <3>1, Gaps
    <2>3. Lost(f, c) = l + o
      BY DEF Lost
    <2>4. now \in Nat
      BY DEF FreshInv, StampsOK
    <2> QED
      BY <2>1, <2>2, <2>3, <2>4
  <1>1. ASSUME NEW c \in Symbols, NEW used \in Latest(c), NEW s \in Rows(c)
        PROVE  now - used.at <= OldestAfter(missed[s][c]) + MaxAge + Lost(s, c)
    <2>1. PICK q \in Rows(c) : used = coin[q][c] /\ coin[s][c].at <= used.at
      BY DEF Latest
    <2>2. s \in Feeds /\ s \in Sources /\ coin[s][c] # NoPrice /\ q \in Sources /\ coin[q][c] # NoPrice
      BY DEF Rows, Feeds
    <2>3. coin[s][c].at \in Int /\ used.at \in Int /\ MaxAge \in Nat /\ now \in Nat
      BY <2>1, <2>2, RowTimes, OldestAge DEF FreshInv, PInv, StampsOK
    <2>4. PICK base \in Int : base = coin[s][c].at + MaxAge
      BY <2>3
    <2>5. OnTime(s, missed[s][c], base + late[s][c])
      BY <2>2, <2>4 DEF FreshInv, RowsOnTime
    <2>6. now <= base + OldestAfter(missed[s][c]) + Lost(s, c) /\ OldestAfter(missed[s][c]) \in Nat
          /\ Lost(s, c) \in Nat
      BY <1>0, <2>2, <2>5
    <2> QED
      BY <2>1, <2>3, <2>4, <2>6
  <1>2. ASSUME gas # NoPrice
        PROVE  now - gas.at <= OldestAfter(missed["GAS"]["ETH"]) + Lost("GAS", "ETH")
    <2>1. PICK base \in Int : base = gas.at
      BY <1>2 DEF FreshInv, GasAtOK
    <2>2. "GAS" \in Feeds /\ "ETH" \in Symbols
      BY DEF Feeds, Symbols
    <2>3. now <= base + OldestAfter(missed["GAS"]["ETH"]) + Lost("GAS", "ETH")
          /\ OldestAfter(missed["GAS"]["ETH"]) \in Nat /\ Lost("GAS", "ETH") \in Nat
      BY <1>0, <1>2, <2>1, <2>2 DEF FreshInv, RowsOnTime
    <2>4. now \in Nat
      BY DEF FreshInv, StampsOK
    <2> QED
      BY <2>1, <2>3, <2>4
  <1> QED
    BY <1>1, <1>2 DEF UsedIsFresh

(* However many asks of a source fail, however long its works take and     *)
(* however often the server starts again, a price that the fees use is no  *)
(* older than the schedule of the better source and what its works were    *)
(* late by allow (work(), getCoinPrices, getGasPrice).                     *)
THEOREM FreshPrices == Spec => []UsedIsFresh
  <1>1. FreshInv /\ [Next]_vars => FreshInv'
    BY StepKeepsFresh
  <1> QED
    BY FreshInit, <1>1, FreshIsUsed, PTL DEF Spec

(***************************************************************************)
(* Induction over a set of numbers, which needs no operator as parameter.  *)
(***************************************************************************)
LEMMA Least ==
    ASSUME NEW T \in SUBSET Nat, T # {}
    PROVE  \E x \in T : \A y \in T : x <= y
  <1>1. PICK x \in T : \A y \in T : ~ (<<y, x>> \in OpToRel(<, Nat))
    BY NatLessThanWellFounded, WFMin
  <1>2. \A y \in T : ~ (y < x)
    BY <1>1 DEF OpToRel
  <1> QED
    BY <1>2

LEMMA NatSet ==
    ASSUME NEW S, 0 \in S, \A n \in Nat : n \in S => n + 1 \in S
    PROVE  Nat \subseteq S
  <1> SUFFICES ASSUME Nat \ S # {}
               PROVE  FALSE
    OBVIOUS
  <1>1. PICK x \in Nat \ S : \A y \in Nat \ S : x <= y
    BY Least
  <1>2. x # 0 /\ x - 1 \in Nat /\ x - 1 < x
    BY <1>1
  <1>3. x - 1 \in S
    BY <1>1, <1>2
  <1> QED
    BY <1>1, <1>2, <1>3

(***************************************************************************)
(* Powers of ten.                                                          *)
(***************************************************************************)
(* A function with the first values of Tens. *)
Begins(g, n) ==
    /\ g \in [0 .. n -> Nat]
    /\ g[0] = 1
    /\ \A k \in 1 .. n : g[k] = 10 * g[k - 1]

LEMMA BeginsLonger ==
    ASSUME NEW n \in Nat, NEW g, Begins(g, n)
    PROVE  \E h : Begins(h, n + 1)
  <1> DEFINE h == [k \in 0 .. n + 1 |-> IF k = n + 1 THEN 10 * g[n] ELSE g[k]]
  <1>1. h \in [0 .. n + 1 -> Nat]
    <2>1. ASSUME NEW k \in 0 .. n + 1
          PROVE  h[k] \in Nat
      <3>1. CASE k = n + 1
        BY <3>1 DEF Begins
      <3>2. CASE k # n + 1
        BY <3>2 DEF Begins
      <3> QED
        BY <3>1, <3>2
    <2> QED
      BY <2>1
  <1>2. h[0] = 1
    BY DEF Begins
  <1>3. ASSUME NEW k \in 1 .. n + 1
        PROVE  h[k] = 10 * h[k - 1]
    <2>1. h[k - 1] = g[k - 1] /\ k - 1 \in 0 .. n
      OBVIOUS
    <2>2. CASE k = n + 1
      BY <2>1, <2>2
    <2>3. CASE k # n + 1
      BY <2>1, <2>3 DEF Begins
    <2> QED
      BY <2>2, <2>3
  <1>4. Begins(h, n + 1)
    BY <1>1, <1>2, <1>3 DEF Begins
  <1> QED
    BY <1>4

LEMMA BeginsExists == \A n \in Nat : \E g : Begins(g, n)
  <1> DEFINE S == {n \in Nat : \E g : Begins(g, n)}
  <1>1. 0 \in S
    <2>1. Begins([k \in 0 .. 0 |-> 1], 0)
      BY DEF Begins
    <2> QED
      BY <2>1
  <1>2. \A n \in Nat : n \in S => n + 1 \in S
    BY BeginsLonger
  <1>3. Nat \subseteq S
    <2> HIDE DEF S
    <2> QED
      BY <1>1, <1>2, NatSet
  <1> QED
    BY <1>3

LEMMA BeginsUnique ==
    ASSUME NEW m \in Nat, NEW n \in Nat, NEW g, NEW h, Begins(g, m), Begins(h, n),
           NEW k \in 0 .. m, k <= n
    PROVE  g[k] = h[k]
  <1> DEFINE S == {j \in Nat : j <= m /\ j <= n => g[j] = h[j]}
  <1>1. 0 \in S
    BY DEF Begins
  <1>2. ASSUME NEW j \in Nat, j \in S
        PROVE  j + 1 \in S
    <2> SUFFICES ASSUME j + 1 <= m, j + 1 <= n
                 PROVE  g[j + 1] = h[j + 1]
      OBVIOUS
    <2>1. g[j] = h[j]
      BY <1>2
    <2>2. j + 1 \in 1 .. m /\ j + 1 \in 1 .. n /\ (j + 1) - 1 = j
      OBVIOUS
    <2> QED
      BY <2>1, <2>2 DEF Begins
  <1>3. Nat \subseteq S
    <2> HIDE DEF S
    <2> QED
      BY <1>1, <1>2, NatSet
  <1> QED
    BY <1>3

LEMMA TensRule == Tens = [n \in Nat |-> IF n = 0 THEN 1 ELSE 10 * Tens[n - 1]]
  <1> DEFINE of(n) == CHOOSE g : Begins(g, n)
             f == [n \in Nat |-> of(n)[n]]
  <1>1. \A n \in Nat : Begins(of(n), n)
    BY BeginsExists
  <1> HIDE DEF of
  <1>2. ASSUME NEW n \in Nat
        PROVE  f[n] = IF n = 0 THEN 1 ELSE 10 * f[n - 1]
    <2>1. CASE n = 0
      BY <1>1, <2>1 DEF Begins
    <2>2. CASE n # 0
      <3>1. n - 1 \in Nat /\ n - 1 \in 0 .. n /\ n - 1 \in 0 .. n - 1 /\ n - 1 <= n - 1 /\ n \in 1 .. n
        BY <2>2
      <3>2. of(n)[n - 1] = of(n - 1)[n - 1]
        BY <1>1, <3>1, BeginsUnique
      <3>3. of(n)[n] = 10 * of(n)[n - 1]
        BY <1>1, <3>1 DEF Begins
      <3> QED
        BY <2>2, <3>1, <3>2, <3>3
    <2> QED
      BY <2>1, <2>2
  <1>3. f = [n \in Nat |-> IF n = 0 THEN 1 ELSE 10 * f[n - 1]]
    <2> DEFINE g == [n \in Nat |-> IF n = 0 THEN 1 ELSE 10 * f[n - 1]]
    <2>1. \A n \in Nat : f[n] = g[n]
      BY <1>2
    <2>2. f = [n \in Nat |-> f[n]] /\ g = [n \in Nat |-> g[n]]
      OBVIOUS
    <2> QED
      BY <2>1, <2>2
  <1> HIDE DEF f
  <1> QED
    BY <1>3 DEF Tens

LEMMA TensSteps ==
    /\ Tens[0] = 1
    /\ \A n \in Nat : Tens[n + 1] = 10 * Tens[n]
  <1>1. \A n \in Nat : Tens[n] = IF n = 0 THEN 1 ELSE 10 * Tens[n - 1]
    BY TensRule
  <1>2. ASSUME NEW n \in Nat
        PROVE  Tens[n + 1] = 10 * Tens[n]
    <2>1. n + 1 \in Nat /\ n + 1 # 0 /\ (n + 1) - 1 = n
      OBVIOUS
    <2> QED
      BY <1>1, <2>1
  <1> QED
    BY <1>1, <1>2

LEMMA TensPositive == \A n \in Nat : Tens[n] \in Nat \ {0}
  <1> DEFINE S == {n \in Nat : Tens[n] \in Nat \ {0}}
  <1>1. 0 \in S
    BY TensSteps
  <1>2. \A n \in Nat : n \in S => n + 1 \in S
    BY TensSteps
  <1>3. Nat \subseteq S
    <2> HIDE DEF S
    <2> QED
      BY <1>1, <1>2, NatSet
  <1> QED
    BY <1>3

LEMMA TensSum == \A m, n \in Nat : Tens[m + n] = Tens[m] * Tens[n]
  <1> SUFFICES ASSUME NEW m \in Nat
               PROVE  \A n \in Nat : Tens[m + n] = Tens[m] * Tens[n]
    OBVIOUS
  <1> DEFINE S == {n \in Nat : Tens[m + n] = Tens[m] * Tens[n]}
  <1>0. \A n \in Nat : Tens[n] \in Nat
    BY TensPositive
  <1>1. 0 \in S
    BY TensSteps, <1>0
  <1>2. ASSUME NEW n \in Nat, n \in S
        PROVE  n + 1 \in S
    <2>1. Tens[m + n] = Tens[m] * Tens[n] /\ Tens[n + 1] = 10 * Tens[n]
      BY <1>2, TensSteps
    <2>2. m + (n + 1) = (m + n) + 1 /\ m + n \in Nat
      OBVIOUS
    <2>3. Tens[m + (n + 1)] = 10 * Tens[m + n]
      BY <2>2, TensSteps
    <2>4. Tens[m + (n + 1)] = Tens[m] * Tens[n + 1]
      <3> DEFINE a == Tens[m]
                 b == Tens[n]
      <3>1. a \in Nat /\ b \in Nat
        BY <1>0
      <3> HIDE DEF a, b
      <3>2. 10 * (a * b) = a * (10 * b)
        BY <3>1
      <3> QED
        BY <2>1, <2>3, <3>2 DEF a, b
    <2> QED
      BY <2>4
  <1>3. Nat \subseteq S
    <2> HIDE DEF S
    <2> QED
      BY <1>1, <1>2, NatSet
  <1> QED
    BY <1>3

LEMMA TensGrow ==
    ASSUME NEW m \in Nat, NEW n \in Nat, m <= n
    PROVE  Tens[n] = Tens[m] * Tens[n - m] /\ Tens[m] <= Tens[n]
  <1>1. n - m \in Nat /\ m + (n - m) = n
    OBVIOUS
  <1>2. Tens[n] = Tens[m] * Tens[n - m]
    BY <1>1, TensSum
  <1>3. Tens[m] \in Nat \ {0} /\ Tens[n - m] \in Nat \ {0}
    BY <1>1, TensPositive
  <1>4. ASSUME NEW a \in Nat \ {0}, NEW b \in Nat \ {0}
        PROVE  a <= a * b
    BY <1>4
  <1> QED
    BY <1>2, <1>3, <1>4

LEMMA TensOrder ==
    ASSUME NEW m \in Nat, NEW n \in Nat, Tens[m] < Tens[n]
    PROVE  m < n
  <1>1. CASE n <= m
    BY <1>1, TensGrow, TensPositive
  <1> QED
    BY <1>1

(* The digits of an amount. *)
HasDigits(v, d) == v < Tens[d] /\ (d = 1 \/ v >= Tens[d - 1])

LEMMA DigitsOfAmount ==
    ASSUME NEW v \in Nat, v < Tens[MaxDigits]
    PROVE  Digits(v) \in 1 .. MaxDigits /\ HasDigits(v, Digits(v))
  <1>1. \E d \in 1 .. MaxDigits : HasDigits(v, d)
    <2> DEFINE T == {d \in Nat : d >= 1 /\ v < Tens[d]}
    <2>1. MaxDigits \in T
      BY Scales
    <2>2. PICK d \in T : \A e \in T : d <= e
      <3> HIDE DEF T
      <3>1. T # {}
        BY <2>1
      <3>2. T \in SUBSET Nat
        BY DEF T
      <3> QED
        BY <3>1, <3>2, Least
    <2>3. d \in 1 .. MaxDigits
      BY <2>1, <2>2, Scales
    <2>4. CASE d = 1
      BY <2>2, <2>3, <2>4 DEF HasDigits
    <2>5. CASE d # 1
      <3>1. d - 1 \in Nat /\ d - 1 >= 1 /\ d - 1 < d
        BY <2>3, <2>5
      <3>2. d - 1 \notin T
        <4> HIDE DEF T
        <4> QED
          BY <2>2, <2>3, <3>1, Scales
      <3>3. ~(v < Tens[d - 1])
        BY <3>1, <3>2
      <3> QED
        BY <2>2, <2>3, <3>1, <3>3, TensPositive DEF HasDigits
    <2> QED
      BY <2>4, <2>5
  <1> QED
    BY <1>1 DEF HasDigits, Digits

(* A number times a power of ten, with any digits behind, is not before    *)
(* the number as a text.                                                   *)
LEMMA LongerIsNotBefore ==
    ASSUME NEW v \in Nat, NEW w \in Nat \ {0}, NEW j \in Nat,
           v < Tens[MaxDigits], w < Tens[MaxDigits],
           w * Tens[j] <= v, v < (w + 1) * Tens[j]
    PROVE  ~TextBefore(v, w)
  <1> DEFINE dv == Digits(v)
             dw == Digits(w)
             K == Tens[j]
  <1>1. /\ dv \in 1 .. MaxDigits /\ v < Tens[dv] /\ (dv = 1 \/ v >= Tens[dv - 1])
        /\ dw \in 1 .. MaxDigits /\ w < Tens[dw] /\ (dw = 1 \/ w >= Tens[dw - 1])
    BY DigitsOfAmount DEF HasDigits
  <1> HIDE DEF dv, dw
  <1>2. dv \in Nat /\ dw \in Nat /\ dv - 1 \in Nat /\ dw - 1 \in Nat /\ dw + j \in Nat /\ dw - 1 + j \in Nat
    BY <1>1
  <1>3. K \in Nat \ {0} /\ Tens[dw] \in Nat \ {0} /\ Tens[dw - 1] \in Nat \ {0} /\ Tens[dv] \in Nat \ {0}
          /\ Tens[dv - 1] \in Nat \ {0} /\ Tens[dw + j] \in Nat \ {0} /\ Tens[dw - 1 + j] \in Nat \ {0}
    BY <1>2, TensPositive
  <1>4. Tens[dw + j] = Tens[dw] * K /\ Tens[dw - 1 + j] = Tens[dw - 1] * K
    BY <1>2, TensSum
  <1>5. w >= Tens[dw - 1]
    BY <1>1, TensSteps
  <1>6. v < Tens[dw + j]
    <2>1. ASSUME NEW a \in Nat, NEW b \in Nat, NEW k \in Nat, a < b
          PROVE  (a + 1) * k <= b * k
      <3>1. a + 1 <= b
        BY <2>1
      <3> QED
        BY <3>1
    <2> HIDE DEF K
    <2>2. (w + 1) * K <= Tens[dw] * K
      BY <1>1, <1>3, <2>1
    <2>3. (w + 1) * K \in Nat /\ Tens[dw] * K \in Nat
      BY <1>3
    <2> QED
      BY <1>4, <2>2, <2>3 DEF K
  <1>7. Tens[dw - 1 + j] <= v
    <2>1. ASSUME NEW a \in Nat, NEW b \in Nat, NEW k \in Nat, a <= b
          PROVE  a * k <= b * k
      BY <2>1
    <2> HIDE DEF K
    <2>2. Tens[dw - 1] * K <= w * K
      BY <1>3, <1>5, <2>1
    <2>3. w * K \in Nat
      BY <1>3
    <2> QED
      BY <1>3, <1>4, <2>2, <2>3 DEF K
  <1>8. dv = dw + j
    <2>1. dw - 1 + j < dv
      BY <1>1, <1>2, <1>3, <1>7, TensOrder
    <2>2. dv - 1 < dw + j
      <3>1. CASE dv = 1
        BY <1>1, <3>1
      <3>2. CASE dv # 1
        BY <1>1, <1>2, <1>3, <1>6, <3>2, TensOrder
      <3> QED
        BY <3>1, <3>2
    <2> QED
      BY <1>2, <2>1, <2>2
  <1>9. MaxDigits - dv \in Nat /\ MaxDigits - dw = j + (MaxDigits - dv)
    BY <1>1, <1>2, <1>8, Scales
  <1> DEFINE L == Tens[MaxDigits - dv]
  <1>10. L \in Nat \ {0} /\ Tens[MaxDigits - dw] = K * L
    BY <1>9, TensPositive, TensSum
  <1>11. Padded(v) = v * L /\ Padded(w) = w * (K * L)
    BY <1>10 DEF Padded, dv, dw
  <1>12. w * (K * L) <= v * L
    <2>1. ASSUME NEW k \in Nat, NEW l \in Nat, w * k <= v
          PROVE  w * (k * l) <= v * l
      <3>1. w * (k * l) = (w * k) * l /\ w * k \in Nat
        OBVIOUS
      <3>2. ASSUME NEW a \in Nat, NEW b \in Nat, a <= b
            PROVE  a * l <= b * l
        BY <3>2
      <3> QED
        BY <2>1, <3>1, <3>2
    <2> HIDE DEF L, K
    <2> QED
      BY <1>3, <1>10, <2>1 DEF K
  <1>13. v * L \in Nat /\ w * (K * L) \in Nat /\ dw <= dv
    BY <1>2, <1>3, <1>8, <1>10
  <1>14. Padded(w) <= Padded(v) /\ Padded(v) \in Nat /\ Padded(w) \in Nat
    BY <1>11, <1>12, <1>13
  <1>15. Digits(w) <= Digits(v) /\ Digits(v) \in Nat /\ Digits(w) \in Nat
    BY <1>2, <1>13 DEF dv, dw
  <1> QED
    BY <1>14, <1>15 DEF TextBefore

LEMMA Quotient ==
    ASSUME NEW p \in Nat, NEW q \in Nat \ {0}
    PROVE  p \div q \in Nat /\ p \div 1 = p
  OBVIOUS

(***************************************************************************)
(* Types: the rows hold prices and the trader's fees those of FeesMade.    *)
(***************************************************************************)
StoredOK ==
    /\ gas # NoPrice => gas.average \in GasPrices /\ Fits(gas.average) /\ gas.at \in 0 .. now
    /\ \A s \in Sources, c \in Symbols :
        coin[s][c] # NoPrice => coin[s][c].krw \in Krws \cup {0} /\ coin[s][c].at \in -MaxAge .. now
RatesOK == krwRate \in KrwRates \cup {0} /\ loop \in 0 .. KrwEvery - 1
BoundsOK == now \in Times /\ faults \in 0 .. MaxFaults
Steps == {"none", "asking", "paid", "judging", "accepted", "refused"}
TraderOK ==
    /\ user \in [step : Steps, type : Types, dir : Directions, gas : GasPrices \cup {0},
                 fee : FeesMade, swap : Nat, need : FeesMade]
    /\ user.step \in {"asking", "judging"} => user.gas \in GasPrices
TypesInv == FreshInv /\ StoredOK /\ RatesOK /\ BoundsOK /\ TraderOK

LEMMA KrwMade ==
    ASSUME NEW price \in Answers, Good(price), NEW c \in DOMAIN price, NEW rate \in KrwRates \cup {1}
    PROVE  price[c] * rate \in Krws \cup {0}
  <1>1. PICK S \in SUBSET Symbols : price \in [S -> Prices]
    BY DEF Answers
  <1>2. price[c] \in Prices /\ price[c] \in Int /\ price[c] > 0 /\ rate \in Nat
    <2>1. price[c] \in Prices
      BY <1>1
    <2>2. price[c] > 0
      BY DEF Good
    <2>3. rate \in Nat
      BY FeedSetup
    <2> QED
      BY <2>1, <2>2, <2>3, FeedSetup
  <1>3. price[c] * rate > 0 \/ price[c] * rate = 0
    <2>1. ASSUME NEW x \in Nat, NEW y \in Nat
          PROVE  x * y > 0 \/ x * y = 0
      OBVIOUS
    <2> QED
      BY <1>2, <2>1
  <1> QED
    BY <1>2, <1>3 DEF Krws

LEMMA StoreKeepsRows ==
    ASSUME FreshInv, StoredOK, NEW s \in Sources, End(s), NEW price \in Answers, Good(price),
           NEW rate \in KrwRates \cup {1}, Store(s, price, rate)
    PROVE  StoredOK'
  <1>1. PICK age \in Ages : coin' = [coin EXCEPT ![s] = [c \in Symbols |->
            IF c \in DOMAIN price THEN [krw |-> price[c] * rate, at |-> asked[s] - age] ELSE @[c]]]
    BY DEF Store
  <1>2. s \in Feeds /\ gas' = gas /\ now' = now
    BY DEF Store, End, Feeds
  <1>3. asked[s] \in Nat /\ asked[s] <= now /\ age \in Nat /\ age <= MaxAge /\ MaxAge \in Nat /\ now \in Nat
    BY <1>2, OldestAge DEF FreshInv, StampsOK, Stamp, AgesOK, End, Idle
  <1>4. ASSUME NEW r \in Sources, NEW c \in Symbols, coin'[r][c] # NoPrice
        PROVE  coin'[r][c].krw \in Krws \cup {0} /\ coin'[r][c].at \in -MaxAge .. now
    <2>1. CASE r = s /\ c \in DOMAIN price
      <3>1. coin'[r][c] = [krw |-> price[c] * rate, at |-> asked[s] - age]
        BY <1>1, <2>1 DEF FreshInv, PInv, CoinOK
      <3> QED
        BY <1>3, <2>1, <3>1, KrwMade
    <2>2. CASE r # s \/ c \notin DOMAIN price
      BY <1>1, <1>4, <2>2 DEF FreshInv, PInv, CoinOK, StoredOK
    <2> QED
      BY <2>1, <2>2
  <1> QED
    BY <1>2, <1>4 DEF StoredOK

LEMMA SwapFeeIsAmount ==
    ASSUME NEW type \in Types, NEW d \in {TokenDecimals, CoinDecimals}
    PROVE  SwapFee(type, d) \in Nat
  <1>1. BridgeFee \in Nat /\ Tens[d] \in Nat
    BY Scales, TensPositive
  <1>2. ASSUME NEW x \in Nat, NEW y \in Nat
        PROVE  (x * y) \div 1 \in Nat
    BY Quotient
  <1>3. (BridgeFee * Tens[d]) \div 1 \in Nat
    BY <1>1, <1>2
  <1> QED
    BY <1>3 DEF SwapFee, Make

LEMMA TypesInit == Init => TypesInv
  <1> SUFFICES ASSUME Init
               PROVE  TypesInv
    OBVIOUS
  <1>1. StoredOK /\ RatesOK /\ BoundsOK
    BY FeedSetup DEF Init, StoredOK, RatesOK, BoundsOK, Times
  <1>2. TraderOK
    <2>1. 0 \in FeesMade
      BY DEF FeesMade
    <2> QED
      BY <2>1 DEF Init, TraderOK, NoUser, Steps, Types, Directions
  <1> QED
    BY <1>1, <1>2, FreshInit DEF TypesInv

LEMMA FeedKeepsTypes ==
    ASSUME TypesInv, FreshInv', Feed
    PROVE  TypesInv'
  <1>0. ASSUME NEW f \in Feeds, End(f), NEW S, Miss(f, S)
        PROVE  BoundsOK' /\ now' = now /\ user' = user
    BY <1>0 DEF End, Miss, TypesInv, BoundsOK
  <1>1. ASSUME user' = user
        PROVE  TraderOK'
    BY <1>1 DEF TypesInv, TraderOK
  <1>2. ASSUME UNCHANGED <<gas, coin, now>>
        PROVE  StoredOK'
    BY <1>2 DEF TypesInv, StoredOK
  <1>3. ASSUME UNCHANGED <<krwRate, loop>>
        PROVE  RatesOK'
    BY <1>3 DEF TypesInv, RatesOK
  <1>4. ASSUME NEW f \in Feeds, Fail(f)
        PROVE  TypesInv'
    BY <1>0, <1>1, <1>2, <1>3, <1>4 DEF Fail, tables, TypesInv
  <1>5. ASSUME NEW g \in GasPrices, AnswerGas(g)
        PROVE  TypesInv'
    <2>1. End("GAS") /\ "GAS" \in Feeds /\ coin' = coin /\ \E S : Miss("GAS", S)
      BY <1>5 DEF AnswerGas, Feeds
    <2>2. BoundsOK' /\ now' = now /\ TraderOK' /\ RatesOK'
      BY <1>0, <1>1, <1>3, <1>5, <2>1 DEF AnswerGas
    <2>3. StoredOK'
      <3>1. CASE Fits(g)
        BY <1>5, <2>1, <2>2, <3>1 DEF AnswerGas, StoredOK, TypesInv, FreshInv, StampsOK
      <3>2. CASE ~Fits(g)
        BY <1>2, <1>5, <2>1, <2>2, <3>2 DEF AnswerGas
      <3> QED
        BY <3>1, <3>2
    <2> QED
      BY <2>2, <2>3 DEF TypesInv
  <1>6. ASSUME NEW price \in Answers, AnswerCGC(price)
        PROVE  TypesInv'
    <2>1. End("CGC") /\ "CGC" \in Sources /\ "CGC" \in Feeds /\ \E S : Miss("CGC", S)
      BY <1>6 DEF AnswerCGC, Store, Sources, Feeds
    <2>2. BoundsOK' /\ now' = now /\ TraderOK' /\ RatesOK'
      BY <1>0, <1>1, <1>3, <1>6, <2>1 DEF AnswerCGC
    <2>3. StoredOK'
      <3>1. CASE Good(price)
        <4>1. Store("CGC", price, 1)
          BY <1>6, <3>1 DEF AnswerCGC
        <4> QED
          BY <2>1, <3>1, <4>1, StoreKeepsRows DEF TypesInv
      <3>2. CASE ~Good(price)
        BY <1>2, <1>6, <2>2, <3>2 DEF AnswerCGC, tables
      <3> QED
        BY <3>1, <3>2
    <2> QED
      BY <2>2, <2>3 DEF TypesInv
  <1>7. ASSUME NEW price \in Answers, AnswerCMC(price)
        PROVE  TypesInv'
    <2>1. End("CMC") /\ "CMC" \in Sources /\ "CMC" \in Feeds /\ \E S : Miss("CMC", S)
      BY <1>7 DEF AnswerCMC, Store, Sources, Feeds
    <2>2. BoundsOK' /\ now' = now /\ TraderOK'
      BY <1>0, <1>1, <2>1
    <2> PICK rate : rate = krwRate'
      OBVIOUS
    <2>3. rate \in KrwRates
      BY <1>7 DEF AnswerCMC, KrwKnown, KrwDue, TypesInv, RatesOK
    <2>4. RatesOK'
      <3>1. loop' = loop \/ loop' = (loop + 1) % KrwEvery
        BY <1>7 DEF AnswerCMC
      <3>2. loop \in Nat /\ KrwEvery \in Nat \ {0} /\ loop \in 0 .. KrwEvery - 1
        BY FeedSetup DEF TypesInv, RatesOK
      <3> QED
        BY <2>3, <3>1, <3>2 DEF RatesOK
    <2>5. StoredOK'
      <3>1. CASE Good(price)
        <4>1. Store("CMC", price, rate)
          BY <1>7, <3>1 DEF AnswerCMC
        <4> QED
          BY <2>1, <2>3, <3>1, <4>1, StoreKeepsRows DEF TypesInv
      <3>2. CASE ~Good(price)
        BY <1>2, <1>7, <2>2, <3>2 DEF AnswerCMC, tables
      <3> QED
        BY <3>1, <3>2
    <2> QED
      BY <2>2, <2>4, <2>5 DEF TypesInv
  <1>8. CASE Restart
    <2>1. UNCHANGED <<now, tables, user>>
      BY <1>8 DEF Restart
    <2>2. RatesOK' /\ BoundsOK'
      BY <1>8, FeedSetup DEF Restart, RatesOK, BoundsOK, TypesInv
    <2> QED
      BY <1>1, <1>2, <2>1, <2>2 DEF TypesInv, tables
  <1> QED
    BY <1>4, <1>5, <1>6, <1>7, <1>8 DEF Feed

LEMMA TickKeepsTypes ==
    ASSUME TypesInv, FreshInv', Tick
    PROVE  TypesInv'
  <1>1. UNCHANGED <<tables, user, krwRate, loop, faults>> /\ now' = now + 1 /\ now' \in Times /\ now \in Nat
    BY FeedSetup DEF Tick, TypesInv, BoundsOK, Times
  <1>2. MaxAge \in Nat
    BY OldestAge
  <1>3. StoredOK'
    BY <1>1, <1>2 DEF StoredOK, TypesInv, tables
  <1> QED
    BY <1>1, <1>3 DEF TypesInv, RatesOK, BoundsOK, TraderOK, tables

(* A fee that is made of the rows as they are. *)
LEMMA FeeIsMade ==
    ASSUME TypesInv, NEW e \in Latest("ETH"), NEW b \in Latest("BOA"), NEW type \in Types, NEW dir \in Directions,
           NEW g \in GasPrices, NEW d \in {TokenDecimals, CoinDecimals}, Computable(type, dir, b.krw)
    PROVE  EstimatedTxFee(type, dir, g, e.krw, b.krw, d) \in FeesMade
  <1>1. e.krw \in Krws \cup {0} /\ b.krw \in Krws \cup {0}
    BY DEF Latest, Rows, TypesInv, StoredOK, Symbols
  <1>2. ASSUME NEW eth \in Krws \cup {0}, NEW boa \in Krws \cup {1}
        PROVE  EstimatedTxFee(type, dir, g, eth, boa, d) \in FeesMade
    BY DEF FeesMade
  <1>3. CASE b.krw # 0
    BY <1>1, <1>2, <1>3
  <1>4. CASE type = "TOKEN" /\ dir = "ETHNET_BIZNET"
    <2>1. EstimatedTxFee(type, dir, g, e.krw, b.krw, d) = EstimatedTxFee(type, dir, g, e.krw, 1, d)
      BY <1>4 DEF EstimatedTxFee, TokenTxFee
    <2> QED
      BY <1>1, <1>2, <2>1
  <1> QED
    BY <1>3, <1>4 DEF Computable

LEMMA TraderKeepsTypes ==
    ASSUME TypesInv, FreshInv', Trader \/ UNCHANGED vars
    PROVE  TypesInv'
  <1>1. UNCHANGED <<now, feeds, tables>>
    BY DEF Trader, AskFee, Pay, ReadGas, Judge, Leave, vars
  <1>2. StoredOK' /\ RatesOK' /\ BoundsOK'
    BY <1>1 DEF TypesInv, StoredOK, RatesOK, BoundsOK, feeds, tables
  <1> SUFFICES TraderOK'
    BY <1>2 DEF TypesInv
  <1>3. gas # NoPrice => gas.average \in GasPrices
    BY DEF TypesInv, StoredOK
  <1>4. ASSUME NEW type \in Types, NEW dir \in Directions, AskFee(type, dir)
        PROVE  TraderOK'
    <2>1. gas.average \in GasPrices
      BY <1>3, <1>4 DEF AskFee
    <2>2. user' = [step |-> "asking", type |-> type, dir |-> dir, gas |-> gas.average,
                   fee |-> 0, swap |-> 0, need |-> 0]
      BY <1>4 DEF AskFee, NoUser
    <2>3. 0 \in FeesMade
      BY DEF FeesMade
    <2> QED
      BY <2>1, <2>2, <2>3 DEF TraderOK, Steps
  <1>5. CASE ReadGas("paid", "judging")
    BY <1>3, <1>5 DEF ReadGas, TraderOK, Steps, TypesInv
  <1>6. CASE Pay
    <2>1. PICK e \in Latest("ETH"), b \in Latest("BOA") :
            /\ Computable(user.type, user.dir, b.krw)
            /\ \E fee \in OtherFees \cup {EstimatedTxFee(user.type, user.dir, user.gas, e.krw, b.krw,
                                                         QuoteDecimals(user.type, user.dir))},
                  swap \in {0, SwapFee(user.type, QuoteDecimals(user.type, user.dir))} :
                user' = [user EXCEPT !.step = "paid", !.fee = fee, !.swap = swap]
      BY <1>6 DEF Pay
    <2>2. user.type \in Types /\ user.dir \in Directions /\ user.gas \in GasPrices
            /\ QuoteDecimals(user.type, user.dir) \in {TokenDecimals, CoinDecimals}
      BY <1>6 DEF Pay, TypesInv, TraderOK, QuoteDecimals
    <2>3. OtherFees \cup {EstimatedTxFee(user.type, user.dir, user.gas, e.krw, b.krw,
                                         QuoteDecimals(user.type, user.dir))} \subseteq FeesMade
      <3>1. OtherFees \subseteq FeesMade
        BY DEF FeesMade
      <3> QED
        BY <2>1, <2>2, <3>1, FeeIsMade
    <2>4. {0, SwapFee(user.type, QuoteDecimals(user.type, user.dir))} \subseteq Nat
      BY <2>2, SwapFeeIsAmount
    <2>5. PICK fee \in FeesMade, swap \in Nat :
            user' = [user EXCEPT !.step = "paid", !.fee = fee, !.swap = swap]
      BY <2>1, <2>3, <2>4
    <2> QED
      BY <2>5 DEF TypesInv, TraderOK, Steps
  <1>7. CASE Judge
    <2>1. CASE user' = [user EXCEPT !.step = "paid"]
      BY <1>7, <2>1 DEF Judge, TypesInv, TraderOK, Steps
    <2>2. CASE user' # [user EXCEPT !.step = "paid"]
      <3>1. PICK e \in Latest("ETH"), b \in Latest("BOA") :
              /\ Computable(user.type, user.dir, b.krw)
              /\ LET need == EstimatedTxFee(user.type, user.dir, user.gas, e.krw, b.krw,
                                            NeedDecimals(user.type, user.dir))
                 IN  user' = [user EXCEPT !.need = need, !.step = Verdict(need)]
        BY <1>7, <2>2 DEF Judge
      <3>2. user.type \in Types /\ user.dir \in Directions /\ user.gas \in GasPrices
              /\ NeedDecimals(user.type, user.dir) \in {TokenDecimals, CoinDecimals}
        BY <1>7 DEF Judge, TypesInv, TraderOK, NeedDecimals
      <3>3. PICK need \in FeesMade : user' = [user EXCEPT !.need = need, !.step = Verdict(need)]
        BY <3>1, <3>2, FeeIsMade
      <3>4. Verdict(need) \in Steps
        BY DEF Verdict, Steps
      <3>5. PICK step \in Steps : step = Verdict(need)
        BY <3>4
      <3>6. user' = [user EXCEPT !.need = need, !.step = step]
        BY <3>3, <3>5
      <3>7. user'.step = step /\ user'.gas = user.gas
        BY <3>6 DEF TypesInv, TraderOK
      <3>8. step # "asking" /\ step # "judging"
        BY <3>5 DEF Verdict
      <3>9. user' \in [step : Steps, type : Types, dir : Directions, gas : GasPrices \cup {0},
                       fee : FeesMade, swap : Nat, need : FeesMade]
        BY <3>6 DEF TypesInv, TraderOK
      <3> QED
        BY <3>7, <3>8, <3>9 DEF TraderOK
    <2> QED
      BY <2>1, <2>2
  <1>8. CASE Leave
    <2>1. 0 \in FeesMade
      BY DEF FeesMade
    <2> QED
      BY <1>8, <2>1 DEF Leave, NoUser, TraderOK, Steps, Types, Directions
  <1>9. CASE UNCHANGED vars
    BY <1>9 DEF vars, TypesInv, TraderOK
  <1> QED
    BY <1>4, <1>5, <1>6, <1>7, <1>8, <1>9 DEF Trader

LEMMA StepKeepsTypes ==
    ASSUME TypesInv, [Next]_vars
    PROVE  TypesInv'
  <1>1. FreshInv'
    BY StepKeepsFresh DEF TypesInv
  <1> QED
    BY <1>1, FeedKeepsTypes, TickKeepsTypes, TraderKeepsTypes DEF Next

LEMMA TypesAreOK == TypesInv => TypeOK
  <1> SUFFICES ASSUME TypesInv
               PROVE  TypeOK
    OBVIOUS
  <1>1. now \in Times /\ krwRate \in KrwRates \cup {0} /\ loop \in 0 .. KrwEvery - 1 /\ faults \in 0 .. MaxFaults
    BY DEF TypesInv, BoundsOK, RatesOK
  <1>2. old \in [Feeds -> Times \cup {Never}] /\ asked \in [Feeds -> Times \cup {Never}]
    <2>1. now \in Nat /\ now <= MaxTime /\ MaxTime \in Nat
      BY <1>1, FeedSetup DEF Times
    <2>2. ASSUME NEW f \in Feeds
          PROVE  old[f] \in Times \cup {Never} /\ asked[f] \in Times \cup {Never}
      BY <2>1 DEF TypesInv, FreshInv, StampsOK, Stamp, Times
    <2> QED
      BY <2>2 DEF TypesInv, FreshInv, StampsOK
  <1>3. gas = NoPrice \/ ((gas.average * 110) \div 100 <= MaxInt /\ gas.at \in 0 .. now)
    BY DEF TypesInv, StoredOK, Fits
  <1>4. \A s \in Sources, c \in Symbols :
          coin[s][c] = NoPrice \/ (coin[s][c].krw >= 0 /\ coin[s][c].at \in -MaxAge .. now)
    <2>1. \A k \in Krws : k >= 0
      BY FeedSetup DEF Krws
    <2> QED
      BY <2>1 DEF TypesInv, StoredOK
  <1>5. user.fee < Tens[MaxDigits] /\ user.need < Tens[MaxDigits]
    BY FeesFit DEF TypesInv, TraderOK
  <1> QED
    BY <1>1, <1>2, <1>3, <1>4, <1>5 DEF TypeOK

(* The tables hold prices that fit their columns and were taken at a time  *)
(* that has been, and no fee outgrows an amount (the three schedulers,     *)
(* getEstimatedTxFee).                                                     *)
THEOREM TypeCorrect == Spec => []TypeOK
  <1>1. TypesInv /\ [Next]_vars => TypesInv'
    BY StepKeepsTypes
  <1> QED
    BY TypesInit, <1>1, TypesAreOK, PTL DEF Spec

(***************************************************************************)
(* Amounts that are converted, compared and judged.                        *)
(***************************************************************************)
LEMMA TensZero ==
    ASSUME NEW v \in Nat
    PROVE  v * Tens[0] = v
  BY TensSteps

(* Amount.convert to fewer decimals. *)
LEMMA Rounded ==
    ASSUME NEW v \in Nat, NEW from \in Nat, NEW to \in Nat, to <= from
    PROVE  /\ Convert(v, from, to) \in Nat
           /\ Convert(v, from, to) * Tens[from - to] <= v
           /\ v < (Convert(v, from, to) + 1) * Tens[from - to]
  <1> DEFINE K == Tens[from - to]
             f == Convert(v, from, to)
  <1>1. from - to \in Nat /\ K \in Nat \ {0}
    BY TensPositive
  <1>2. CASE to = from
    <2>1. f = v * Tens[0] /\ K = Tens[0] /\ Tens[0] = 1
      BY <1>2, TensSteps DEF Convert
    <2> QED
      BY <2>1
  <1>3. CASE to # from
    <2>1. f = v \div K
      BY <1>3 DEF Convert
    <2> HIDE DEF f, K
    <2>2. PICK q \in Int, r \in 0 .. K - 1 : v = K * q + r /\ v \div K = q
      BY <1>1, Division
    <2>3. q \in Nat
      <3>1. ASSUME q < 0
            PROVE  FALSE
        <4>1. K * q <= 0 - K
          <5>1. ASSUME NEW k \in Nat
                PROVE  k * q <= 0 - k
            <6>1. q + 1 <= 0 /\ k * (q + 1) = k * q + k
              BY <3>1
            <6>2. k * (q + 1) <= 0
              BY <6>1
            <6> QED
              BY <6>1, <6>2
          <5> QED
            BY <1>1, <5>1
        <4> QED
          BY <1>1, <2>2, <4>1
      <3> QED
        BY <3>1
    <2>4. q * K = K * q /\ (q + 1) * K = K * q + K
      BY <1>1
    <2>5. f = q
      BY <2>1, <2>2
    <2> QED
      BY <1>1, <2>2, <2>3, <2>4, <2>5 DEF f, K
  <1> QED
    BY <1>2, <1>3

(* A box has as many decimals as the fee that is needed, or more.          *)
LEMMA Decimals ==
    ASSUME NEW type \in Types, NEW dir \in Directions
    PROVE  /\ BoxDecimals(type, dir) \in Nat /\ NeedDecimals(type, dir) \in Nat
           /\ NeedDecimals(type, dir) <= BoxDecimals(type, dir)
           /\ Precision \in 1 .. NeedDecimals(type, dir)
           /\ type = "BOA" => BoxDecimals(type, dir) = NeedDecimals(type, dir)
  BY Scales DEF Types, Directions, BoxDecimals, QuoteDecimals, NeedDecimals

(* Who pays the present fee is accepted: what he paid, cut to the decimals *)
(* of the fee, reads the same.                                             *)
LEMMA PresentIsAccepted ==
    ASSUME NEW type \in Types, NEW dir \in Directions, NEW paid \in Nat, NEW need \in Nat \ {0},
           paid < Tens[MaxDigits], need < Tens[MaxDigits],
           Convert(paid, BoxDecimals(type, dir), NeedDecimals(type, dir)) = need
    PROVE  Accepted(type, dir, paid, need)
  <1> DEFINE j == BoxDecimals(type, dir) - NeedDecimals(type, dir)
  <1>1. j \in Nat /\ need * Tens[j] <= paid /\ paid < (need + 1) * Tens[j]
    <2>1. /\ BoxDecimals(type, dir) \in Nat /\ NeedDecimals(type, dir) \in Nat
          /\ NeedDecimals(type, dir) <= BoxDecimals(type, dir)
      BY Decimals
    <2>2. j \in Nat
      BY <2>1
    <2> QED
      BY <2>1, <2>2, Rounded
  <1> HIDE DEF j
  <1> QED
    BY <1>1, LongerIsNotBefore DEF Accepted

(* A tenth of a fee that is a multiple of ten survives the cut.            *)
LEMMA TenthSurvives ==
    ASSUME NEW K \in Nat \ {0}, NEW q \in Nat, NEW f \in Nat, NEW paid \in Nat,
           f * K <= paid, paid < (f + 1) * K,
           10 * (paid - (10 * q) * K) < (10 * q) * K,
           10 * ((10 * q) * K - paid) <= (10 * q) * K
    PROVE  10 * (f - 10 * q) < 10 * q /\ 10 * (10 * q - f) <= 10 * q
  <1>1. ASSUME NEW a \in Int, NEW b \in Int, a < b
        PROVE  a * K + K <= b * K
    <2>1. b - a - 1 \in Nat /\ (b - a - 1) * K = b * K - a * K - K
      BY <1>1
    <2>2. (b - a - 1) * K >= 0
      BY <2>1
    <2> QED
      BY <2>1, <2>2
  <1>2. (10 * q) * K = 10 * (q * K) /\ (11 * q) * K = 11 * (q * K) /\ (9 * q) * K = 9 * (q * K)
          /\ q * K \in Nat /\ f * K \in Nat /\ (f + 1) * K = f * K + K
    OBVIOUS
  <1>3. paid < 11 * (q * K) /\ 9 * (q * K) <= paid
    BY <1>2
  <1>4. ASSUME 11 * q <= f
        PROVE  FALSE
    <2>1. (11 * q) * K <= f * K
      <3>1. CASE 11 * q = f
        BY <1>2, <3>1
      <3>2. CASE 11 * q < f
        BY <1>1, <1>2, <3>2
      <3> QED
        BY <1>4, <3>1, <3>2
    <2> QED
      BY <1>2, <1>3, <2>1
  <1>5. ASSUME f < 9 * q
        PROVE  FALSE
    BY <1>1, <1>2, <1>3, <1>5
  <1> QED
    BY <1>4, <1>5

(* Fees of BOA are whole BOA: within a tenth of them is within the         *)
(* tolerance.                                                              *)
LEMMA NearIsAccepted ==
    ASSUME NEW type \in Types, NEW dir \in Directions, NEW paid \in Nat, NEW need \in Nat \ {0},
           NEW boa \in Nat, need = boa * Tens[NeedDecimals(type, dir)], Due10(paid, need)
    PROVE  Accepted(type, dir, paid, need)
  <1> DEFINE d == NeedDecimals(type, dir)
             K == Tens[d - Precision]
             q == boa * Tens[Precision - 1]
             fee1 == Convert(paid, d, Precision)
             fee2 == Convert(need, d, Precision)
  <1>1. d \in Nat /\ Precision \in Nat /\ Precision - 1 \in Nat /\ Precision <= d /\ d - Precision \in Nat
    BY Decimals
  <1> HIDE DEF d
  <1>2. K \in Nat \ {0} /\ Tens[Precision - 1] \in Nat \ {0} /\ q \in Nat
    BY <1>1, TensPositive
  <1>3. need = (10 * q) * K
    <2>1. Tens[d] = Tens[Precision] * K /\ Tens[Precision] = 10 * Tens[Precision - 1]
      <3>1. Tens[d] = Tens[Precision] * K
        BY <1>1, TensGrow
      <3>2. Precision = (Precision - 1) + 1
        BY <1>1
      <3>3. Tens[(Precision - 1) + 1] = 10 * Tens[Precision - 1]
        BY <1>1, TensSteps
      <3> QED
        BY <3>1, <3>2, <3>3
    <2>2. ASSUME NEW k \in Nat, NEW p \in Nat
          PROVE  boa * ((10 * p) * k) = (10 * (boa * p)) * k
      OBVIOUS
    <2>3. need = boa * ((10 * Tens[Precision - 1]) * K)
      BY <2>1 DEF d
    <2> QED
      BY <1>2, <2>2, <2>3
  <1>4. /\ fee1 \in Nat /\ fee1 * K <= paid /\ paid < (fee1 + 1) * K
        /\ fee2 \in Nat /\ fee2 * K <= need /\ need < (fee2 + 1) * K
    BY <1>1, Rounded
  <1> HIDE DEF K, q, fee1, fee2
  <1>5. fee2 = 10 * q
    <2>1. ASSUME NEW a \in Nat, NEW b \in Nat, a < b
          PROVE  (a + 1) * K <= b * K
      <3>1. b - a - 1 \in Nat /\ (b - a - 1) * K = b * K - (a + 1) * K
        BY <1>2, <2>1
      <3> QED
        BY <1>2, <3>1
    <2>2. 10 * q \in Nat /\ need \in Nat /\ (10 * q) * K \in Nat
      BY <1>2
    <2>3. (10 * q + 1) * K = (10 * q) * K + K /\ (fee2 + 1) * K \in Nat /\ fee2 * K \in Nat
      BY <1>2, <1>4
    <2>4. ~(fee2 < 10 * q)
      BY <1>2, <1>3, <1>4, <2>1, <2>2, <2>3
    <2>5. ~(10 * q < fee2)
      BY <1>2, <1>3, <1>4, <2>1, <2>2, <2>3
    <2> QED
      BY <1>4, <2>2, <2>4, <2>5
  <1>6. 10 * (fee1 - fee2) < fee2 /\ 10 * (fee2 - fee1) <= fee2
    BY <1>2, <1>3, <1>4, <1>5, TenthSurvives DEF Due10
  <1>7. fee2 # 0
    BY <1>2, <1>3, <1>5
  <1>8. Tolerated(paid, need, d)
    BY <1>6, <1>7 DEF Tolerated, fee1, fee2
  <1> QED
    BY <1>8 DEF Accepted, d

LEMMA KrwsArePositive == Krws \subseteq Nat \ {0}
  <1>1. ASSUME NEW p \in Int, NEW r \in Nat
        PROVE  p * r \in Int
    OBVIOUS
  <1> QED
    BY <1>1, FeedSetup DEF Krws

(* getEstimatedTxFee of the BOA bridge: whole BOA.                         *)
Whole(type, dir, g, eth, boa) == Ceil(GasUsage[type][dir] * g * eth, GasUnit[type] * boa)

LEMMA WholeFee ==
    ASSUME NEW type \in Types, NEW dir \in Directions, NEW g \in Nat, NEW eth \in Nat, NEW boa \in Nat \ {0},
           NEW d \in Nat
    PROVE  /\ Whole(type, dir, g, eth, boa) \in Nat
           /\ WholeTxFee(type, dir, g, eth, boa, d) = Whole(type, dir, g, eth, boa) * Tens[d]
  <1> DEFINE p == GasUsage[type][dir] * g * eth
             q == GasUnit[type] * boa
  <1>1. p \in Nat /\ q \in Nat \ {0}
    <2>1. GasUsage[type][dir] \in Nat /\ GasUnit[type] \in Nat \ {0}
      BY Scales
    <2>2. ASSUME NEW x \in Nat, NEW y \in Nat, NEW z \in Nat
          PROVE  x * y * z \in Nat
      OBVIOUS
    <2>3. ASSUME NEW x \in Nat \ {0}, NEW y \in Nat \ {0}
          PROVE  x * y \in Nat \ {0}
      OBVIOUS
    <2> QED
      BY <2>1, <2>2, <2>3
  <1> HIDE DEF p, q
  <1>2. Ceil(p, q) \in Nat
    <2>1. p + q - 1 \in Nat
      BY <1>1
    <2> HIDE DEF p, q
    <2> QED
      BY <1>1, <2>1, Quotient DEF Ceil
  <1>3. Tens[d] \in Nat \ {0}
    BY TensPositive
  <1>4. Make(Ceil(p, q), 1, d) = Ceil(p, q) * Tens[d]
    <2>1. Ceil(p, q) * Tens[d] \in Nat
      BY <1>2, <1>3
    <2> QED
      BY <2>1, Quotient DEF Make
  <1> QED
    BY <1>2, <1>4 DEF WholeTxFee, Whole, p, q

LEMMA EstimatesAreAmounts ==
    ASSUME NEW type \in Types, NEW dir \in Directions, NEW g \in GasPrices,
           NEW eth \in Krws \cup {0}, NEW boa \in Krws \cup {1}, NEW d \in {TokenDecimals, CoinDecimals}
    PROVE  EstimatedTxFee(type, dir, g, eth, boa, d) \in Nat
  <1>1. g \in Nat /\ eth \in Nat /\ boa \in Nat \ {0} /\ d \in Nat
    BY KrwsArePositive, FeedSetup, Scales
  <1>2. Tens[d] \in Nat
    BY <1>1, TensPositive
  <1>3. ASSUME NEW t \in Types
        PROVE  WholeTxFee(t, dir, g, eth, boa, d) \in Nat
    <2>1. /\ Whole(t, dir, g, eth, boa) \in Nat
          /\ WholeTxFee(t, dir, g, eth, boa, d) = Whole(t, dir, g, eth, boa) * Tens[d]
      BY <1>1, WholeFee
    <2> QED
      BY <1>2, <2>1
  <1>4. Make(GasUsage["TOKEN"][dir] * g, GasUnit["TOKEN"], d) \in Nat
    <2>1. GasUsage["TOKEN"][dir] \in Nat /\ GasUnit["TOKEN"] \in Nat \ {0}
      BY Scales DEF Types
    <2>2. ASSUME NEW x \in Nat, NEW y \in Nat, NEW z \in Nat
          PROVE  x * y * z \in Nat
      OBVIOUS
    <2> QED
      BY <1>1, <1>2, <2>1, <2>2, Quotient DEF Make
  <1> QED
    BY <1>3, <1>4 DEF EstimatedTxFee, TokenTxFee, Types

LEMMA FeesAreAmounts == FeesMade \subseteq Nat
  <1> SUFFICES ASSUME NEW fee \in FeesMade
               PROVE  fee \in Nat
    OBVIOUS
  <1>1. ASSUME fee = 0 \/ fee \in OtherFees
        PROVE  fee \in Nat
    <2>1. OtherFees \subseteq Nat /\ 0 \in Nat
      BY FeedSetup
    <2>2. CASE fee = 0
      BY <2>1, <2>2, Zenon
    <2>3. CASE fee \in OtherFees
      BY <2>1, <2>3, Zenon
    <2> QED
      BY <1>1, <2>2, <2>3
  <1>2. CASE fee # 0 /\ fee \notin OtherFees
    <2>1. PICK type \in Types, dir \in Directions, g \in GasPrices, eth \in Krws \cup {0}, boa \in Krws \cup {1},
               d \in {TokenDecimals, CoinDecimals} : fee = EstimatedTxFee(type, dir, g, eth, boa, d)
      BY <1>2 DEF FeesMade
    <2>2. EstimatedTxFee(type, dir, g, eth, boa, d) \in Nat
      BY EstimatesAreAmounts
    <2> QED
      BY <2>1, <2>2
  <1> QED
    BY <1>1, <1>2

(***************************************************************************)
(* A refusal: the fee that was needed is not zero, in BOA a whole number,  *)
(* and what was paid did not pass the comparison.                          *)
(***************************************************************************)
RefusedRightly ==
    user.step = "refused" =>
        /\ user.need # 0
        /\ user.swap >= SwapFee(user.type, NeedDecimals(user.type, user.dir)) =>
             ~Accepted(user.type, user.dir, user.fee, user.need)
        /\ user.type = "BOA" =>
             \E n \in Nat : user.need = n * Tens[NeedDecimals(user.type, user.dir)]
JudgeInv == TypesInv /\ RefusedRightly

LEMMA JudgedRightly ==
    ASSUME TypesInv, Judge
    PROVE  RefusedRightly'
  <1> SUFFICES ASSUME user'.step = "refused"
               PROVE  RefusedRightly'
    BY DEF RefusedRightly
  <1>0. user.type \in Types /\ user.dir \in Directions /\ user.gas \in GasPrices
          /\ user = [step |-> user.step, type |-> user.type, dir |-> user.dir, gas |-> user.gas,
                     fee |-> user.fee, swap |-> user.swap, need |-> user.need]
    BY DEF Judge, TypesInv, TraderOK
  <1>1. user' # [user EXCEPT !.step = "paid"]
    BY <1>0
  <1> DEFINE d == NeedDecimals(user.type, user.dir)
             needFor(e, b) == EstimatedTxFee(user.type, user.dir, user.gas, e.krw, b.krw, d)
  <1>2. PICK e \in Latest("ETH"), b \in Latest("BOA") :
          /\ Computable(user.type, user.dir, b.krw)
          /\ user' = [user EXCEPT !.need = needFor(e, b), !.step = Verdict(needFor(e, b))]
    BY <1>1 DEF Judge
  <1> PICK need : need = needFor(e, b)
    OBVIOUS
  <1>3. e.krw \in Krws \cup {0} /\ b.krw \in Krws \cup {0} /\ d \in Nat
    <2>1. d \in Nat
      BY <1>0, Decimals
    <2>2. e.krw \in Krws \cup {0} /\ b.krw \in Krws \cup {0}
      BY DEF Latest, Rows, TypesInv, StoredOK, Symbols
    <2> QED
      BY <2>1, <2>2
  <1>4. user.type = "BOA" => \E n \in Nat : need = n * Tens[d]
    <2> SUFFICES ASSUME user.type = "BOA"
                 PROVE  \E n \in Nat : need = n * Tens[d]
      OBVIOUS
    <2>1. e.krw \in Nat /\ b.krw \in Nat \ {0} /\ user.gas \in Nat
      <3>1. b.krw # 0
        BY <1>2 DEF Computable
      <3>2. user.gas \in Nat
        BY <1>0, FeedSetup
      <3>3. e.krw \in Nat
        <4>1. \A k \in Krws \cup {0} : k \in Nat
          BY KrwsArePositive
        <4> QED
          BY <1>3, <4>1
      <3>4. b.krw \in Nat \ {0}
        <4>1. \A k \in Krws \cup {0} : k # 0 => k \in Nat \ {0}
          BY KrwsArePositive
        <4> QED
          BY <1>3, <3>1, <4>1
      <3> QED
        BY <3>2, <3>3, <3>4
    <2>2. need = WholeTxFee(user.type, user.dir, user.gas, e.krw, b.krw, d)
      BY DEF EstimatedTxFee
    <2> HIDE DEF d, needFor
    <2>3. /\ Whole(user.type, user.dir, user.gas, e.krw, b.krw) \in Nat
          /\ WholeTxFee(user.type, user.dir, user.gas, e.krw, b.krw, d)
               = Whole(user.type, user.dir, user.gas, e.krw, b.krw) * Tens[d]
      BY <1>0, <1>3, <2>1, WholeFee
    <2> QED
      BY <2>2, <2>3
  <1> HIDE DEF d, needFor
  <1>5. user' = [user EXCEPT !.need = need, !.step = Verdict(need)]
    BY <1>2
  <1>6. /\ user'.need = need /\ user'.step = Verdict(need) /\ user'.type = user.type
        /\ user'.dir = user.dir /\ user'.fee = user.fee /\ user'.swap = user.swap
    BY <1>0, <1>5
  <1>7. /\ need # 0
        /\ user.swap >= SwapFee(user.type, d) => ~Accepted(user.type, user.dir, user.fee, need)
    BY <1>6 DEF Verdict, d
  <1> QED
    BY <1>4, <1>6, <1>7 DEF RefusedRightly, d

LEMMA StepKeepsJudged ==
    ASSUME JudgeInv, TypesInv', [Next]_vars
    PROVE  JudgeInv'
  <1> SUFFICES RefusedRightly'
    BY DEF JudgeInv
  <1>1. CASE user' = user
    BY <1>1 DEF JudgeInv, RefusedRightly
  <1>2. CASE Judge
    BY <1>2, JudgedRightly DEF JudgeInv
  <1>3. ASSUME NEW type \in Types, NEW dir \in Directions, AskFee(type, dir)
        PROVE  user'.step # "refused"
    BY <1>3 DEF AskFee, NoUser
  <1>4. CASE Pay \/ ReadGas("paid", "judging") \/ Leave
    <2>1. "step" \in DOMAIN user
      BY DEF JudgeInv, TypesInv, TraderOK
    <2>2. CASE Pay
      <3>1. PICK fee, swap : user' = [user EXCEPT !.step = "paid", !.fee = fee, !.swap = swap]
        BY <2>2 DEF Pay
      <3> QED
        BY <2>1, <3>1 DEF RefusedRightly
    <2>3. CASE ReadGas("paid", "judging")
      BY <2>1, <2>3 DEF ReadGas, RefusedRightly
    <2>4. CASE Leave
      BY <2>4 DEF Leave, NoUser, RefusedRightly
    <2> QED
      BY <1>4, <2>2, <2>3, <2>4
  <1>5. CASE Feed \/ Tick \/ UNCHANGED vars
    <2>1. user' = user
      BY <1>5 DEF Feed, Fail, AnswerGas, AnswerCGC, AnswerCMC, End, Restart, Tick, vars
    <2> QED
      BY <1>1, <2>1
  <1> QED
    BY <1>2, <1>3, <1>4, <1>5 DEF Next, Trader, RefusedRightly

LEMMA RefusedMeansLow == JudgeInv => PresentFeeIsAccepted
  <1> SUFFICES ASSUME JudgeInv, user.step = "refused",
                      user.swap >= SwapFee(user.type, NeedDecimals(user.type, user.dir))
               PROVE  LET needed == NeedDecimals(user.type, user.dir)
                          paid == Convert(user.fee, BoxDecimals(user.type, user.dir), needed)
                      IN  /\ paid # user.need
                          /\ user.type = "BOA" => ~Due10(paid, user.need)
    BY DEF PresentFeeIsAccepted
  <1>1. /\ user.type \in Types /\ user.dir \in Directions /\ user.fee \in FeesMade /\ user.need \in FeesMade
    BY DEF JudgeInv, TypesInv, TraderOK
  <1>2. /\ user.fee \in Nat /\ user.need \in Nat \ {0}
        /\ user.fee < Tens[MaxDigits] /\ user.need < Tens[MaxDigits]
    BY <1>1, FeesAreAmounts, FeesFit DEF JudgeInv, RefusedRightly
  <1>3. ~Accepted(user.type, user.dir, user.fee, user.need)
    BY DEF JudgeInv, RefusedRightly
  <1>4. Convert(user.fee, BoxDecimals(user.type, user.dir), NeedDecimals(user.type, user.dir)) # user.need
    BY <1>1, <1>2, <1>3, PresentIsAccepted
  <1>5. CASE user.type = "BOA"
    <2>1. PICK n \in Nat : user.need = n * Tens[NeedDecimals(user.type, user.dir)]
      BY <1>5 DEF JudgeInv, RefusedRightly
    <2>2. ~Due10(user.fee, user.need)
      BY <1>1, <1>2, <1>3, <2>1, NearIsAccepted
    <2>3. Convert(user.fee, BoxDecimals(user.type, user.dir), NeedDecimals(user.type, user.dir)) = user.fee
      <3>1. BoxDecimals(user.type, user.dir) = NeedDecimals(user.type, user.dir)
              /\ NeedDecimals(user.type, user.dir) \in Nat
        BY <1>1, <1>5, Decimals
      <3>2. NeedDecimals(user.type, user.dir) - NeedDecimals(user.type, user.dir) = 0
        BY <3>1
      <3> QED
        BY <1>2, <3>1, <3>2, TensZero DEF Convert
    <2> QED
      BY <1>4, <2>2, <2>3
  <1> QED
    BY <1>4, <1>5

(* Who pays the swap fee and the transaction fee that the server asks at   *)
(* that moment is not refused, though amounts are compared as texts; in    *)
(* BOA a tenth of it may be missing, and almost a tenth too much           *)
(* (checkDepositIsOpened of both bridges).                                 *)
THEOREM PresentFee == Spec => []PresentFeeIsAccepted
  <1>1. Init => JudgeInv
    BY TypesInit DEF JudgeInv, RefusedRightly, Init, NoUser
  <1>2. JudgeInv /\ [Next]_vars => JudgeInv'
    <2> SUFFICES ASSUME JudgeInv, [Next]_vars
                 PROVE  JudgeInv'
      OBVIOUS
    <2>1. TypesInv'
      BY StepKeepsTypes DEF JudgeInv
    <2> QED
      BY <2>1, StepKeepsJudged
  <1> QED
    BY <1>1, <1>2, RefusedMeansLow, PTL DEF Spec
=============================================================================
