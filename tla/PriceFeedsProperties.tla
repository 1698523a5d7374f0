------------------------ MODULE PriceFeedsProperties ------------------------
(***************************************************************************)
(* What the fees of the bridge rest on.                                    *)
(***************************************************************************)
EXTENDS PriceFeeds

(* Amounts have room for every fee that the prices can make.               *)
Krws == {k \in {p * r : p \in Prices, r \in KrwRates \cup {1}} : k > 0}
FeesMade == {0} \cup OtherFees \cup
    {EstimatedTxFee(type, dir, g, eth, boa, d) : type \in Types, dir \in Directions, g \in GasPrices,
        eth \in Krws \cup {0}, boa \in Krws \cup {1}, d \in {TokenDecimals, CoinDecimals}}
ASSUME FeesFit == \A fee \in FeesMade : fee < Tens[MaxDigits]

Times == 0 .. MaxTime
MaxAge == CHOOSE a \in Ages : \A b \in Ages : b <= a
(* The tables hold prices that fit their columns, taken at a time *)
(* that has been; a quote or fee has as many digits as an amount may have. *)
TypeOK ==
    /\ now \in Times
    /\ old \in [Feeds -> Times \cup {Never}] /\ asked \in [Feeds -> Times \cup {Never}]
    /\ (gas = NoPrice \/ ((gas.average * 110) \div 100 <= MaxInt /\ gas.at \in 0 .. now))
    /\ \A s \in Sources, c \in Symbols :
        coin[s][c] = NoPrice \/ (coin[s][c].krw >= 0 /\ coin[s][c].at \in -MaxAge .. now)
    /\ krwRate \in KrwRates \cup {0} /\ loop \in 0 .. KrwEvery - 1
    /\ faults \in 0 .. MaxFaults
    /\ user.fee < Tens[MaxDigits] /\ user.need < Tens[MaxDigits]

(* Between two asks of a scheduler lie less than two intervals, a failed   *)
(* ask costs no more than the one it is, and a late work no more than it   *)
(* is late by: the price that the fees use is as fresh as the better of    *)
(* the two sources allows, whatever the other answers or fails to, also    *)
(* if it never ends (work() of the schedulers, getCoinPrices,              *)
(* getGasPrice).                                                           *)
OldestAfter(misses) == (misses + 1) * (2 * Interval - 1) + Latency
Lost(f, c) == late[f][c] + Overtime(f)
UsedIsFresh ==
    /\ \A c \in Symbols : \A used \in Latest(c), s \in Rows(c) :
        now - used.at <= OldestAfter(missed[s][c]) + MaxAge + Lost(s, c)
    /\ gas # NoPrice => now - gas.at <= OldestAfter(missed["GAS"]["ETH"]) + Lost("GAS", "ETH")

(* Why: the last ask s of a scheduler lies in the period of its last stamp, *)
(* and no cron tick has passed since then, or since that ask may have      *)
(* ended; each missed ask took one gap more, each restart two, and a late  *)
(* work what it was late by.  OnTime says so of a price asked for at or    *)
(* before a time, which the late works of the past have put off, and of    *)
(* the misses since: while an answer is awaited, between two asks (the     *)
(* last of them late by o), and after a restart (work() of the schedulers). *)
Gap == 2 * Interval - 1
NoTick(from, to) == \A t \in from + 1 .. to : ~CronTick(t)
Awaiting(f, misses, time) == asked[f] # Never /\ asked[f] <= time + misses * Gap + Gap
Between(f, misses, time) ==
    /\ asked[f] = Never /\ old[f] # Never
    /\ \E s \in 0 .. old[f], o \in 0 .. now :
        /\ s + o <= time + misses * Gap
        /\ Period(f, s) = Period(f, old[f])
        /\ NoTick(IF s + Latency + o <= old[f] THEN old[f] ELSE s + Latency + o, now)
Restarted(f, misses, time) ==
    /\ asked[f] = Never /\ old[f] = Never
    /\ \E s \in 0 .. now : s <= time + misses * Gap - Gap + Latency /\ NoTick(s, now)
OnTime(f, misses, time) ==
    Awaiting(f, misses, time) \/ Between(f, misses, time) \/ Restarted(f, misses, time)
RowsOnTime ==
    /\ \A s \in Sources, c \in Symbols :
        coin[s][c] # NoPrice => OnTime(s, missed[s][c], coin[s][c].at + MaxAge + late[s][c])
    /\ gas # NoPrice => OnTime("GAS", missed["GAS"]["ETH"], gas.at + late["GAS"]["ETH"])

(* A rate that has been known stays known, and none of its prices becomes  *)
(* zero through a failure of a source, of the KRW rate or of the table,    *)
(* through a restart or an answer with a zero: a price of zero is written  *)
(* only by a work of CMC that has asked for the KRW rate, if that can be   *)
(* answered with zero; no work takes a zero for the rate that it has not   *)
(* asked for (work() of the schedulers, getEthBoaRate).                    *)
ZeroRows == {r \in Sources \X Symbols : coin[r[1]][r[2]] # NoPrice /\ coin[r[1]][r[2]].krw = 0}
KnownRateStaysKnown ==
    [][ /\ RateKnown => RateKnown'
        /\ ZeroRows' \subseteq ZeroRows \/ (KrwDue /\ 0 \in KrwRates) ]_vars

(* A deposit that pays the swap fee and the present transaction fee is     *)
(* accepted, and one of BOA also if it is within a tenth of that (a tenth  *)
(* more left out), though the prices were read twice and in two steps,     *)
(* with a quote of other decimals than the fee needed                      *)
(* (checkDepositIsOpened of both bridges).                                 *)
Due10(paid, need) == 10 * (paid - need) < need /\ 10 * (need - paid) <= need
PresentFeeIsAccepted ==
    LET needed == NeedDecimals(user.type, user.dir)
        paid == Convert(user.fee, BoxDecimals(user.type, user.dir), needed)
    IN  user.step = "refused" /\ user.swap >= SwapFee(user.type, needed) =>
            /\ paid # user.need
            /\ user.type = "BOA" => ~Due10(paid, user.need)

(* What the tolerance is for: a deposit of BOA that pays less than nine    *)
(* tenths of the present fee is not accepted (checkDepositIsOpened).       *)
ToleranceIsTenPercent ==
    user.step = "accepted" /\ user.type = "BOA" => 10 * user.fee >= 9 * user.need
=============================================================================
