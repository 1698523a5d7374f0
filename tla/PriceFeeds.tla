----------------------------- MODULE PriceFeeds -----------------------------
(***************************************************************************)
(* The schedulers that fetch gas and coin prices, the tables they write,   *)
(* and the two that read them: a trader who asks for the fee of a swap and *)
(* pays it, and checkDepositIsOpened that judges what he paid.             *)
(***************************************************************************)
EXTENDS Fees, FiniteSets

CONSTANTS
    Interval,    \* of the schedulers: of cron ticks and of periods
    Minute,      \* cron counts its ticks from the minute
    Offset,      \* _random_offset of each scheduler
    Latency,     \* a work that takes longer is late
    Ages,        \* how old the prices of an answer may be
    KrwEvery,    \* prices of CMC between two requests for the KRW rate
    Prices,      \* prices that a source may answer
    KrwRates,    \* KRW for a USD
    GasPrices,   \* what the node may answer
    MaxInt,      \* of a column of type INT
    OtherFees,   \* fees a trader may pay instead of the quote
    NoPrice,     \* no row
    MaxTime,     \* bound of the clock
    MaxFaults,   \* bound of asks without all prices, and of restarts
    TraderTime   \* bound of the time at which the trader is there

Sources == {"CGC", "CMC"}
Feeds == Sources \cup {"GAS"}
Symbols == {"ETH", "BOA"}
Never == -1

ASSUME FeedSetup ==
    /\ Interval \in Nat \ {0} /\ Minute \in Nat \ {0} /\ Offset \in [Feeds -> Nat]
    /\ Latency \in 0 .. Interval - 1
    /\ Ages \subseteq Nat /\ \E a \in Ages : \A b \in Ages : b <= a
    /\ KrwEvery \in Nat \ {0}
    /\ Prices \subseteq Int /\ KrwRates \subseteq Nat
    /\ NoPrice \notin [krw : Int, at : Int]
    /\ GasPrices \subseteq Nat /\ MaxInt \in Nat /\ OtherFees \subseteq Nat
    /\ MaxTime \in Nat /\ MaxFaults \in Nat

VARIABLES
    now,      \* seconds, as Date tells them
    old,      \* _old_time_stamp of each scheduler, Never at first
    asked,    \* _new_time_stamp of a work that waits for an answer, or Never
    gas,      \* the row of gas_price
    coin,     \* the rows of coin_price, by source and symbol
    krwRate, loop,  \* _rateKRWUSD (0 at first) and _loop of CMC
    missed,   \* asks without a new price since the row was written
    late,     \* and the seconds that works went on after Latency
    faults,   \* missed asks and restarts so far
    user      \* the trader, and the handler at his deposit

tables == <<gas, coin>>
feeds == <<old, asked, krwRate, loop, missed, late, faults>>
vars == <<now, feeds, tables, user>>

NoUser == [step |-> "none", type |-> "BOA", dir |-> "ETHNET_BIZNET", gas |-> 0,
           fee |-> 0, swap |-> 0, need |-> 0]

Init ==
    /\ now = 0
    /\ old = [f \in Feeds |-> Never]
    /\ asked = [f \in Feeds |-> Never]
    /\ gas = NoPrice
    /\ coin = [s \in Sources |-> [c \in Symbols |-> NoPrice]]
    /\ krwRate = 0
    /\ loop = 0
    /\ missed = [f \in Feeds |-> [c \in Symbols |-> 0]]
    /\ late = [f \in Feeds |-> [c \in Symbols |-> 0]]
    /\ faults = 0
    /\ user = NoUser

(***************************************************************************)
(* work().  The first one after a start only takes the time; each later    *)
(* one asks if a new period has begun.  The stamp moves on whether the ask *)
(* succeeded or not.  A cron tick during a work is lost, and nothing ends  *)
(* a work that waits.                                                      *)
(***************************************************************************)
CronTick(t) == (t % Minute) % Interval = 0
Period(f, t) == (t + Offset[f]) \div Interval
Due(f, t) == old[f] # Never /\ Period(f, old[f]) # Period(f, t)
Idle == {f \in Feeds : asked[f] = Never}

Tick ==
    /\ now < MaxTime
    /\ now < TraderTime \/ user = NoUser
    /\ now' = now + 1
    /\ LET begin == IF CronTick(now') THEN Idle ELSE {}
           ask == {f \in begin : Due(f, now')}
       IN  /\ asked' = [f \in Feeds |-> IF f \in ask THEN now' ELSE asked[f]]
           /\ old' = [f \in Feeds |-> IF f \in begin \ ask THEN now' ELSE old[f]]
    /\ UNCHANGED <<krwRate, loop, missed, late, faults, tables, user>>

End(f) ==
    /\ f \notin Idle
    /\ asked' = [asked EXCEPT ![f] = Never]
    /\ old' = [old EXCEPT ![f] = asked[f]]
    /\ UNCHANGED <<now, user>>
Overtime(f) == IF f \in Idle \/ now <= asked[f] + Latency THEN 0 ELSE now - (asked[f] + Latency)
Miss(f, S) ==
    /\ late' = [late EXCEPT ![f] = [c \in Symbols |-> IF c \in S THEN @[c] + Overtime(f) ELSE Overtime(f)]]
    /\ missed' = [missed EXCEPT ![f] = [c \in Symbols |-> IF c \in S THEN @[c] + 1 ELSE 0]]
    /\ faults' = IF S = {} THEN faults ELSE faults + 1
    /\ faults' <= MaxFaults

(* No answer, an answer that is an error, or a table that cannot be        *)
(* written.                                                                *)
Fail(f) == End(f) /\ Miss(f, Symbols) /\ UNCHANGED <<krwRate, loop, tables>>

(* The column for fast, a tenth more than the price, is the first to       *)
(* overflow.                                                               *)
Fits_Price(g) == g <= MaxInt
Fits(g) == (g * 110) \div 100 <= MaxInt
AnswerGas(g) ==
    /\ End("GAS")
    /\ IF Fits(g)
       THEN /\ gas' = [average |-> g, at |-> now]
            /\ Miss("GAS", {})
       ELSE Miss("GAS", Symbols) /\ UNCHANGED gas
    /\ UNCHANGED <<krwRate, loop, coin>>

(* An answer names prices for some of the symbols, and when the source had *)
(* them; one price that is not positive spoils it.                         *)
Store(s, price, rate) ==
    /\ \E age \in Ages : coin' = [coin EXCEPT ![s] = [c \in Symbols |->
           IF c \in DOMAIN price THEN [krw |-> price[c] * rate, at |-> asked[s] - age] ELSE @[c]]]
    /\ Miss(s, Symbols \ DOMAIN price)
    /\ UNCHANGED gas
Good(price) == \A c \in DOMAIN price : price[c] > 0
Answers == UNION {[S -> Prices] : S \in SUBSET Symbols}

AnswerCGC(price) ==
    /\ End("CGC")
    /\ IF Good(price) THEN Store("CGC", price, 1)
       ELSE Miss("CGC", Symbols) /\ UNCHANGED tables
    /\ UNCHANGED <<krwRate, loop>>

(* CMC answers in USD.  The rate comes first, and without it no prices are *)
(* asked for.  Nobody looks whether the rate is positive.                  *)
KrwDue_LoopOnly == loop = 0
KrwDue == krwRate = 0 \/ loop = 0
KrwKnown == IF KrwDue THEN KrwRates ELSE {krwRate}
AnswerCMC(price) ==
    /\ End("CMC")
    /\ krwRate' \in KrwKnown
    /\ IF Good(price)
       THEN Store("CMC", price, krwRate') /\ loop' = (loop + 1) % KrwEvery
       ELSE Miss("CMC", Symbols) /\ UNCHANGED <<loop, tables>>

Restart ==
    /\ faults < MaxFaults
    /\ faults' = faults + 1
    /\ old' = [f \in Feeds |-> Never]
    /\ asked' = [f \in Feeds |-> Never]
    /\ krwRate' = 0
    /\ loop' = 0
    /\ missed' = [f \in Feeds |-> [c \in Symbols |-> missed[f][c] + 2]]
    /\ late' = [f \in Feeds |-> [c \in Symbols |-> late[f][c] + Overtime(f)]]
    /\ UNCHANGED <<now, tables, user>>

(***************************************************************************)
(* Reading the tables.                                                     *)
(***************************************************************************)
Rows(c) == {s \in Sources : coin[s][c] # NoPrice}
(* getCoinPrices: by symbol, the price with the latest time of its source. *)
Latest_First(c) == {coin[s][c] : s \in {r \in Rows(c) : \A q \in Rows(c) : coin[r][c].at <= coin[q][c].at}}
Latest(c) == {coin[s][c] : s \in {r \in Rows(c) : \A q \in Rows(c) : coin[q][c].at <= coin[r][c].at}}
(* getEthBoaRate, as the two prices.  A price of zero passes as one: the   *)
(* column comes back as a text, which is not empty and is not 0.           *)
RateKnown == \A c \in Symbols : Rows(c) # {}

(* getStandardGasPrice, then getEthBoaRate; both calls are awaited.        *)
ReadGas(from, to) ==
    /\ user.step = from
    /\ gas # NoPrice
    /\ user' = [user EXCEPT !.step = to, !.gas = gas.average]
    /\ UNCHANGED <<now, feeds, tables>>

(* getFees, for one type and direction: what is unknown is an error.       *)
AskFee(type, dir) ==
    /\ user = NoUser /\ now <= TraderTime
    /\ gas # NoPrice
    /\ user' = [NoUser EXCEPT !.step = "asking", !.type = type, !.dir = dir, !.gas = gas.average]
    /\ UNCHANGED <<now, feeds, tables>>

Pay ==
    /\ user.step = "asking"
    /\ RateKnown
    /\ \E e \in Latest("ETH"), b \in Latest("BOA") :
        /\ Computable(user.type, user.dir, b.krw)
        /\ \E fee \in OtherFees \cup {EstimatedTxFee(user.type, user.dir, user.gas, e.krw, b.krw,
                                                     QuoteDecimals(user.type, user.dir))},
              swap \in {0, SwapFee(user.type, QuoteDecimals(user.type, user.dir))} :
            user' = [user EXCEPT !.step = "paid", !.fee = fee, !.swap = swap]
    /\ UNCHANGED <<now, feeds, tables>>

(* checkDepositIsOpened.  A rate that is unknown or a fee of zero puts the *)
(* row on hold; a fee that cannot be computed throws, and the row stays.   *)
Verdict(need) ==
    IF need = 0 THEN "paid"
    ELSE IF user.swap >= SwapFee(user.type, NeedDecimals(user.type, user.dir))
            /\ Accepted(user.type, user.dir, user.fee, need)
    THEN "accepted" ELSE "refused"
Judge ==
    /\ user.step = "judging"
    /\ \/ /\ RateKnown
          /\ \E e \in Latest("ETH"), b \in Latest("BOA") :
              /\ Computable(user.type, user.dir, b.krw)
              /\ LET need == EstimatedTxFee(user.type, user.dir, user.gas, e.krw, b.krw,
                                            NeedDecimals(user.type, user.dir))
                 IN  user' = [user EXCEPT !.need = need, !.step = Verdict(need)]
       \/ /\ ~RateKnown \/ \E b \in Latest("BOA") : ~Computable(user.type, user.dir, b.krw)
          /\ user' = [user EXCEPT !.step = "paid"]
    /\ UNCHANGED <<now, feeds, tables>>

Leave ==
    /\ user.step \in {"accepted", "refused"}
    /\ user' = NoUser
    /\ UNCHANGED <<now, feeds, tables>>

Feed ==
    \/ \E f \in Feeds : Fail(f)
    \/ \E g \in GasPrices : AnswerGas(g)
    \/ \E price \in Answers : AnswerCGC(price) \/ AnswerCMC(price)
    \/ Restart
Trader ==
    \/ \E type \in Types, dir \in Directions : AskFee(type, dir)
    \/ Pay
    \/ ReadGas("paid", "judging")
    \/ Judge
    \/ Leave

Next == Feed \/ Trader \/ Tick
Spec == Init /\ [][Next]_vars
=============================================================================
