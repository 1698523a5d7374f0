-------------------------------- MODULE Fees --------------------------------
(***************************************************************************)
(* The fee of a swap: how the server computes it from the gas price and    *)
(* the prices of ETH and BOA, quotes it and compares it with the fee of a  *)
(* deposit.  Amounts are integers with a number of decimals (Amount), and  *)
(* the real numbers of the code are fractions, without rounding.           *)
(***************************************************************************)
EXTENDS Integers

CONSTANTS
    TokenDecimals, CoinDecimals,  \* BOAToken.DECIMAL, BOACoin.DECIMAL
    Precision,    \* decimals that the tolerance looks at
    BridgeFee,    \* config.bridge.fee, in whole BOA
    GasUsage,     \* of [type][direction]
    GasUnit,      \* of [type]: gas prices in one coin
    MaxDigits     \* bound of the digits of an amount

Types == {"BOA", "TOKEN"}
Directions == {"ETHNET_BIZNET", "BIZNET_ETHNET"}

ASSUME Scales ==
    /\ CoinDecimals \in Nat /\ TokenDecimals \in 1 .. CoinDecimals
    /\ Precision \in 1 .. TokenDecimals
    /\ BridgeFee \in Nat /\ MaxDigits \in Nat \ {0}
    /\ GasUsage \in [Types -> [Directions -> Nat]]
    /\ GasUnit \in [Types -> Nat \ {0}]

(* BigNumber.from(10).pow(n).                                              *)
Tens[n \in Nat] == IF n = 0 THEN 1 ELSE 10 * Tens[n - 1]

Ceil(p, q) == (p + q - 1) \div q
(* Amount.make of p / q: what lies below the last decimal is cut off.      *)
Make(p, q, decimals) == (p * Tens[decimals]) \div q
(* Amount.convert. *)
Convert(v, from, to) == IF to >= from THEN v * Tens[to - from] ELSE v \div Tens[from - to]

(* getEstimatedTxFee of the two bridges: whole BOA, but a fraction of ETH  *)
(* for a deposit of tokens on the EthNet.                                  *)
WholeTxFee(type, dir, gas, eth, boa, decimals) ==
    Make(Ceil(GasUsage[type][dir] * gas * eth, GasUnit[type] * boa), 1, decimals)
TokenTxFee(dir, gas, eth, boa, decimals) ==
    IF dir = "ETHNET_BIZNET"
    THEN Make(GasUsage["TOKEN"][dir] * gas, GasUnit["TOKEN"], decimals)
    ELSE WholeTxFee("TOKEN", dir, gas, eth, boa, decimals)
EstimatedTxFee(type, dir, gas, eth, boa, decimals) ==
    IF type = "TOKEN" THEN TokenTxFee(dir, gas, eth, boa, decimals)
    ELSE WholeTxFee(type, dir, gas, eth, boa, decimals)

(* A rate that is no number, or no finite one, makes no Amount; only the   *)
(* fee of tokens that leave the EthNet does without it.                    *)
Computable(type, dir, boa) == boa # 0 \/ (type = "TOKEN" /\ dir = "ETHNET_BIZNET")

(* getSwapFee of the two bridges.                                          *)
SwapFee(type, decimals) == IF type = "BOA" THEN Make(BridgeFee, 1, decimals) ELSE 0

(* The decimals of the fee that the handlers ask, of the quote of          *)
(* GET /bridge/fees, and of the fee in the deposit box.                    *)
NeedDecimals(type, dir) == IF dir = "ETHNET_BIZNET" THEN TokenDecimals ELSE CoinDecimals
QuoteDecimals(type, dir) ==
    IF type = "BOA" /\ dir = "ETHNET_BIZNET" THEN TokenDecimals ELSE CoinDecimals
BoxDecimals(type, dir) == QuoteDecimals(type, dir)

(* Two BigNumbers are compared as the texts of their digits.               *)
Digits(v) == CHOOSE d \in 1 .. MaxDigits : v < Tens[d] /\ (d = 1 \/ v >= Tens[d - 1])
Padded(v) == v * Tens[MaxDigits - Digits(v)]
TextBefore(v, w) == Padded(v) < Padded(w) \/ (Padded(v) = Padded(w) /\ Digits(v) < Digits(w))

(* The tolerance: a tenth of the present fee less, but not quite as much   *)
(* more, for 1.1 - 1.0 of floating point is above 0.1.                     *)
Tolerated_Hundredth(paid, need, decimals) ==
    LET fee1 == Convert(paid, decimals, Precision)
        fee2 == Convert(need, decimals, Precision)
    IN  IF fee2 = 0 THEN fee1 = 0
        ELSE 100 * (fee1 - fee2) < fee2 /\ 100 * (fee2 - fee1) <= fee2
Tolerated(paid, need, decimals) ==
    LET fee1 == Convert(paid, decimals, Precision)
        fee2 == Convert(need, decimals, Precision)
    IN  IF fee2 = 0 THEN fee1 = 0
        ELSE 10 * (fee1 - fee2) < fee2 /\ 10 * (fee2 - fee1) <= fee2

(* checkDepositIsOpened, of a transaction fee that is known and not zero.  *)
Accepted(type, dir, paid, need) ==
    ~TextBefore(paid, need) \/ Tolerated(paid, need, NeedDecimals(type, dir))
=============================================================================
