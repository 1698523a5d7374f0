----------------------- MODULE TokenBridgeProperties -----------------------
(***************************************************************************)
(* What the two contracts promise about tokens, boxes and roles.           *)
(***************************************************************************)
EXTENDS TokenBridge, Totals

Box == [state : {"INVALID", "OPEN", "CLOSED", "EXPIRED"}, token : Tokens \cup {NoToken},
        terms : AllTerms \cup {NoTerms}, key : Keys \cup {NoKey}, timeLock : Nat, created : Nat]
Held(box) == box.state # "INVALID" => box.token \in Tokens /\ box.terms \in AllTerms

RolesOK ==
    /\ owner \in [Networks -> Accounts]
    /\ admins \in [Networks -> SUBSET Accounts]
    /\ managers \in [Networks -> SUBSET Accounts]
SettingsOK ==
    /\ registered \in [Networks -> SUBSET Tokens]
    /\ active \in [Networks -> BOOLEAN]
    /\ timeLock \in [Networks -> TimeLocks]
BalanceOK == balance \in [Networks -> [Tokens -> Nat]]
LiquidOK == liquid \in [Networks -> [Tokens -> [Accounts -> Nat]]]
DepositOK ==
    /\ deposit \in [Networks -> [Boxes -> Box]]
    /\ \A n \in Networks, b \in Boxes : Held(deposit[n][b])
WithdrawOK ==
    /\ withdraw \in [Networks -> [Boxes -> Box]]
    /\ \A n \in Networks, b \in Boxes : Held(withdraw[n][b])
ScriptOK ==
    script \in [Networks -> [name : {"none", "register_token", "add_liquidity"},
                             next : DOMAIN TokenPairs]]
(* Each variable keeps its type: no contract pays out tokens it does not   *)
(* hold, nobody takes out more of a token than is booked for him, and a    *)
(* box that was opened names a token and terms.                            *)
TypeOK ==
    /\ RolesOK /\ SettingsOK
    /\ BalanceOK /\ LiquidOK /\ coins \in [Networks -> Nat]
    /\ DepositOK /\ WithdrawOK
    /\ ScriptOK /\ now \in Nat

(* The owner of a contract, and nobody else, administers its roles:        *)
(* transferOwnership moves both, also to the owner himself, so there is    *)
(* always somebody who can add and remove managers.                        *)
OwnerIsAdmin == \A n \in Networks : admins[n] = {owner[n]}

Amounts(box, token, states) ==
    IF box.state \in states /\ box.token = token THEN box.terms.amount ELSE 0
InBoxes(box, token, states) == Total([b \in Boxes |-> Amounts(box[b], token, states)])
Provided(n, token) == Total(liquid[n][token])

(* The tokens of a contract are those of its providers and of all deposits *)
(* it has not given back, less what it has paid: no call books an amount   *)
(* in the wrong token, twice or not at all (the calls of TokenBridge).     *)
BooksBalance ==
    \A n \in Networks, t \in Tokens :
        balance[n][t] + InBoxes(withdraw[n], t, {"CLOSED"})
            = Provided(n, t) + InBoxes(deposit[n], t, {"OPEN", "CLOSED"})

(* A withdraw box is for a deposit box of the other network, on its terms, *)
(* in the token of the pair: behind PairsAreCovered.                       *)
Matches(wit, dep, source) ==
    wit.state # "INVALID" =>
        dep.state # "INVALID" /\ wit.terms = dep.terms /\ wit.token = TargetToken(source, dep.token)
BoxesMatch ==
    \A n \in Networks, b \in Boxes : Matches(withdraw[n][b], deposit[Other(n)][b], Other(n))

(* Once the bridge has closed the deposit of every withdrawal it has paid, *)
(* the two contracts together hold, of the two tokens of each pair, what   *)
(* their providers brought in and what open deposits may take back.        *)
Alone(i) == \A j \in DOMAIN TokenPairs \ {i}, n \in Networks : TokenPairs[j][n] # TokenPairs[i][n]
Repaid(n, b) == withdraw[n][b].state = "CLOSED" => deposit[Other(n)][b].state = "CLOSED"
PairsAreCovered ==
    (\A n \in Networks, b \in Boxes : Repaid(n, b)) =>
        \A i \in DOMAIN TokenPairs : Alone(i) =>
            Total([n \in Networks |-> balance[n][TokenPairs[i][n]]])
                >= Total([n \in Networks |-> Provided(n, TokenPairs[i][n])
                              + InBoxes(deposit[n], TokenPairs[i][n], {"OPEN"})])
============================================================================
