-------------------------- MODULE MCGetExchangeRate --------------------------
(***************************************************************************)
(* Instances of GetExchangeRate for TLC.  BTC and USDT are privileged      *)
(* assets, XYZ is not, "B-C" is a symbol the sanitization empties.         *)
(***************************************************************************)
EXTENDS GetExchangeRateProperties

CONSTANTS c1, c2, e1, e2

MCCleanSymbol ==
    [s \in {"BTC", "XYZ", "USDT", "USDC", "USDS", "EUR", "USD"} |-> s]
        @@ ("btc" :> "BTC") @@ ("B-C" :> "")

MCSymbols == {"BTC", "XYZ", "USDT", "USDC", "USDS", "EUR", "USD", ""}
MCPrivilegedCryptoAssets == {"BTC", "USDT"}

MCStablecoinsServed ==
    [e \in Exchanges |-> IF e = e1 THEN {"USDC", "USDS"} ELSE {"USDC"}]

LOCAL C(symbol) == [class |-> Crypto, symbol |-> symbol]
LOCAL F(symbol) == [class |-> Fiat, symbol |-> symbol]
LOCAL Of(base, quote, timestamps) ==
    {[base |-> base, quote |-> quote, timestamp |-> t] : t \in timestamps}

CallSymmetry == Permutations(Calls)

(* Every class of pair, with valid, invalid, past and future variants. *)
AllRequests ==
    Of(C("btc"), C("USDT"), {NoTimestamp, 180}) \cup Of(C("BTC"), C("XYZ"), {NoTimestamp, 119})
        \cup Of(C("XYZ"), C("B-C"), {60}) \cup Of(C("B-C"), C("XYZ"), {60})
        \cup Of(C("BTC"), F("EUR"), {NoTimestamp}) \cup Of(F("EUR"), C("XYZ"), {119})
        \cup Of(C("B-C"), F("EUR"), {60}) \cup Of(F("EUR"), C("B-C"), {NoTimestamp})
        \cup Of(F("B-C"), C("XYZ"), {60})
        \cup Of(F("EUR"), F("USD"), {NoTimestamp, 180}) \cup Of(F("EUR"), F("B-C"), {60})

(* Crypto pairs that share an asset, one of them privileged. *)
CryptoRequests ==
    Of(C("BTC"), C("USDT"), {NoTimestamp}) \cup Of(C("XYZ"), C("BTC"), {NoTimestamp, 120})

(* Two pairs that may be fetched together, and a third that shares an      *)
(* asset with each of them; and a pair of an asset with itself.            *)
OverlappingRequests ==
    Of(C("BTC"), F("EUR"), {NoTimestamp}) \cup Of(F("EUR"), C("XYZ"), {60})
        \cup Of(C("XYZ"), C("BTC"), {60}) \cup Of(C("BTC"), C("BTC"), {60})

(* A fiat-crypto pair.  The crypto asset is one of the stablecoins, so     *)
(* that a small cache can hold all that is needed.                         *)
FiatRequests == Of(F("EUR"), C("USDC"), {NoTimestamp})

(* The same pair and minute, asked for with and without a timestamp. *)
SamePairTwice == Of(C("BTC"), C("XYZ"), {NoTimestamp, 60})

(* Two crypto-fiat pairs of different crypto assets. *)
StablecoinRequests == Of(C("BTC"), F("EUR"), {60}) \cup Of(C("XYZ"), F("EUR"), {60})

=============================================================================
