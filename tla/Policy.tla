-------------------------------- MODULE Policy --------------------------------
(***************************************************************************)
(* execution/policy.rs: what becomes of an intent before it is an order.   *)
(* The bot runs the dual policy, a taker's unless the intent is passive.   *)
(* Prices are integers of one unit, ticks and the offset too; a tick of 0  *)
(* asks for no rounding.                                                   *)
(***************************************************************************)
EXTENDS Integers

CONSTANT PriceOffset    \* MakerPolicy.price_offset_cents, MAKER_PRICE_OFFSET

ASSUME PolicyAssumption == PriceOffset \in Nat

Urgencies == {"Immediate", "Normal", "Passive"}

IntentRef(side, price, size, urgency, tick) ==
    [side |-> side, price |-> price, size |-> size, urgency |-> urgency, tick |-> tick]

RoundDown(p, tick) == IF tick = 0 THEN p ELSE (p \div tick) * tick

RoundUp(p, tick) == IF tick = 0 THEN p ELSE ((p + tick - 1) \div tick) * tick

OrderParams(i, price, type) ==
    [side |-> i.side, price |-> price, size |-> i.size, type |-> type]

\* TakerPolicy: the price is rounded up, whichever the side.
TakerParams(i) ==
    OrderParams(i, RoundUp(i.price, i.tick),
                IF i.urgency = "Immediate" THEN "FOK" ELSE "FAK")

\* Mutant: a bid is rounded up after the offset, an ask down.
ApplyPriceOffsetOutward(i) ==
    IF i.side = "Buy" THEN RoundUp(i.price + PriceOffset, i.tick)
                      ELSE RoundDown(i.price - PriceOffset, i.tick)

\* MakerPolicy: a bid moves up by the offset, an ask down, then both back to a tick.
ApplyPriceOffset(i) ==
    IF i.side = "Buy" THEN RoundDown(i.price + PriceOffset, i.tick)
                      ELSE RoundUp(i.price - PriceOffset, i.tick)

MakerParams(i) == OrderParams(i, ApplyPriceOffset(i), "GTC")

ToOrderParams(i) == IF i.urgency = "Passive" THEN MakerParams(i) ELSE TakerParams(i)
=============================================================================
