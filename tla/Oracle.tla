-------------------------------- MODULE Oracle --------------------------------
(***************************************************************************)
(* The accumulation hooks of the oracle's events                           *)
(* (app/processors/events/oracle), as functions on the tables t.           *)
(*                                                                         *)
(* Rows by era and by purchase are shared by the events of many blocks,    *)
(* which come in in any order; there is no revert but the one of prices.   *)
(***************************************************************************)
EXTENDS Integers, Tables

CONSTANT SkippedBlock  \* block 732801, whose prices are left out

\* A price per symbol; the key is the block and the symbol.
AggregatedPrice(t, n, e) ==
  LET rows == {<<n, s>> : s \in e.symbols}
  IN IF n = SkippedBlock THEN t
     ELSE [t EXCEPT !.prices = @ \cup rows,
                    !.failed = @ \/ rows \cap t.prices # {}]

AggregatedPriceRevert(t, n) == [t EXCEPT !.prices = {r \in @ : r[1] # n}]

------------------------------------------------------------------------------
\* A new era counts on from the one before, when that one is there already.
NewEra(t, era) ==
  [total_eras |-> IF era - 1 \in DOMAIN t.eras THEN t.eras[era - 1].total_eras + 1 ELSE 0,
   requests |-> 0, points |-> 0, fee |-> 0, ended |-> Null]

NewPurchase ==
  [created |-> Null, prepayment |-> Null, status |-> Null, payment |-> Null, ended |-> Null]

\* Mutants: the request is a new row whatever is there; the first request of an
\* era is not counted.
PurchaseOfRequestAnew(t, n, e) ==
  [NewPurchase EXCEPT !.created = n, !.prepayment = e.fee, !.status = 0, !.payment = 0]

EraOfRequestUncounted(t, e) ==
  IF e.era \in DOMAIN t.eras THEN [t.eras[e.era] EXCEPT !.requests = @ + 1]
  ELSE NewEra(t, e.era)

PurchaseOfRequest(t, n, e) ==
  IF e.id \in DOMAIN t.purchases
  THEN [t.purchases[e.id] EXCEPT !.created = n, !.prepayment = e.fee]
  ELSE [NewPurchase EXCEPT !.created = n, !.prepayment = e.fee, !.status = 0, !.payment = 0]

EraOfRequest(t, e) == [RowOr(t.eras, e.era, NewEra(t, e.era)) EXCEPT !.requests = @ + 1]

NewPurchasedRequest(t, n, e) ==
  [t EXCEPT !.eras = Put(@, e.era, EraOfRequest(t, e)),
            !.purchases = Put(@, e.id, PurchaseOfRequest(t, n, e))]

\* An era that ends with points gets a row of its own when it has none.
EndOfAskEra(t, n, e) ==
  LET new == [NewEra(t, e.era) EXCEPT !.total_eras = 0]
      ended == [RowOr(t.eras, e.era, new)
                 EXCEPT !.fee = e.fee, !.points = e.points, !.ended = n]
  IN IF e.era \in DOMAIN t.eras \/ e.points > 0
     THEN [t EXCEPT !.eras = Put(@, e.era, ended)]
     ELSE t

PayForPurchase(t, n, e) ==
  [t EXCEPT !.purchases =
     Put(@, e.id, [RowOr(@, e.id, NewPurchase) EXCEPT !.payment = e.fee, !.status = 1])]

PurchasedAvgPrice(t, n, e) ==
  [t EXCEPT !.purchases =
     Put(@, e.id, [RowOr(@, e.id, NewPurchase) EXCEPT !.ended = n])]
==============================================================================
