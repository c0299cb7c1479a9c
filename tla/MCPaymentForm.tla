--------------------------- MODULE MCPaymentForm ---------------------------
(* The bodies vary in their money or in their other fields.                *)
EXTENDS PaymentForm

Decimal(n, scale) == [n |-> n, scale |-> scale]

\* 0.10 (as a text and as a number), 0.2, .3, 0.105, 0.41, -0.10 and no number.
Prices == {Decimal(10, 2), Decimal(1, 1), Decimal(2, 1), Decimal(3, 1),
           Decimal(105, 3), Decimal(41, 2), Decimal(-10, 2), None}

Item(quantity, unit, total) ==
    [named |-> TRUE, quantity |-> quantity, unit_price |-> unit, total_price |-> total]

Customer(email, country, city, postalCode) ==
    [email |-> email, country |-> country, city |-> city, address |-> "text",
     postalCode |-> postalCode]

Usual == Customer("text", "text", "text", "text")
UsualItem == Item(2, Decimal(10, 2), Decimal(2, 1))

Nothing == [f \in ClientControlled |-> None]

Body(amount, list, currency, supplied, customer) ==
    [amount |-> amount, items |-> list, currency |-> currency, supplied |-> supplied,
     customer |-> customer]

OneLine == {Body(amount, <<Item(quantity, unit, total)>>, None, Nothing, Usual) :
    amount \in Prices, quantity \in {None, 0, 1, 2}, unit \in Prices, total \in Prices \ {Decimal(10, 2)}}

TwoLines == {Body(amount, <<UsualItem, Item(1, unit, total)>>, None, Nothing, Usual) :
    amount \in Prices, unit \in Prices, total \in Prices}

Identifiers == {"merchantRef", "merchantSession"}

Strangers == {Body(Decimal(2, 1), <<UsualItem>>, None, Nothing,
                   Customer(email, country, city, postalCode)) :
    email \in {None, "text", "number"}, country \in {None, "text", "number", "unlisted"},
    city \in {None, "", "text", "number"}, postalCode \in {None, "", "text", "number"}}

Supplied == {Body(Decimal(2, 1), <<[UsualItem EXCEPT !.named = named]>>, currency,
                  [merchantRef |-> ref, merchantSession |-> session, timeStamp |-> stamp,
                   transactionCode |-> code], Usual) :
    named \in BOOLEAN, currency \in {None, "", "132", "978"},
    ref \in {None, "", "client"}, session \in {None, "", "client"}, stamp \in {None, "client"},
    code \in {None, "", "client"}}

Empty == {Body(Decimal(2, 1), <<>>, None, Nothing, Usual)}

\* 0.1, 0.10 short of a thousandth, 0.0005, 0.2, 0, -0.1, and 0.0004999: toFixed carries it up to
\* the next thousandth.
MCDecimals == {Decimal(1, 1), Decimal(99, 3), Decimal(5, 4), Decimal(2, 1), Decimal(0, 0),
               Decimal(-1, 1), Decimal(4999, 7)}

\* Also 0.0007, 0.0994996, which is carried up as well, 0.020004, which is not, and 2, out of range.
Fractions == {Body(amount, <<UsualItem>>, None, Nothing, Usual) :
    amount \in MCDecimals \cup {Decimal(7, 4), Decimal(994996, 7), Decimal(20004, 6), Decimal(2, 0)}}

\* The configured currency is not always among those allowed.
MCCurrencyLists == {{"132"}, {"978"}}

MCAllowances == {{}, Identifiers, Identifiers \cup {"timeStamp", "transactionCode"}}

MCBodies == OneLine \cup TwoLines \cup Strangers \cup Supplied \cup Empty \cup Fractions
=============================================================================
