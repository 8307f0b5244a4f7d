------------------------------- MODULE Routes -------------------------------
(***************************************************************************)
(* What a trade costs: the tables of src/api/routes_config.py and          *)
(* calculate_profit of src/api/opportunity.py.                             *)
(*                                                                         *)
(* Money is in cents of a dollar, or of the local currency where it says   *)
(* so; a share of it is in basis points, 10000 to the whole, so that every *)
(* product is exact until the code itself rounds to cents.                 *)
(***************************************************************************)
EXTENDS Integers, Sequences, FiniteSets

Whole == 10000
Smaller(x, y) == IF x <= y THEN x ELSE y
Larger(x, y) == IF x >= y THEN x ELSE y
Clamp(x, low, high) == Larger(low, Smaller(x, high))

\* round(x / Whole, 2) of x / Whole cents, x possibly negative.
Round(x) == (x + Whole \div 2) \div Whole

Fees(commission, processing, fixed, vat, shipping, currency, country) ==
    [commission |-> commission, processing |-> processing, fixed |-> fixed, vat |-> vat,
     shipping |-> shipping, currency |-> currency, country |-> country]

MARKETPLACE_FEES ==
    [amazon          |-> Fees(1500,   0,      0, 1600,   0, "MXN", "MX"),
     amazon_us       |-> Fees(1500,   0,      0,    0,   0, "USD", "US"),
     mercadolibre_mx |-> Fees(1600, 360,    500, 1600,   0, "MXN", "MX"),
     mercadolibre_ar |-> Fees(1300, 360,  45000, 2100,   0, "ARS", "AR"),
     mercadolibre_cl |-> Fees(1300, 360,  25000, 1900,   0, "CLP", "CL"),
     mercadolibre_co |-> Fees(1400, 360, 120000, 1900,   0, "COP", "CO"),
     ebay            |-> Fees(1312,   0,      0,    0, 800, "USD", "US"),
     aliexpress      |-> Fees( 800,   0,      0,    0,   0, "USD", "CN")]

Marketplaces == DOMAIN MARKETPLACE_FEES
Country(m) == MARKETPLACE_FEES[m].country

\* Import duty follows the country of sale, freight the pair of countries.
Freight ==
    [US |-> [MX |-> 1500, CL |-> 2200, AR |-> 2500, CO |-> 2200],
     MX |-> [CL |-> 1200, AR |-> 1400, US |-> 1500, CO |-> 1500],
     CN |-> [MX |-> 800, CL |-> 1200, AR |-> 1500, US |-> 1000, CO |-> 1400],
     AR |-> [MX |-> 4500, US |-> 5000],
     CL |-> [MX |-> 1800, US |-> 2500],
     CO |-> [MX |-> 1500, US |-> 2200]]
Duty == [MX |-> 1600, CL |-> 1900, AR |-> 5000, US |-> 0, CO |-> 1900]
Insurance == 200
DEFAULT_CROSS_BORDER == [duty |-> 2000, freight |-> 4000]

Priced(buy, sell) ==
    Country(buy) \in DOMAIN Freight /\ Country(sell) \in DOMAIN Freight[Country(buy)]

get_cross_border_fees(buy, sell) ==
    IF Priced(buy, sell)
    THEN [duty |-> Duty[Country(sell)], freight |-> Freight[Country(buy)][Country(sell)]]
    ELSE DEFAULT_CROSS_BORDER

is_cross_border(buy, sell) == Country(buy) # Country(sell)

\* ARBITRAGE_ROUTES: what may be sold where, with the difficulty.
To(sources, target, difficulty) == {<<s, target, difficulty>> : s \in sources}

ARBITRAGE_ROUTES ==
    UNION {To({"amazon_us", "ebay", "amazon"}, "mercadolibre_mx", 1),
           To({"mercadolibre_mx"}, "amazon", 1),
           To({"aliexpress"}, "amazon", 2),
           To({"aliexpress", "mercadolibre_ar", "mercadolibre_cl", "mercadolibre_co"},
              "mercadolibre_mx", 2),
           To({"amazon_us", "ebay", "amazon", "mercadolibre_mx", "aliexpress"},
              "mercadolibre_cl", 2),
           To({"amazon_us", "ebay", "amazon", "mercadolibre_mx", "aliexpress"},
              "mercadolibre_ar", 3),
           To({"amazon_us", "ebay", "amazon", "aliexpress"}, "mercadolibre_co", 2)}

VALID_ROUTE_PAIRS == {<<r[1], r[2]>> : r \in ARBITRAGE_ROUTES}

get_route_difficulty(buy, sell) ==
    LET known == {r \in ARBITRAGE_ROUTES : r[1] = buy /\ r[2] = sell} IN
        IF known = {} THEN 2 ELSE (CHOOSE r \in known : TRUE)[3]

get_route_label(buy, sell) == <<Country(buy), Country(sell)>>

-----------------------------------------------------------------------------
(***************************************************************************)
(* rates[c] is the price of a dollar in cents of currency c.               *)
(***************************************************************************)
FALLBACK_RATES == [USD |-> 100, ARS |-> 105000, MXN |-> 1780, CLP |-> 95000, COP |-> 410000]

\* A currency the fetched table lacks has its fallback rate.
RateOf(rates, currency) ==
    IF currency \in DOMAIN rates THEN rates[currency] ELSE FALLBACK_RATES[currency]

\* A rate that is no price leaves the amount as it is.
to_usd(price, currency, rates) ==
    LET rate == RateOf(rates, currency) IN
        IF rate > 0 THEN (price * 100) \div rate ELSE price

\* Processing without a fixed fee of its own costs 30 cents.
PaymentFee(fees, sell, rates) ==
    IF fees.processing = 0 THEN 0
    ELSE sell * fees.processing
         + Whole * (IF fees.fixed > 0 THEN to_usd(fees.fixed, fees.currency, rates) ELSE 30)

\* Duty is due on the sale price, its insurance and the freight.
ImportTax(buyAt, sellAt, sell) ==
    LET border == get_cross_border_fees(buyAt, sellAt)
        cif == sell + (sell * Insurance) \div Whole + border.freight IN
        IF is_cross_border(buyAt, sellAt) THEN cif * border.duty ELSE 0

Shipping(buyAt, sellAt, sellShipsFree) ==
    (IF sellShipsFree THEN 0 ELSE MARKETPLACE_FEES[sellAt].shipping)
    + (IF is_cross_border(buyAt, sellAt) THEN get_cross_border_fees(buyAt, sellAt).freight ELSE 0)

calculate_profit(buy, sell, buyAt, sellAt, sellShipsFree, rates) ==
    LET fees == MARKETPLACE_FEES[sellAt]
        cost == Round(sell * (fees.commission + fees.vat)
                      + PaymentFee(fees, sell, rates) + ImportTax(buyAt, sellAt, sell))
                + Shipping(buyAt, sellAt, sellShipsFree)
        net == sell - buy - cost IN
        [buy |-> buy, sell |-> sell, fees |-> cost, net |-> net,
         roi |-> IF buy > 0 THEN (net * Whole) \div buy ELSE 0,
         margin |-> IF sell > 0 THEN (net * Whole) \div sell ELSE 0]

\* HARDENED_MODE: dearer, sold at the lowest price of a competitor, and 30 %
\* off what is left.
HiddenCost == 500
SafetyMultiplier == 7000
MinAdjustedProfit == 2000
MinAdjustedRoi == 1500

calculate_conservative_profit(calc, lowest) ==
    LET buy == Round(calc.buy * (Whole + HiddenCost))
        sell == Smaller(calc.sell, lowest)
        net == Round((sell - buy - calc.fees) * SafetyMultiplier) IN
        [net |-> net,
         viable |-> /\ net >= MinAdjustedProfit
                    /\ buy > 0 => (net * Whole) \div buy >= MinAdjustedRoi]

-----------------------------------------------------------------------------
\* No route relies on the default fees, which are for countries nobody knows:
\* a table entry left out would price a route by the default, in silence.
RoutesArePriced ==
    \A r \in ARBITRAGE_ROUTES : is_cross_border(r[1], r[2]) => Priced(r[1], r[2])

\* One difficulty for each pair, and no marketplace sells to itself.
RoutesAreFunctional ==
    \A r, q \in ARBITRAGE_ROUTES :
        (r[1] = q[1] /\ r[2] = q[2]) => (r[3] = q[3] /\ r[1] # r[2])
=============================================================================
