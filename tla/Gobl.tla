-------------------------------- MODULE Gobl --------------------------------
(* lib/gobl.ts: what the invoice form becomes as a document, the preview of *)
(* its totals, and the syntax hint for a German VAT id. A text the user may *)
(* type is one of Typed, or, where only its presence matters, the name of   *)
(* its field in the set of filled fields. A price or an amount counts cents, *)
(* so that half of one is what rounding tells apart. Numbers are doubled and *)
(* their products, of a quantity and a price, quarters of a cent; times 200  *)
(* where a percentage is taken of them.                                      *)
EXTENDS Integers, FiniteSets, Sequences, SequencesExt

\* Nothing, no number, a percentage, numbers.
Typed == {"", "x", "5%", "-1", "0", "0.5", "0,5", "1", "2", "3", "50"}

\* Number(text with a point for a comma) || 0, twice.
Number(t) == CASE t = "-1" -> -2 [] t \in {"0.5", "0,5"} -> 1 [] t = "1" -> 2 [] t = "2" -> 4
               [] t = "3" -> 6 [] t = "50" -> 100 [] OTHER -> 0

\* The same after a trailing percent sign is cut off.
NumberOrPercent(t) == IF t = "5%" THEN 10 ELSE Number(t)

\* normalizeMoney: toFixed(2). Whether a half goes up or down depends on the
\* binary number it is; here it goes up, and no property counts on it.
Money(t) == 2 * ((Number(t) + 1) \div 2)

\* The sum of F over the rows of a list.
Total(f, n) == LET sum[k \in 0 .. n] == IF k = 0 THEN 0 ELSE sum[k - 1] + f[k] IN sum[n]
SumOver(rows, F(_)) == Total([i \in DOMAIN rows |-> F(rows[i])], Len(rows))

NeedsPreceding(docType) == docType \in {"credit-note", "corrective"}

-----------------------------------------------------------------------------
\* Gone wrong: a credit note keeps the sign of its prices.
LinePriceAsTyped(docType, l) == Money(l.price)

\* toGobl. A line of a credit note has a negative price. A quantity is sent as it
\* was typed, and 1 if it was not.
LinePrice(docType, l) == IF docType = "credit-note" /\ Money(l.price) > 0
                         THEN -Money(l.price) ELSE Money(l.price)
SentQuantity(l) == IF l.quantity = "" THEN "1" ELSE l.quantity

\* The server's GOBL library refuses a document with a quantity that is no number
\* or has a comma.
Unreadable == {"x", "5%", "0,5"}
LineQuantity(l) == Number(SentQuantity(l))

LineTax(vatRate, reverse) == IF reverse \/ vatRate = "reverse-charge" THEN "reverse-charge"
                             ELSE CASE vatRate = "19" -> "general"
                                    [] vatRate = "7" -> "reduced"
                                    [] OTHER -> "zero"

\* The one tax a discount on the whole invoice is booked under.
DiscountTax(lines, reverse) ==
    LET rates == {lines[i].vatRate : i \in DOMAIN lines}
    IN CASE reverse -> "reverse-charge"
         [] ~reverse /\ ("19" \in rates \/ rates = {}) -> "general"
         [] ~reverse /\ "19" \notin rates /\ "7" \in rates -> "reduced"
         [] ~reverse /\ rates = {"0"} -> "zero"
         [] OTHER -> "reverse-charge"

\* The base of a percentage is in whole cents and has no sign.
LinesNetSum(lines) ==
    LET net == SumOver(lines, LAMBDA l : Number(l.quantity) * Number(l.price))
    IN 4 * (((IF net < 0 THEN -net ELSE net) + 2) \div 4)

\* Discounts without a reason or a value are dropped.
SentDiscount800(d, lines) ==
    IF ~d.reason \/ d.value = "" THEN 0
    ELSE IF d.mode = "percent" THEN LinesNetSum(lines) * NumberOrPercent(d.value)
    ELSE 400 * Money(d.value)

\* Gone wrong: a hidden tax number or VAT id is sent along.
PartySentWhole(klein, filled) == filled \cap {"steuernummer", "taxId", "name"}

\* What stands in a document where nothing was filled in.
Defaults == {"defaultIban", "defaultRef"}

\* Which filled fields reach the document: the parties, the payment, the rest.
PartySent(klein, filled) == filled \cap {IF klein THEN "steuernummer" ELSE "taxId", "name"}
PaymentSent(method, filled) ==
    IF method = "direct-debit" THEN filled \cap {"ddMandateRef", "iban"}
    ELSE (filled \cap {"iban", "bic"}) \cup (IF "iban" \in filled THEN {} ELSE {"defaultIban"})
OrderingSent(filled) ==
    (CASE "leitwegId" \in filled -> {"leitwegId"}
       [] "leitwegId" \notin filled /\ "buyerRef" \in filled -> {"buyerRef"}
       [] OTHER -> {"defaultRef"})
    \cup (IF {"periodStart", "periodEnd"} \subseteq filled THEN {"periodStart", "periodEnd"} ELSE {})
PrecedingSent(docType, filled) == IF NeedsPreceding(docType) THEN filled \cap {"preceding"} ELSE {}

\* The document's net and VAT, as the server's GOBL library totals it.
DocumentNet800(inv) ==
    200 * SumOver(inv.lines, LAMBDA l : LineQuantity(l) * LinePrice(inv.docType, l))
    - SumOver(inv.discounts, LAMBDA d : SentDiscount800(d, inv.lines))

Percent(tax) == CASE tax = "general" -> 19 [] tax = "reduced" -> 7 [] OTHER -> 0

DocumentVat800(inv) ==
    200 * SumOver(inv.lines, LAMBDA l : LineQuantity(l) * LinePrice(inv.docType, l)
                                        * Percent(LineTax(l.vatRate, inv.reverse)))
    - SumOver(inv.discounts, LAMBDA d : SentDiscount800(d, inv.lines))
      * Percent(DiscountTax(inv.lines, inv.reverse))

-----------------------------------------------------------------------------
\* previewTotals: net, VAT before discounts, discounts.
VatPercent(vatRate, reverse) == IF reverse THEN 0
                                ELSE CASE vatRate = "19" -> 19 [] vatRate = "7" -> 7 [] OTHER -> 0

PreviewLinesNet(inv) == SumOver(inv.lines, LAMBDA l : Number(l.quantity) * Number(l.price))
PreviewLinesVat(inv) == SumOver(inv.lines, LAMBDA l : Number(l.quantity) * Number(l.price)
                                                      * VatPercent(l.vatRate, inv.reverse))
PreviewDiscount800(inv) ==
    SumOver(inv.discounts, LAMBDA d :
        IF ~d.reason THEN 0
        ELSE IF d.mode = "percent" THEN PreviewLinesNet(inv) * NumberOrPercent(d.value)
        ELSE 400 * NumberOrPercent(d.value))
PreviewNet800(inv) == 200 * PreviewLinesNet(inv) - PreviewDiscount800(inv)

-----------------------------------------------------------------------------
\* Gone wrong: the step of ISO 7064 without its 10 for 0.
VatStepWithoutTen(product, digit) == (2 * ((digit + product) % 10)) % 11

\* hintUStIdNr: the check digit of a German VAT id, for the digits typed.
VatStep(product, digit) == LET m == (digit + product) % 10
                           IN (2 * (IF m = 0 THEN 10 ELSE m)) % 11

VatProduct(d) ==
    VatStep(VatStep(VatStep(VatStep(VatStep(VatStep(VatStep(VatStep(
        10, d[1]), d[2]), d[3]), d[4]), d[5]), d[6]), d[7]), d[8])

VatCheckDigit(d) == IF 11 - VatProduct(d) = 10 THEN 0 ELSE 11 - VatProduct(d)

HintUStIdNr(d) == CASE d = <<>> -> "none"
                    [] d # <<>> /\ Len(d) # 9 -> "length"
                    [] Len(d) = 9 /\ d[9] # VatCheckDigit(d) -> "check"
                    [] OTHER -> "none"
=============================================================================
