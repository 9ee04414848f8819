---------------------------- MODULE InvoiceForm ----------------------------
(* The form of pages/NewInvoicePage.tsx as the user edits it, field by      *)
(* field, and what the document made of it carries.                         *)
EXTENDS Gobl, Rows

CONSTANTS Quantities, Prices, Rates, Values,  \* what is typed into lines and discounts
          VatDigits,                          \* the digits typed into a VAT id
          MaxLines, MaxDiscounts,             \* bounds: lines, discounts
          MaxClicks                           \* bound: milliseconds in which rows are added

ASSUME FormAssumption ==
    /\ Quantities \cup Prices \cup Values \subseteq Typed
    /\ Rates \subseteq {"19", "7", "0", "reverse-charge"}
    /\ VatDigits \subseteq 0 .. 9
    /\ {MaxLines, MaxDiscounts, MaxClicks} \subseteq Nat

VARIABLES invoice,    \* InvoiceFormState
          formClock,  \* Date.now() when a line, and a discount, was last added
          formTwins   \* of which kind two were added in one millisecond

formVars == <<invoice, formClock, formTwins>>

RowKinds == {"lines", "discounts"}

DocTypes == {"standard", "credit-note", "corrective", "self-billed"}
TextFields == {"name", "taxId", "steuernummer", "preceding", "iban", "bic", "ddMandateRef",
               "leitwegId", "buyerRef", "periodStart", "periodEnd"}

NewLine(id) == [id |-> id, quantity |-> "1", price |-> "0", vatRate |-> "19"]
NewDiscount(id) == [id |-> id, reason |-> FALSE, mode |-> "percent", value |-> ""]

Edit(inv) == invoice' = inv /\ UNCHANGED <<formClock, formTwins>>

\* A new row has String(Date.now()) for its id: that of the last one if the click
\* that adds it falls in the same millisecond. No click is as old as the first line.
ClickAt(kind, now) ==
    /\ now \in {formClock[kind], formClock[kind] + 1} /\ 1 < now /\ now <= MaxClicks
    /\ formClock' = [formClock EXCEPT ![kind] = now]
    /\ formTwins' = formTwins \cup (IF now = formClock[kind] THEN {kind} ELSE {})

PickDocType == \E t \in DocTypes :
    Edit([invoice EXCEPT !.docType = t,
                         !.filled = IF NeedsPreceding(t) THEN @ ELSE @ \ {"preceding"}])
PickMethod == \E m \in {"credit-transfer", "direct-debit"} : Edit([invoice EXCEPT !.method = m])
ToggleKleinunternehmer == Edit([invoice EXCEPT !.klein = ~@])
ToggleReverseCharge == Edit([invoice EXCEPT !.reverse = ~@])

\* The fields the page shows: of a party, of the payment, of the references.
PartyShown(klein) == {"name", IF klein THEN "steuernummer" ELSE "taxId"}
PaymentShown(method) == {"iban", IF method = "credit-transfer" THEN "bic" ELSE "ddMandateRef"}
ReferencesShown == {"leitwegId", "buyerRef"}
PeriodShown == {"periodStart", "periodEnd"}
PrecedingShown(docType) == IF NeedsPreceding(docType) THEN {"preceding"} ELSE {}

Shown(inv) == PartyShown(inv.klein) \cup PaymentShown(inv.method) \cup ReferencesShown
              \cup PeriodShown \cup PrecedingShown(inv.docType)

TypeText == \E f \in Shown(invoice) :
    \/ Edit([invoice EXCEPT !.filled = @ \cup {f}])
    \/ Edit([invoice EXCEPT !.filled = @ \ {f}])

\* The VAT id, one digit at a time.
TypeVatDigit == \E d \in VatDigits :
    Len(invoice.vatId) < 9 /\ Edit([invoice EXCEPT !.vatId = Append(@, d)])
EraseVatDigit == invoice.vatId # <<>> /\ Edit([invoice EXCEPT !.vatId = Front(@)])

UpdateLine == \E i \in DOMAIN invoice.lines :
    LET l == invoice.lines[i]
    IN \E row \in {[l EXCEPT !.quantity = x] : x \in Quantities}
                  \cup {[l EXCEPT !.price = x] : x \in Prices}
                  \cup (IF invoice.reverse THEN {} ELSE {[l EXCEPT !.vatRate = x] : x \in Rates}) :
           Edit([invoice EXCEPT !.lines = WithId(@, l.id, row)])

AddLine == \E now \in 1 .. MaxClicks :
    /\ Len(invoice.lines) < MaxLines /\ ClickAt("lines", now)
    /\ invoice' = [invoice EXCEPT !.lines = Append(@, NewLine(now))]

\* Gone wrong: the last line can be removed, too.
RemoveAnyLine == \E i \in DOMAIN invoice.lines :
    Edit([invoice EXCEPT !.lines = Without(@, invoice.lines[i].id)])

RemoveLine == \E i \in DOMAIN invoice.lines :
    /\ Len(invoice.lines) > 1
    /\ Edit([invoice EXCEPT !.lines = Without(@, invoice.lines[i].id)])

AddDiscount == \E now \in 1 .. MaxClicks :
    /\ Len(invoice.discounts) < MaxDiscounts /\ ClickAt("discounts", now)
    /\ invoice' = [invoice EXCEPT !.discounts = Append(@, NewDiscount(now))]

UpdateDiscount == \E i \in DOMAIN invoice.discounts :
    LET d == invoice.discounts[i]
    IN \E row \in {[d EXCEPT !.reason = x] : x \in BOOLEAN}
                  \cup {[d EXCEPT !.mode = x] : x \in {"percent", "amount"}}
                  \cup {[d EXCEPT !.value = x] : x \in Values} :
           Edit([invoice EXCEPT !.discounts = WithId(@, d.id, row)])

RemoveDiscount == \E i \in DOMAIN invoice.discounts :
    Edit([invoice EXCEPT !.discounts = Without(@, invoice.discounts[i].id)])

\* defaultFormState: the first line has id 1, a time long past.
FormInit ==
    /\ invoice = [docType |-> "standard", method |-> "credit-transfer", klein |-> FALSE,
                  reverse |-> FALSE, filled |-> {"iban", "buyerRef"}, vatId |-> <<>>,
                  lines |-> <<NewLine(1)>>, discounts |-> <<>>]
    /\ formClock = [kind \in RowKinds |-> 1] /\ formTwins = {}

EditFields == PickDocType \/ PickMethod \/ ToggleKleinunternehmer \/ TypeText
EditVatId == TypeVatDigit \/ EraseVatDigit
EditAmounts == \/ PickDocType \/ ToggleReverseCharge \/ UpdateLine \/ AddLine \/ RemoveLine
               \/ AddDiscount \/ UpdateDiscount \/ RemoveDiscount

FormNext == EditFields \/ EditVatId \/ EditAmounts
FormSpec == FormInit /\ [][FormNext]_formVars

-----------------------------------------------------------------------------
Lines == [id : Nat, quantity : Typed, price : Typed, vatRate : {"19", "7", "0", "reverse-charge"}]
Discounts == [id : Nat, reason : BOOLEAN, mode : {"percent", "amount"}, value : Typed]

FormTypeOK ==
    /\ invoice.docType \in DocTypes /\ invoice.method \in {"credit-transfer", "direct-debit"}
    /\ invoice.klein \in BOOLEAN /\ invoice.reverse \in BOOLEAN
    /\ invoice.filled \subseteq TextFields
    /\ invoice.vatId \in Seq(0 .. 9)
    /\ invoice.lines \in Seq(Lines) /\ invoice.discounts \in Seq(Discounts)
    /\ formClock \in [RowKinds -> Nat] /\ formTwins \subseteq RowKinds

\* An invoice always has a line, and no two lines, and no two discounts, have an
\* id in common, so that an edit or a removal hits the one it was made on: unless
\* two were added in one millisecond, which share an id and are removed together.
OwnIds(rows) == \A i, j \in DOMAIN rows : i # j => rows[i].id # rows[j].id

LinesWellFormed ==
    /\ "lines" \notin formTwins => invoice.lines # <<>> /\ OwnIds(invoice.lines)
    /\ "discounts" \notin formTwins => OwnIds(invoice.discounts)

Sent(inv) == PartySent(inv.klein, inv.filled) \cup PaymentSent(inv.method, inv.filled)
             \cup OrderingSent(inv.filled) \cup PrecedingSent(inv.docType, inv.filled)

\* No field the page hides is in the document, and every filled field it shows
\* is, but the reference the Leitweg id stands in for and half of a period. What
\* the page does not show is there only in the place of an empty field: the account
\* of a credit transfer without an IBAN, the reference of one without any.
DocumentIsWhatIsShown ==
    /\ Sent(invoice) \subseteq Shown(invoice) \cup Defaults
    /\ "defaultIban" \in Sent(invoice) => "iban" \notin invoice.filled
    /\ "defaultRef" \in Sent(invoice) => invoice.filled \cap {"buyerRef", "leitwegId"} = {}
    /\ (invoice.filled \cap Shown(invoice)) \ Sent(invoice)
          \subseteq {"buyerRef", "periodStart", "periodEnd"}
    /\ invoice.filled \cap {"buyerRef", "leitwegId"} # {} =>
          Sent(invoice) \cap {"buyerRef", "leitwegId"} # {}

\* What the preview cannot know: a quantity that is left out or that the library
\* refuses, a fraction of a cent, an amount with a percent sign, a discount on a
\* credit note or a negative sum, a credit note with a negative price.
Previewable(inv) ==
    /\ \A i \in DOMAIN inv.lines :
          /\ inv.lines[i].quantity \notin Unreadable \cup {""}
          /\ Money(inv.lines[i].price) = Number(inv.lines[i].price)
          /\ (Number(inv.lines[i].quantity) * Number(inv.lines[i].price)) % 4 = 0
    /\ \A i \in DOMAIN inv.discounts :
          inv.discounts[i].mode = "amount" =>
              /\ inv.discounts[i].value # "5%"
              /\ Money(inv.discounts[i].value) = Number(inv.discounts[i].value)
    /\ inv.discounts # <<>> => inv.docType # "credit-note" /\ PreviewLinesNet(inv) >= 0
    /\ inv.docType = "credit-note" =>
          \A i \in DOMAIN inv.lines : Number(inv.lines[i].price) >= 0

\* The preview's net is the document's, with the sign of a credit note; and so
\* is its VAT, where no discount is spread over lines of several rates.
PreviewAgrees ==
    LET sign == IF invoice.docType = "credit-note" THEN -1 ELSE 1
        oneRate == Cardinality({invoice.lines[i].vatRate : i \in DOMAIN invoice.lines}) = 1
    IN Previewable(invoice) =>
          /\ DocumentNet800(invoice) = sign * PreviewNet800(invoice)
          /\ (oneRate \/ PreviewDiscount800(invoice) = 0) /\ PreviewLinesNet(invoice) # 0 =>
                DocumentVat800(invoice) * PreviewLinesNet(invoice)
                    = sign * PreviewLinesVat(invoice) * PreviewNet800(invoice)

\* Of a VAT id without a hint, no other digit in any one place goes unnoticed.
VatIdErrorsCaught ==
    Len(invoice.vatId) = 9 /\ HintUStIdNr(invoice.vatId) = "none" =>
        \A i \in 1 .. 9, d \in 0 .. 9 :
            d # invoice.vatId[i] => HintUStIdNr([invoice.vatId EXCEPT ![i] = d]) = "check"
=============================================================================
