SPECIFICATION DraftSpec
CONSTANTS
  Null = Null
  Offers <- SmallLines
  Discounts <- SmallDiscounts
  Rates <- PhRates
  MaxLines = 2
INVARIANTS DiscountsNeverStack VatIsContained
PROPERTIES DiscountNeverRaisesTotal
