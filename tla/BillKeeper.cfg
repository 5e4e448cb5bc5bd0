\* The shopkeeper angry, appeased, sent away, dead; gold dropped, lent, thrown; fees, damage and meals.
SPECIFICATION Spec
CONSTANTS
  o1 = o1
  o2 = o2
  o3 = o3
  Obj     = {o1, o2}
  Goods   <- Stack2
  Price   = 2
  Fee     = 1
  Purse   = 2
  Chest   = 0
  Appease = 2
  MaxOwed = 3
  Deeds   = {"gold", "fees", "food", "fight"}
INVARIANTS BillStaysInside PricesAgree LoanIsOwed
PROPERTIES NothingForFree PayReturns
