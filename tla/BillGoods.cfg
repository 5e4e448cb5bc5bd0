\* A stack of two goods: carried, split, dropped, thrown, broken, stolen and paid for; the shopkeeper nods off.
SPECIFICATION Spec
CONSTANTS
  o1 = o1
  o2 = o2
  o3 = o3
  Obj     = {o1, o2, o3}
  Goods   <- Stack2
  Price   = 2
  Fee     = 1
  Purse   = 2
  Chest   = 1
  Appease = 2
  MaxOwed = 4
  Deeds   = {"floor", "throw", "hole", "thieves", "vandal", "sleep"}
INVARIANTS TypeOK BillAgrees SecondPassBuysAll
PROPERTIES NothingForFree
