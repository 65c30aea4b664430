SPECIFICATION FairSpec
CONSTANTS
  Slots = {s1, s2}
  NoSlot = NoSlot
  OrderIds = {id1, id2}
  Owners = {own1}
  SymbolIds = {book_symbol}
  BookSymbol = book_symbol
  PriceLevelCount = 2
  LookupCapacity = 2
  QuantityLimit = 4
  OfferedQuantities = {1, 3}
  MaxArrivals = 3
PROPERTY ExecuteTerminates
