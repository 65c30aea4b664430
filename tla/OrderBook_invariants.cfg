SPECIFICATION Spec
CONSTANTS
  Slots = {s1, s2, s3}
  NoSlot = NoSlot
  OrderIds = {id1, id2, id3}
  Owners = {own1}
  SymbolIds = {book_symbol, other_symbol}
  BookSymbol = book_symbol
  PriceLevelCount = 3
  LookupCapacity = 4
  QuantityLimit = 4
  OfferedQuantities = {0, 1, 3}
  MaxArrivals = 4
SYMMETRY Symmetry
VIEW View
INVARIANTS
  TypeOK
  PoolAndMapAgree
  LevelsHoldRestingOrders
  ArrivalOrder
  BestPricesCurrent
  CountsExact
  BookNotCrossed
  ExecutionsUseUpOrders
  TotalsModuloWidth
