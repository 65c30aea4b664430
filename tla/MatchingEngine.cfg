SPECIFICATION EngineSpec
CONSTANTS
  Slots = {s1, s2, s3}
  NoSlot = NoSlot
  OrderIds <- MCOrderIds
  Owners = {own1, own2}
  SymbolIds = {book_symbol, other_symbol}
  BookSymbol = book_symbol
  PriceLevelCount = 3
  LookupCapacity = 4
  QuantityLimit = 4
  OfferedQuantities = {0, 1, 3}
  MaxArrivals = 3
SYMMETRY Symmetry
VIEW View
INVARIANTS
  IdsConsecutive
  OrderIdsFresh
  LevelsInIdOrder
PROPERTY ImplementsEventStream
