SPECIFICATION ExchangeSpec
CONSTANTS
  Slots = {s1, s2}
  NoSlot = NoSlot
  OrderIds <- MCOrderIds
  Owners = {id1, id2, id3, id4}
  NoId = NoId
  SymbolIds = {book_symbol, other_symbol}
  BookSymbol = book_symbol
  PriceLevelCount = 3
  LookupCapacity = 2
  QuantityLimit = 4
  OfferedQuantities = {0, 1, 3}
  MaxArrivals = 4
SYMMETRY Symmetry
VIEW View
INVARIANTS
  GatewayNeverTerminates
  ClientsReachTheirOrders
PROPERTY ImplementsSession
