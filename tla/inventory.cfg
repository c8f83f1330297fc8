SPECIFICATION Spec
CONSTANTS
  Null = Null
  retail = retail
  cafe = cafe
  demo = demo
  main = main
  bar = bar
  school = school
  till = till
  counter = counter
  latte = latte
  bean = bean
  tea = tea
  toy = toy
  small = small
  large = large
  damage = damage
  theft = theft
  Businesses = {retail, cafe, demo}
  Branches <- AllBranches
  Demo = {demo}
  BusinessOf <- Owning
  DayStart <- Starts
  Instants <- Minutes
  Terminals = {till, counter}
  BranchOf <- Paired
  Products = {latte, bean, tea, toy}
  SoldBy <- Sellers
  variantsOf <- Sizes
  lowStockThreshold <- Thresholds
  OpeningLevels <- OnShelf
  OpeningProductCost <- ProductCosts
  OpeningVariantCost <- VariantCosts
  DeliveriesTo <- Deliveries
  CountsAt <- Counts
  BasketsAt <- Baskets
  Counted = {150}
  IdRank <- Uuids
  ValueShort <- HalvesLost
  MAX_MERGE_ROWS = 6
  OpeningShifts <- Opened
  MaxRequests = 3
  Queries <- Asked
  Filters <- Narrowed
  PageSizes = {2, 3}
  Always <- WholeTime
CHECK_DEADLOCK FALSE
INVARIANTS MovementPages StockAccounted LossesAccounted ShiftsAccounted
