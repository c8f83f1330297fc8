SPECIFICATION Spec
CONSTANTS
  Null = Null
  retail = retail
  cafe = cafe
  demo = demo
  main = main
  annex = annex
  bar = bar
  school = school
  latte = latte
  bean = bean
  idle = idle
  tea = tea
  toy = toy
  small = small
  large = large
  drinks = drinks
  goods = goods
  c10 = c10
  off10 = off10
  happy = happy
  late = late
  Businesses = {retail, cafe, demo}
  Branches <- AllBranches
  Demo = {demo}
  BusinessOf <- Owning
  DayStart <- Starts
  RatesOf <- RatesHere
  Products <- AllProducts
  SoldBy <- Sellers
  CategoryOf <- Categories
  DraftsAt <- DraftsHere
  Reasons = {late}
  Instants <- Minutes
  MonthStart <- Months
  MaxSales = 2
  Queries <- Asked
CHECK_DEADLOCK FALSE
INVARIANTS ReportsAgree DaysAddUp DiscountsAttributed TaxMatchesPayments RevenueAccounted StatusesOnlyInLeaks DashboardIsToday
