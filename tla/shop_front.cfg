SPECIFICATION Spec
CONSTANTS
  s1 = s1
  s2 = s2
  s3 = s3
  p1 = p1
  p2 = p2
  p3 = p3
  c1 = c1
  c2 = c2
  Shop <- MCShop
  Product <- MCProduct
  Category <- MCCategory
  ShopList <- MCShopList
  Open <- MCOpen
  Mine <- MCMine
  StoreOf <- MCStoreOf
  CategoryOf <- MCCategoryOf
  Found <- MCFound
  GridThreshold = 1
  GridColumns = 2
  MaxPieces = 3
  MaxAsked = 2
  None = None
INVARIANTS
  TypeOK
  LinesNameTheirShop
  ListShowsEachOnce
PROPERTIES
  CartIsABasket
  SpinnerEnds
