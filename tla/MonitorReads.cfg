SPECIFICATION Spec
CONSTANTS
  Provider <- MCProvider
  Market = {"m1", "m2"}
  Selection <- MCSelection
  SideOf <- MCSideOf
  Content <- MCContent
  Opening <- MCOpening
  Unpublished = Unpublished
  Confidence = 90
  Significant = 1
  OutlierPercent = 10
  ValuePercent = 5
  TTL = 1
  MaxNow = 3
  MaxPublications = 2
INVARIANTS ComparedPricesWereOffered ValueBetsAreAtMostHalf HealthWasTrue
CHECK_DEADLOCK FALSE
