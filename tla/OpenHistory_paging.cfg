\* One opening, two messages, pages of up to two, and one request that fails.
CONSTANTS
  MaxId = 2
  MaxVersion = 0
  PageSize = 2
  Capacity = 1
  MaxOpens = 1
  MaxFailures = 1
SPECIFICATION OpenSpec
INVARIANT LoadingMarksFlight
INVARIANT ExhaustedHasAll
INVARIANT ReadMarksAgree
INVARIANT StoreFollows
