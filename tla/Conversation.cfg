SPECIFICATION Spec
CONSTANTS
  RouteOf <- MCRouteOf
  System <- MCSystem
  OpenAIAnswers <- MCOpenAIAnswers
  AnthropicAnswers <- MCAnthropicAnswers
  FailureStatuses = {302, 400, 401, 403, 429, 500, 503}
  MaxMessages = 5
  MaxRequests = 3
  MaxCounts = 1
INVARIANTS
  CallsAnswered
  RoundTrip
  NothingLost
CHECK_DEADLOCK FALSE
