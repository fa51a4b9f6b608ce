SPECIFICATION Spec
CONSTANTS
  None = None
  Base = 1
  RaydiumDraws = {980, 998, 1019}
  MeteoraDraws = {970, 997, 1019}
  Slippages = {1, 10, 100}
  MaxAttempts = 2
INVARIANTS
  TypeOK
  SwapHonoursEveryQuote
  PriceIsBounded
