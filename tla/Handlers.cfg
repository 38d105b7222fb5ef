SPECIFICATION FairSpec
CONSTANTS
  Numbers <- MCNumbers
  Blank = Blank
  Junk = Junk
  NaN = NaN
  Payloads <- MCPayloads
  max_seconds = 3
INVARIANTS TypeOK PrimeDecided SumComplete WaitDecided
PROPERTY Answered
