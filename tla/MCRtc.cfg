SPECIFICATION FairSpec
CONSTANTS
  NumTerminals = 2
  rtc_max_frequency = 8
  rtc_max_usable_frequency = 4
  rtc_min_frequency = 1
  rtc_lowest_rate = 2
  rtc_highest_rate = 4
INVARIANT TypeOK
INVARIANT ReleasedAtFirstEnd
PROPERTY ReleasedAfterWholePeriods
PROPERTY ReadReturns
