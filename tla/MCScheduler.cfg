SPECIFICATION FairSpec
CONSTANTS
  Companies = {c1, c2}
  Failing = {c2}
  Hourly = hourly
  Daily = daily
  Job1 = hourly
  Job2 = daily
  Jobs <- MCJobs
  Interval <- MCInterval
  Hour = 5
  Day = 6
  Reporting = {daily}
  MaxCrashes = 2
INVARIANTS Punctual RepeatsBounded
PROPERTIES JobsRecur ReportsSpaced
