SPECIFICATION MCSpec

CONSTANTS
  Runs = {r1, r2}
  NoRun = NoRun
  DayLength = 8
  Slots = {1, 4}
  TickEvery = 2
  HalfWindow = 1
  Debounce = 8
  StaleAfter = 4
  MaxFaults = 1
  Patches = {p1, p2}
  DayUnits = 12
  DueWindow = 1
  Zones <- SpringAndAutumn
  TimesOfDay <- AroundMidnight
  LastEdit = 4
  Horizon = 48
  Unset = Unset
  Null = Null
  Idle = Idle

INVARIANTS
  TypeOK
  LockOwnerIsLive
  PreviewHolds

PROPERTIES
  OneRunPerSlot
  UserIsServed
