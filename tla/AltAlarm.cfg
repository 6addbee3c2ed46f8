SPECIFICATION Spec
CONSTANTS
    Alarms = {a1, a2, a3}
    alt_alarm_list = head
    Null = null
    M = 5
    Delays = {0, 3}
INVARIANT ListIntact
PROPERTIES PeriodsCounted ImplementsCountdown
