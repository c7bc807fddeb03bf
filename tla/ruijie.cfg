\* Two mails of an alarm, new or left open by an earlier mail; reactions, failed calls and crashes, two in all.
SPECIFICATION RuijieSpec
CONSTANTS
    m1 = m1  m2 = m2  fpA = fpA  none = none  u1 = u1
    Mail = {m1, m2}
    FpOf <- OneAlarm
    NoFp = none
    Fingerprint = {fpA, none}
    Lookback = 1
    MaxRestarts = 1
    User = {u1}
    MaxMessages = 3
    MaxEvents = 2
    MaxTime = 2
    ReminderInterval = 2
    ReminderLimit = 1
    MaxFaults = 1
    Far = 60
INVARIANTS MailShownOnce OneOpenAlarm NoMailMissed PausedIsQuiet
SYMMETRY MailSymmetry
CONSTRAINT TwoEvents
