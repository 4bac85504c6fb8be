\* Two tasks of which one belongs to a series and one is still to be created;
\* every view of the settings.
CONSTANTS
  Task = {t1, t2, t3}
  None = None
  Recurring = {t2}
  AtStart = {t1, t2}
  MaxActs = 5
  MaxTries = 6
SPECIFICATION FairSpec
INVARIANTS PanelTypeOK DraftOwn NoGhost SettingsAgree
PROPERTIES DraftKept Confirmed ButtonsReturn
CHECK_DEADLOCK FALSE
