SPECIFICATION StreamSpec
CONSTANTS
  Windows = {w1}
  Alerts = {a1}
  Views = {v1, v2}
  Nobody = Nobody
  MaxStreams = 1
  MaxClicks = 2
  MaxBreaks = 0
INVARIANT ListIsOfView
CHECK_DEADLOCK FALSE
