\* OFFBOARD sessions with orphan tasks, two alive at once, under the event loop's fairness.
CONSTANTS
  s1 = s1  s2 = s2  still = still  north = north  south = south  none = none
  Velocities <- OneVelocity
  Zero = still
  Streamers <- TwoStreamers
  NoTask = none
  HealthReports = {"good"}
  BatteryReports = {}
  TransportMayFail = FALSE
SPECIFICATION FairSpec
INVARIANT LiveSession SessionDiscipline JoinedBeforeStop
PROPERTY CommandsReturn StreamersDrain SetpointArrives
CHECK_DEADLOCK FALSE
