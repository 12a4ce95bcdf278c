\* All six commands with full telemetry; one streaming task, one velocity.
CONSTANTS
  s1 = s1  s2 = s2  still = still  north = north  south = south  none = none
  Velocities <- OneVelocity
  Zero = still
  Streamers <- OneStreamer
  NoTask = none
  HealthReports = {"good", "bad"}
  BatteryReports = {"good", "low"}
  TransportMayFail = TRUE
SPECIFICATION Spec
PROPERTY RequestsAreGuarded
CHECK_DEADLOCK FALSE
