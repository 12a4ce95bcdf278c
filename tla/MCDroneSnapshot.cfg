CONSTANT Readings <- BoundaryReadings
SPECIFICATION Spec
INVARIANT AdmissionSound NoSecondTakeoff FreshArmingReleases
