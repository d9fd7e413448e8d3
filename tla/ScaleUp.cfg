SPECIFICATION LiveScaleUpSpec
CONSTANTS
  MaxActiveRunners = 2
  MaxDispatchConcurrency = 2
  MinAdmissionLimit = 1
  AdmissionProbeSuccesses = 1
  ApprovedCapacity = 2
  Reports <- MCReports
  MaxRows = 1
  MaxLingering = 1
INVARIANT ScaleUpTypeOK
PROPERTIES
  RoundsOvershootNothing
  StarvedPoolsStart
