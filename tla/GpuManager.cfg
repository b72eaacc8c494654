\* Two devices: one can be dropped and leave one behind, at a new index.
SPECIFICATION FairSpec
CONSTANTS
  NumDevices = 2
  ResumePolls = 2
INVARIANTS
  MonitorReachesItsWorkers NoCallOnDestroyedDevice
  NoDisturbanceAtStartup SharingFollowsGate
PROPERTIES ShutsDown
