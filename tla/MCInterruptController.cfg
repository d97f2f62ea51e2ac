\* Two devices raise their lines in the controller of the CPU.
CONSTANTS
  Pics <- FastPics
  CpuPic = "fast"
  Upstream <- FastUpstream
  NoPic = "none"
  LineCount = 3
  Devices <- FastDevices
  DevicePic <- FastDevicePic
  DeviceLine <- FastDeviceLine
  IvtSize = 16
  MaxRaises = 3
  MaxRemaps = 1
SPECIFICATION FairSpec
INVARIANTS
  NoPhantomLine
  NumbersAreReportable
PROPERTIES
  LowestIsReported
  StandingIrqArrives
