\* Two devices against the worker's read-modify-write.
CONSTANTS
  Pics <- FastPics
  CpuPic = "fast"
  Upstream <- FastUpstream
  NoPic = "none"
  LineCount = 3
  Devices <- FastDevices
  DevicePic <- FastDevicePic
  DeviceLine <- FastDeviceLine
  IvtSize = 16
  MaxRaises = 2
  MaxRemaps = 0
SPECIFICATION Spec
PROPERTY ClearsOnlyCurrent
