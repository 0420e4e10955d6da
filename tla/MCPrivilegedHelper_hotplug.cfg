SPECIFICATION Spec
CONSTANTS
  wifi = wifi
  usb = usb
  r1 = r1
  r2 = r2
  a1 = a1
  a2 = a2
  Services <- MCServices
  Hotplug <- MCHotplug
  Resolvers <- MCResolvers
  CleanWeb = CleanWeb
  Absent = Absent
  Contested = Contested
  Addresses <- OneAddress
  MaxEdits = 1
  MaxCrashes = 0
INVARIANT NoServiceLeftBehind
