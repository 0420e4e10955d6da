SPECIFICATION Spec
CONSTANTS
  wifi = wifi
  usb = usb
  r1 = r1
  r2 = r2
  a1 = a1
  a2 = a2
  Services <- OneService
  Hotplug <- NoHotplug
  Resolvers <- OneResolver
  CleanWeb = CleanWeb
  Absent = Absent
  Contested = Contested
  Addresses <- TwoAddresses
  MaxEdits = 0
  MaxCrashes = 2
INVARIANTS
  RoutesOnRecord
