CONSTANTS
  ea = ea
  eb = eb
  ec = ec
  ed = ed
  ee = ee
  c1 = c1
  c2 = c2
  c3 = c3
  Entity <- FiveEntities
  Registered <- MCRegistered
  DeviceOf <- MCDeviceOf
  Check <- ThreeChecks
  MaxDevices = 1
  MaxOfDevice = 1
  MaxPure = 1
  MaxTime = 2
  MaxChanges = 3
SPECIFICATION FairSpec
CONSTRAINT Scope
INVARIANTS
  WindowsTile
  FoundInWindow
  IssueFits
PROPERTY ChecksEnd
