SPECIFICATION Spec
CONSTANTS
  Argument <- ArgumentSet
  Atoi <- AtoiValues
  MaxArguments = 3
  Client = {c1, c2}
  Null = Null
  DescriptorLimits = {1, 2}
  HostAddress <- HostAddresses
  FreePort <- FreePorts
PROPERTY ReadErrorNotFatal
