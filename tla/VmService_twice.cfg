SPECIFICATION VmSpec
CONSTANTS
  Arches = {arm64, x86_64}
  ARCH_ARM64 = arm64
  MaxTaps = 2
INVARIANT OneQemuPerArch
