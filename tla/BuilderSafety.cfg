SPECIFICATION Spec
CONSTANTS
  Vms = {"vm1", "vm2", "vm3"}
  Devs = {"gpu", "nic", "usb", "nvme"}
  Gpu = "gpu"
  Group <- Groups
  Id <- IdsDistinct
  Config <- GpuAndGroup
  FirstFiles <- NoneOrOne
  MaxGuest = 1
INVARIANTS   SoundBack 
CHECK_DEADLOCK FALSE
