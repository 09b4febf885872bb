SPECIFICATION Spec
CONSTANTS
    vm1 = vm1
    ct1 = ct1
    disk1 = disk1
    box1 = box1
    VMs = {vm1}
    Containers = {ct1}
    VmImages = {disk1}
    CtImages = {box1}
    Stored = {disk1, box1}
    Jobs = {}
    Blocks = 1
    Configs <- MCConfigs
    Config0 <- Empty
    MaxEvents = 4
    None = None
PROPERTIES UndoKeepsDisks
