SPECIFICATION Spec
CONSTANTS
    NoValue = NoValue
    Configs <- AllConfigs
    Caps <- CapNames
    HostDevices <- NodesOfHost
    HostDirs <- DirsOfHost
    Refusals = {"isolate", "chroot", "mount", "devices", "sysctl", "mask", "readonly", "oom", "root", "stdio", "exec"}
INVARIANTS
    TypeOK
    
    EntrypointCaps
    MaskHolds
    ReadonlyHolds
    NonePassedOver
