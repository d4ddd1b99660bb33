SPECIFICATION Spec
CONSTANTS
    PTRS_PER_PT = 4
    PAGE_DIRS = 8
    LOWMEM_PAGE_DIR = 6
    LOWMEM_PAGE_FRAMES = 3
    KernelFrame = 1
    BootInfoFrame = 0
    Firmwares <- MCFirmwares
    IoApicPins <- MCIoApicPins
    LocalApicFrame = 23
    BootCpu = 0
    IO_APIC_MAX_COUNT = 2
    LOCAL_APIC_MAX_COUNT = 2
    Irqs = {0, 9, 17, 222}
    SetupFlags <- MCSetupFlags
    DriverFrames = {2, 30, 31}
INVARIANTS
    UselessOverridesAreUseless
CHECK_DEADLOCK FALSE
