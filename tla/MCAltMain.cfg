SPECIFICATION Spec
CONSTANTS
    ALT_MAX_FD = 5
    alt_dev_null = null_device
    jtag_uart_0 = jtag_uart
    rozipfs = file_system
    Null = none
    Devices = {null_device, jtag_uart}
    Filesystems = {file_system}
    Calls <- MCCalls
    Irqs = {1, 2, 3}
    JTAG_UART_0_IRQ = 1
    TIMER_0_IRQ = 2
    OpenFlagSets = {{"O_READ", "O_WRITE", "ALT_FD_EXCL"}}
    FcntlFlagSets = {{"O_NONBLOCK"}}
INVARIANTS DispatchSafe HostIsWatched StdioConnected
PROPERTY ImplementsDescriptors
