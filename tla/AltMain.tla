------------------------------- MODULE AltMain ------------------------------
(***************************************************************************)
(* alt_main.c and alt_sys_init.c: the way from reset to the program, with  *)
(* the devices' interrupts coming in from the moment each is set up, and   *)
(* then the program's calls on files until it returns.                     *)
(***************************************************************************)
EXTENDS Sequences, FileTable, AltIrq

CONSTANTS
    JTAG_UART_0_IRQ, jtag_uart_0,   \* the serial port: its line and its device
    OpenFlagSets, FcntlFlagSets     \* what the program passes

\* What the serial port's driver puts into its device structure.
UartCalls == {"close", "read", "write", "ioctl"}

ASSUME MainAssumption ==
    /\ {JTAG_UART_0_IRQ, TIMER_0_IRQ} \subseteq Irqs /\ Irqs \subseteq 0 .. 31
    /\ jtag_uart_0 \in Devices \ {alt_dev_null} /\ Calls[jtag_uart_0] = UartCalls

VARIABLES
    pc,             \* where alt_main is
    devices,        \* the devices that are still to be initialised, in order
    asking,         \* the lines whose devices may interrupt
    _alt_tick_rate, \* whether the clock rate is set
    timeout         \* whether the serial port has its alarm: "running", "INT_MAX"

mainVars == <<pc, devices, asking, _alt_tick_rate, timeout>>
vars == <<fileVars, irqVars, mainVars>>

\* Faulty variant: the serial port before the timer.
alt_sys_init_UartFirst == <<JTAG_UART_0_IRQ, TIMER_0_IRQ>>

alt_sys_init == <<TIMER_0_IRQ, JTAG_UART_0_IRQ>>

\* The lines no driver is registered for may be up at any time.
Init ==
    /\ FileInit /\ IrqInit
    /\ pc = "alt_irq_init" /\ devices = alt_sys_init
    /\ asking = Irqs \ {TIMER_0_IRQ, JTAG_UART_0_IRQ}
    /\ _alt_tick_rate = FALSE /\ timeout = "unset"

At(p) == level = "program" /\ pc = p

\* alt_irq_init: from here on the processor takes interrupts.
alt_irq_init ==
    /\ At("alt_irq_init") /\ pc' = "device"
    /\ PIE' = TRUE
    /\ UNCHANGED <<fileVars, request, handlerVars, registerVars,
                   devices, asking, _alt_tick_rate, timeout>>

\* A driver starts its device: the timer's sets the clock rate.
StartDevice ==
    /\ At("device") /\ devices # <<>> /\ pc' = "register"
    /\ asking' = asking \cup {devices[1]}
    /\ _alt_tick_rate' = (_alt_tick_rate \/ devices[1] = TIMER_0_IRQ)
    /\ UNCHANGED <<fileVars, irqVars, devices, timeout>>

\* It registers its handler.
RegisterHandler ==
    /\ At("register") /\ Register(devices[1])
    /\ pc' = (IF Registered THEN "finish" ELSE pc)
    /\ UNCHANGED <<fileVars, devices, asking, _alt_tick_rate, timeout>>

\* The serial port's starts its alarm, or gives it up when there is no clock
\* rate, and registers the device.
FinishDevice ==
    /\ At("finish") /\ devices' = Tail(devices)
    /\ pc' = "device"
    /\ IF devices[1] = JTAG_UART_0_IRQ
       THEN /\ timeout' = (IF _alt_tick_rate THEN "running" ELSE "INT_MAX")
            /\ alt_dev_llist_insert(jtag_uart_0)
       ELSE UNCHANGED <<fileVars, timeout>>
    /\ UNCHANGED <<irqVars, asking, _alt_tick_rate>>

\* alt_io_redirect: standard out, in and error, in this order.
alt_io_redirect ==
    /\ \/ /\ At("device") /\ devices = <<>> /\ pc' = "stdin"
          /\ alt_open_fd(1, jtag_uart_0, {"O_WRITE"})
       \/ /\ At("stdin") /\ pc' = "stderr"
          /\ alt_open_fd(0, jtag_uart_0, {"O_READ"})
       \/ /\ At("stderr") /\ pc' = "main"
          /\ alt_open_fd(2, jtag_uart_0, {"O_WRITE"})
    /\ UNCHANGED <<irqVars, devices, asking, _alt_tick_rate, timeout>>

\* The program; file systems are registered by its start-up code or by itself.
main ==
    /\ At("main")
    /\ \/ \E d \in Filesystems : alt_dev_llist_insert(d)
       \/ \E d \in Devices \cup Filesystems, f \in OpenFlagSets : open(d, f)
       \/ \E i \in Numbers : close(i) \/ ioctl(i) \/ \E f \in FcntlFlagSets : fcntl(i, f)
    /\ UNCHANGED <<irqVars, mainVars>>

\* main() returns: standard out is closed and _exit() spins.
Return ==
    /\ At("main") /\ pc' = "exit"
    /\ close(1)
    /\ UNCHANGED <<irqVars, devices, asking, _alt_tick_rate, timeout>>

\* A device asks; interrupts go on after _exit().
Device == \E i \in asking : Raise(i) /\ UNCHANGED <<fileVars, mainVars>>

Processor == (Interrupt \/ alt_irq_handler) /\ UNCHANGED <<fileVars, mainVars>>

Next ==
    \/ alt_irq_init \/ StartDevice \/ RegisterHandler \/ FinishDevice
    \/ alt_io_redirect \/ main \/ Return
    \/ Device \/ Processor

Spec == Init /\ [][Next]_vars

-----------------------------------------------------------------------------
(* Properties *)

\* The interrupt loop never looks for a line in an empty list, where it would
\* not stop, never calls a handler that is not registered, and is never
\* interrupted itself.
DispatchSafe ==
    /\ level = "search" => active # {}
    /\ serving # None => serving \in alt_irq
    /\ level # "program" => ~PIE

\* When the program starts, the serial port notices an absent host: its
\* alarm could be started, because the timer came first.
HostIsWatched == pc \in {"main", "exit"} => timeout = "running"

\* From then on, whatever the program opens, closes, locks and sets, what it
\* prints reaches the serial port, it reads from it, and the C library sees
\* terminals.
StdioConnected ==
    pc \in {"main", "exit"} =>
        /\ write(1) = jtag_uart_0 /\ write(2) = jtag_uart_0 /\ read(0) = jtag_uart_0
        /\ \A i \in 0 .. 2 : isatty(i)

\* The descriptors as their users see them: what each open one stands for,
\* and those with the lock.
files == [i \in {j \in Numbers : dev(j) # Null} |-> dev(i)]
held  == {i \in Numbers : "ALT_FD_EXCL" \in flags(i)}

Descriptors == INSTANCE Descriptors WITH Files <- Devices \cup Filesystems, NullFile <- alt_dev_null

\* A failed open leaves no descriptor behind; a lock keeps the device from
\* being opened until it is released or its descriptor is closed; nothing
\* moves a descriptor of the program to another device.
ImplementsDescriptors == Descriptors!Spec

\* The comment on alt_fd_lock: a lock is only granted when no other open
\* descriptor refers to the device.
LockedMeansAlone ==
    [][\A i, j \in Numbers :
          /\ i # j /\ dev(i) = dev(j) /\ dev(i) # Null
          /\ "ALT_FD_EXCL" \notin flags(i)
          => "ALT_FD_EXCL" \notin flags(i)']_vars
=============================================================================
