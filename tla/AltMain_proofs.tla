--------------------------- MODULE AltMain_proofs ---------------------------
(***************************************************************************)
(* The interrupt loop and the order of the boot, for every set of lines,   *)
(* devices and file systems and every size of the descriptor table.        *)
(***************************************************************************)
EXTENDS AltMain, WellFoundedInduction, TLAPS

\* A device is finished: the serial port comes next, or nothing.
LEMMA NextDevice ==
    /\ Tail(alt_sys_init) = <<JTAG_UART_0_IRQ>>
    /\ Tail(<<JTAG_UART_0_IRQ>>) = <<>>
    /\ <<JTAG_UART_0_IRQ>>[1] = JTAG_UART_0_IRQ
    /\ alt_sys_init # <<>> /\ <<JTAG_UART_0_IRQ>> # <<>> /\ alt_sys_init # <<JTAG_UART_0_IRQ>>
  BY DEF alt_sys_init

-----------------------------------------------------------------------------
(* Interrupts. *)

\* What makes DispatchSafe inductive: a line is enabled after its handler is
\* known, the line that interrupted the program stays up until its handler
\* runs, and the status a handler restores is that of a masked processor.
DispatchInv ==
    /\ DispatchSafe
    /\ alt_irq_active \subseteq alt_irq /\ alt_irq \subseteq Irqs
    /\ active \subseteq alt_irq
    /\ level = "entered" => Pending # {}
    /\ ~irq_context
    /\ register_step = "enable" => pc = "register" /\ devices[1] \in alt_irq
    /\ devices \in {alt_sys_init, <<JTAG_UART_0_IRQ>>, <<>>}
    /\ pc \in {"register", "finish"} => devices # <<>>

\* At start no line is enabled.
LEMMA DispatchInit == Init => DispatchInv
  BY DEF Init, IrqInit, DispatchInv, DispatchSafe, None

\* The boot and the program, which are not in an interrupt.
LEMMA DispatchBoot ==
    DispatchInv /\ (alt_irq_init \/ StartDevice \/ FinishDevice \/ alt_io_redirect \/ main \/ Return)
        => DispatchInv'
  <1> SUFFICES ASSUME DispatchInv,
                      alt_irq_init \/ StartDevice \/ FinishDevice \/ alt_io_redirect \/ main \/ Return
               PROVE  DispatchInv'
    OBVIOUS
  <1> USE DEF DispatchInv, DispatchSafe, Pending, At, handlerVars, registerVars, irqVars, mainVars
  <1>1. CASE alt_irq_init    BY <1>1 DEF alt_irq_init
  <1>2. CASE StartDevice     BY <1>2 DEF StartDevice
  <1>3. CASE FinishDevice
    <2>1. devices' \in {<<JTAG_UART_0_IRQ>>, <<>>}
      BY <1>3, NextDevice DEF FinishDevice
    <2> QED BY <1>3, <2>1 DEF FinishDevice
  <1>4. CASE alt_io_redirect BY <1>4 DEF alt_io_redirect
  <1>5. CASE main            BY <1>5 DEF main
  <1>6. CASE Return          BY <1>6 DEF Return
  <1> QED BY <1>1, <1>2, <1>3, <1>4, <1>5, <1>6

\* A driver registers its handler: first the handler, then the line.
LEMMA DispatchRegister == DispatchInv /\ RegisterHandler => DispatchInv'
  <1> SUFFICES ASSUME DispatchInv, RegisterHandler PROVE DispatchInv'
    OBVIOUS
  <1>1. devices[1] \in Irqs
    BY MainAssumption DEF DispatchInv, RegisterHandler, At, alt_sys_init
  <1> QED BY <1>1 DEF RegisterHandler, Register, Registered, At, DispatchInv, DispatchSafe, Pending,
             handlerVars, alt_irq_disable_all, alt_irq_enable_all

\* A step of the processor in an interrupt.
LEMMA DispatchProcessor == DispatchInv /\ Processor => DispatchInv'
  <1> SUFFICES ASSUME DispatchInv, Processor PROVE DispatchInv'
    OBVIOUS
  <1> USE DEF DispatchInv, DispatchSafe, Pending, registerVars, mainVars
  <1>0. UNCHANGED mainVars
    BY DEF Processor
  <1>1. CASE Interrupt       BY <1>0, <1>1 DEF Interrupt
  <1>2. CASE FirstPending    BY <1>0, <1>2 DEF FirstPending
  <1>3. CASE Search          BY <1>0, <1>3 DEF Search
  <1>4. CASE Acknowledge     BY <1>0, <1>4 DEF Acknowledge, alt_irq_disable_all
  <1>5. CASE HandlerReturns  BY <1>0, <1>5 DEF HandlerReturns, alt_irq_enable_all
  <1>6. CASE NextPending     BY <1>0, <1>6 DEF NextPending
  <1> QED BY <1>1, <1>2, <1>3, <1>4, <1>5, <1>6 DEF Processor, alt_irq_handler

\* A device raises its line.
LEMMA DispatchDevice == DispatchInv /\ (Device \/ UNCHANGED vars) => DispatchInv'
  BY DEF DispatchInv, DispatchSafe, Pending, Device, Raise, vars, irqVars, mainVars, handlerVars, registerVars

\* The interrupt loop always finds a line to serve, knows its handler and is
\* never interrupted, from the first instruction of the boot on: DispatchSafe.
THEOREM AlwaysDispatchSafe == Spec => []DispatchSafe
  <1>1. Init => DispatchInv
    BY DispatchInit
  <1>2. DispatchInv /\ [Next]_vars => DispatchInv'
    BY DispatchBoot, DispatchRegister, DispatchProcessor, DispatchDevice DEF Next
  <1>3. DispatchInv => DispatchSafe
    BY DEF DispatchInv
  <1> QED BY <1>1, <1>2, <1>3, PTL DEF Spec

-----------------------------------------------------------------------------
(* The order of the boot. *)

\* Once the timer is started the clock rate is set; the serial port, the last
\* device, is finished with it.
BootInv ==
    /\ devices \in {alt_sys_init, <<JTAG_UART_0_IRQ>>, <<>>}
    /\ ~_alt_tick_rate => devices = alt_sys_init /\ pc \in {"alt_irq_init", "device"}
    /\ devices = <<>> => timeout = "running"
    /\ pc \in {"stdin", "stderr", "main", "exit"} => devices = <<>>
    /\ pc \in {"register", "finish"} => devices # <<>>

\* The boot begins with both devices still to be set up.
LEMMA BootInit == Init => BootInv
  BY DEF Init, alt_sys_init, BootInv

\* Every step of the boot, the program and the interrupts keeps the order of the boot.
LEMMA BootStep == BootInv /\ [Next]_vars => BootInv'
  <1> USE DEF BootInv
  <1> SUFFICES ASSUME BootInv, [Next]_vars PROVE BootInv'
    OBVIOUS
  <1> USE DEF At, mainVars
  <1>1. CASE alt_irq_init    BY <1>1 DEF alt_irq_init
  <1>2. CASE StartDevice
    <2>1. CASE devices = alt_sys_init
      <3>1. devices[1] = TIMER_0_IRQ
        BY <2>1 DEF alt_sys_init
      <3> QED BY <1>2, <2>1, <3>1, NextDevice DEF StartDevice
    <2>2. CASE devices # alt_sys_init
      <3>1. _alt_tick_rate'
        BY <1>2, <2>2 DEF StartDevice
      <3> QED BY <1>2, <2>2, <3>1 DEF StartDevice
    <2> QED BY <2>1, <2>2
  <1>3. CASE RegisterHandler BY <1>3 DEF RegisterHandler
  <1>4. CASE FinishDevice
    <2>1. _alt_tick_rate /\ _alt_tick_rate' /\ pc' = "device"
      BY <1>4 DEF FinishDevice
    <2>2. CASE devices = alt_sys_init
      <3>1. devices' = <<JTAG_UART_0_IRQ>>
        BY <1>4, <2>2, NextDevice DEF FinishDevice
      <3> QED BY <2>1, <3>1, NextDevice
    <2>3. CASE devices = <<JTAG_UART_0_IRQ>>
      <3>1. devices' = <<>> /\ timeout' = "running"
        BY <1>4, <2>1, <2>3, NextDevice DEF FinishDevice
      <3> QED BY <2>1, <3>1
    <2> QED BY <1>4, <2>2, <2>3 DEF FinishDevice
  <1>5. CASE alt_io_redirect BY <1>5, NextDevice DEF alt_io_redirect
  <1>6. CASE main            BY <1>6 DEF main
  <1>7. CASE Return          BY <1>7 DEF Return
  <1>8. CASE Device          BY <1>8 DEF Device
  <1>9. CASE Processor       BY <1>9 DEF Processor
  <1>10. CASE UNCHANGED vars BY <1>10 DEF vars
  <1> QED BY <1>1, <1>2, <1>3, <1>4, <1>5, <1>6, <1>7, <1>8, <1>9, <1>10 DEF Next

\* The order of initialisation sees to it that the serial port notices an
\* absent host whenever the program runs: HostIsWatched.
THEOREM AlwaysWatched == Spec => []HostIsWatched
  <1>1. BootInv => HostIsWatched
    BY DEF BootInv, HostIsWatched
  <1> QED BY <1>1, BootInit, BootStep, PTL DEF Spec

-----------------------------------------------------------------------------
(* The table of descriptors. *)

FlagNames == AllFlags \cup UNION OpenFlagSets

\* The standard descriptors are always in use; what is in use is below the
\* high-water mark that the search for locks goes up to; only devices are
\* locked, and what is free has no flags.
TableInv ==
    /\ alt_fd_list \in [Numbers -> [dev : Devices \cup Filesystems \cup {Null}, fd_flags : SUBSET FlagNames]]
    /\ alt_max_fd \in -1 .. ALT_MAX_FD - 1
    /\ alt_dev_list \subseteq Devices \cup Filesystems
    /\ \A i \in 0 .. 2 : dev(i) # Null
    /\ \A i \in Numbers : i > 2 /\ dev(i) # Null => i <= alt_max_fd
    /\ \A i \in Numbers : dev(i) = Null => flags(i) = {}
    /\ \A i \in Numbers : "ALT_FD_DEV" \in flags(i) => dev(i) \in Devices
    /\ \A i \in Numbers : "ALT_FD_EXCL" \in flags(i) => "ALT_FD_DEV" \in flags(i)

\* Until the program starts the other descriptors are free and nothing is
\* locked.
BootTable ==
    pc \notin {"main", "exit"} =>
        \A i \in Numbers : (i > 2 => dev(i) = Null) /\ "ALT_FD_EXCL" \notin flags(i)

\* The assumptions, with the numbers of the table spelled out.
LEMMA TableSizes ==
    /\ ALT_MAX_FD \in Nat /\ ALT_MAX_FD > 3 /\ 0 .. 3 \subseteq Numbers /\ Numbers \subseteq Nat
    /\ alt_dev_null \in Devices /\ jtag_uart_0 \in Devices
    /\ Null \notin Devices /\ Null \notin Filesystems /\ Devices \cap Filesystems = {}
  BY TableAssumption, MainAssumption DEF Numbers

\* A set of numbers that is not empty has a least one.
LEMMA LeastNumber ==
    ASSUME NEW S \in SUBSET Nat, S # {}
    PROVE  \E x \in S : \A y \in S : x <= y
  <1>1. PICK x \in S : \A y \in S : ~(<<y, x>> \in OpToRel(<, Nat))
    BY NatLessThanWellFounded, WFMin
  <1>2. \A y \in S : ~(y < x)
    BY <1>1 DEF OpToRel
  <1> QED BY <1>2

\* alt_get_fd finds the lowest free descriptor if there is one, and that is
\* never a standard one.
LEMMA LowestFree ==
    ASSUME TableInv
    PROVE  \/ alt_get_fd = -1 /\ \A i \in Numbers : dev(i) # Null
           \/ /\ alt_get_fd \in Numbers /\ alt_get_fd > 2 /\ dev(alt_get_fd) = Null
              /\ \A j \in Numbers : dev(j) = Null => alt_get_fd <= j
  <1>1. CASE \A i \in Numbers : dev(i) # Null
    BY <1>1 DEF alt_get_fd
  <1>2. CASE \E i \in Numbers : dev(i) = Null
    <2> DEFINE Free == {i \in Numbers : dev(i) = Null}
               IsLowest(i) == dev(i) = Null /\ \A j \in 0 .. i - 1 : dev(j) # Null
    <2>1. PICK x \in Free : \A y \in Free : x <= y
      BY <1>2, LeastNumber, TableSizes
    <2>2. x \in Numbers /\ IsLowest(x)
      <3>1. x \in Numbers /\ dev(x) = Null
        BY <2>1
      <3>2. ASSUME NEW j \in 0 .. x - 1 PROVE dev(j) # Null
        <4>1. j \in Numbers /\ ~(x <= j)
          BY <3>1, TableSizes DEF Numbers
        <4> QED BY <2>1, <4>1
      <3> QED BY <3>1, <3>2
    <2>3. alt_get_fd = CHOOSE i \in Numbers : IsLowest(i)
      BY <1>2 DEF alt_get_fd
    <2>4. alt_get_fd \in Numbers /\ IsLowest(alt_get_fd)
      <3> HIDE DEF IsLowest
      <3> QED BY <2>2, <2>3
    <2>5. ASSUME NEW j \in Numbers, dev(j) = Null PROVE alt_get_fd <= j
      BY <2>4, <2>5, TableSizes DEF Numbers
    <2>6. alt_get_fd > 2
      BY <2>4, TableSizes DEF TableInv, Numbers
    <2> QED BY <2>4, <2>5, <2>6
  <1> QED BY <1>1, <1>2

\* What an open leaves behind: the table as it was, or one entry more, for a
\* registered device that no descriptor up to the mark has locked.
Refused(o) == o.index = -1 /\ o.list = alt_fd_list
Granted(o, d, f) ==
    LET i == alt_get_fd
    IN  /\ d \in alt_dev_list
        /\ o.index = i /\ i \in Numbers /\ i > 2 /\ dev(i) = Null
        /\ \A j \in Numbers : dev(j) = Null => i <= j
        /\ o.list = [alt_fd_list EXCEPT ![i] = Entry(d, OpenFlags(d, f))]
        /\ i <= o.max
        /\ d \in Devices => \A j \in Numbers : j <= o.max /\ j # i /\ dev(j) = d => "ALT_FD_EXCL" \notin flags(j)

\* alt_open either leaves the table alone or takes one free descriptor; a
\* device that nobody has locked, with a place in the table, is not refused.
LEMMA OpenOutcome ==
    ASSUME TableInv, NEW d \in Devices \cup Filesystems, NEW f, NEW ok \in BOOLEAN
    PROVE  LET o == ALT_OPEN(d, f, ok)
           IN  /\ Refused(o) \/ Granted(o, d, f)
               /\ o.max \in -1 .. ALT_MAX_FD - 1 /\ alt_max_fd <= o.max
               /\ ok /\ d \in alt_dev_list /\ (\E i \in Numbers : dev(i) = Null)
                    /\ (\A i \in Numbers : "ALT_FD_EXCL" \notin flags(i)) => Granted(o, d, f)
  <1> DEFINE o == ALT_OPEN(d, f, ok)
             max == IF alt_get_fd > alt_max_fd THEN alt_get_fd ELSE alt_max_fd
             taken == [alt_fd_list EXCEPT ![alt_get_fd] = Entry(d, OpenFlags(d, f))]
  <1>1. CASE d \notin alt_dev_list \/ alt_get_fd = -1
    <2>1. o = [index |-> -1, list |-> alt_fd_list, max |-> alt_max_fd]
      BY <1>1 DEF ALT_OPEN
    <2>2. alt_get_fd = -1 => \A i \in Numbers : dev(i) # Null
      BY LowestFree, TableSizes
    <2> QED BY <1>1, <2>1, <2>2, TableSizes DEF Refused, TableInv
  <1>2. CASE d \in alt_dev_list /\ alt_get_fd # -1
    <2>1. /\ alt_get_fd \in Numbers /\ alt_get_fd > 2 /\ dev(alt_get_fd) = Null
          /\ \A j \in Numbers : dev(j) = Null => alt_get_fd <= j
      BY <1>2, LowestFree
    <2>2. max \in -1 .. ALT_MAX_FD - 1 /\ alt_max_fd <= max /\ alt_get_fd <= max
      BY <2>1, TableSizes DEF TableInv, Numbers
    <2>3. CASE ok /\ ~(d \in Devices /\ alt_file_locked(alt_get_fd, max, d))
      <3>1. o = [index |-> alt_get_fd, list |-> taken, max |-> max]
        BY <1>2, <2>1, <2>3, TableSizes DEF ALT_OPEN
      <3>2. d \in Devices =>
                \A j \in Numbers : j <= max /\ j # alt_get_fd /\ dev(j) = d => "ALT_FD_EXCL" \notin flags(j)
        BY <2>3 DEF alt_file_locked
      <3>3. Granted(o, d, f)
        BY <1>2, <2>1, <2>2, <3>1, <3>2 DEF Granted
      <3> QED BY <2>2, <3>1, <3>3
    <2>4. CASE ~(ok /\ ~(d \in Devices /\ alt_file_locked(alt_get_fd, max, d)))
      <3>1. o = [index |-> -1, list |-> alt_release_fd(taken, alt_get_fd), max |-> max]
        BY <1>2, <2>1, <2>4, TableSizes DEF ALT_OPEN
      <3>2. alt_fd_list[alt_get_fd] = FreeEntry
        BY <2>1 DEF TableInv, FreeEntry, Entry, dev, flags
      <3>3. alt_release_fd(taken, alt_get_fd) = alt_fd_list
        BY <2>1, <3>2 DEF alt_release_fd, TableInv
      <3>4. ~((\A i \in Numbers : "ALT_FD_EXCL" \notin flags(i)) /\ ok)
        BY <2>4 DEF alt_file_locked
      <3> QED BY <2>2, <3>1, <3>3, <3>4 DEF Refused
    <2> QED BY <2>3, <2>4
  <1> QED BY <1>1, <1>2, LowestFree

\* A call of the program leaves the table sound, and what the standard
\* descriptors stand for and may do.
StandardKept ==
    /\ \A i \in 0 .. 2 : dev(i)' = dev(i)
    /\ \A i \in 0 .. 2, mode \in {"O_READ", "O_WRITE"} : mode \in flags(i) => mode \in flags(i)'
    /\ alt_max_fd <= alt_max_fd' /\ alt_dev_list \subseteq alt_dev_list'

\* A new descriptor k for d: the lowest one, not locked, and nobody had
\* locked d.
Opened(k, d) ==
    /\ dev(k) = Null /\ \A j \in Numbers : dev(j) = Null => k <= j
    /\ \A j \in held : dev(j) # d
    /\ dev(k)' = d /\ "ALT_FD_EXCL" \notin flags(k)'
    /\ \A j \in Numbers \ {k} : dev(j)' = dev(j) /\ flags(j)' = flags(j)

\* So open keeps the table in order and changes one number at most.
LEMMA OpenKeepsTable ==
    ASSUME TableInv, NEW d \in Devices \cup Filesystems, NEW f \in OpenFlagSets, open(d, f)
    PROVE  /\ TableInv' /\ StandardKept
           /\ alt_fd_list' = alt_fd_list \/ \E k \in Numbers : Opened(k, d)
  <1>1. PICK ok \in BOOLEAN : alt_fd_list' = ALT_OPEN(d, f, ok).list /\ alt_max_fd' = ALT_OPEN(d, f, ok).max
    BY DEF open, OpenResults
  <1> DEFINE o == ALT_OPEN(d, f, ok)
  <1>2. /\ Refused(o) \/ Granted(o, d, f)
        /\ alt_max_fd' \in -1 .. ALT_MAX_FD - 1 /\ alt_max_fd <= alt_max_fd' /\ alt_dev_list' = alt_dev_list
    BY <1>1, OpenOutcome DEF open
  <1>3. CASE Refused(o)
    <2>1. alt_fd_list' = alt_fd_list
      BY <1>1, <1>3 DEF Refused
    <2> QED BY <1>2, <2>1, TableSizes DEF TableInv, StandardKept, dev, flags, Numbers
  <1>4. CASE Granted(o, d, f)
    <2>1. PICK k \in Numbers :
             /\ k > 2 /\ k <= alt_max_fd'
             /\ alt_fd_list' = [alt_fd_list EXCEPT ![k] = Entry(d, OpenFlags(d, f))]
             /\ dev(k) = Null /\ \A j \in Numbers : dev(j) = Null => k <= j
             /\ d \in Devices =>
                    \A j \in Numbers : j <= alt_max_fd' /\ j # k /\ dev(j) = d => "ALT_FD_EXCL" \notin flags(j)
      BY <1>1, <1>4 DEF Granted
    <2>2. OpenFlags(d, f) \in SUBSET FlagNames
      BY DEF OpenFlags, FlagNames, AllFlags, Internal
    <2>3. /\ "ALT_FD_DEV" \in OpenFlags(d, f) => d \in Devices
          /\ "ALT_FD_EXCL" \notin OpenFlags(d, f)
      BY DEF OpenFlags, Internal
    <2>4. /\ dev(k)' = d /\ flags(k)' = OpenFlags(d, f)
          /\ \A i \in Numbers \ {k} : dev(i)' = dev(i) /\ flags(i)' = flags(i)
      <3> DEFINE new == Entry(d, OpenFlags(d, f))
      <3>1. new.dev = d /\ new.fd_flags = OpenFlags(d, f)
        BY DEF Entry
      <3>2. DOMAIN alt_fd_list = Numbers /\ alt_fd_list' = [alt_fd_list EXCEPT ![k] = new]
        BY <2>1 DEF TableInv
      <3> HIDE DEF new
      <3> QED BY <2>1, <3>1, <3>2 DEF dev, flags
    <2>5. alt_fd_list' \in [Numbers -> [dev : Devices \cup Filesystems \cup {Null}, fd_flags : SUBSET FlagNames]]
      BY <2>1, <2>2 DEF TableInv, Entry
    <2>6. TableInv'
      <3>1. \A i \in 0 .. 2 : dev(i)' # Null
        BY <2>1, <2>4, TableSizes DEF TableInv
      <3>2. \A i \in Numbers : i > 2 /\ dev(i)' # Null => i <= alt_max_fd'
        BY <1>2, <2>1, <2>4, TableSizes DEF TableInv
      <3>3. \A i \in Numbers : dev(i)' = Null => flags(i)' = {}
        BY <2>4, TableSizes DEF TableInv
      <3>4. \A i \in Numbers : "ALT_FD_DEV" \in flags(i)' => dev(i)' \in Devices
        BY <2>3, <2>4 DEF TableInv
      <3>5. \A i \in Numbers : "ALT_FD_EXCL" \in flags(i)' => "ALT_FD_DEV" \in flags(i)'
        BY <2>3, <2>4 DEF TableInv
      <3> QED BY <1>2, <2>5, <3>1, <3>2, <3>3, <3>4, <3>5 DEF TableInv
    <2>7. ASSUME NEW j \in held, dev(j) = d PROVE FALSE
      <3>1. j \in Numbers /\ "ALT_FD_EXCL" \in flags(j) /\ d \in Devices /\ d # Null
        BY <2>7, TableSizes DEF held, TableInv
      <3>2. j <= alt_max_fd'
        BY <1>2, <2>1, <2>7, <3>1, TableSizes DEF TableInv
      <3> QED BY <2>1, <2>7, <3>1, <3>2
    <2>8. Opened(k, d)
      BY <2>1, <2>3, <2>4, <2>7 DEF Opened
    <2> QED BY <1>2, <2>1, <2>4, <2>6, <2>8, TableSizes DEF StandardKept
  <1> QED BY <1>2, <1>3, <1>4

\* close frees one number above the standard ones, or changes nothing.
LEMMA CloseKeepsTable ==
    ASSUME TableInv, NEW k \in Numbers, close(k)
    PROVE  /\ TableInv' /\ StandardKept
           /\ \/ alt_fd_list' = alt_fd_list
              \/ /\ k > 2 /\ dev(k) # Null /\ dev(k)' = Null /\ "ALT_FD_EXCL" \notin flags(k)'
                 /\ \A j \in Numbers \ {k} : dev(j)' = dev(j) /\ flags(j)' = flags(j)
  <1>1. CASE k \in 0 .. 2
    <2>1. UNCHANGED fileVars
      BY <1>1 DEF close, alt_release_fd, fileVars
    <2> QED BY <2>1, TableSizes DEF fileVars, TableInv, StandardKept, dev, flags
  <1>2. CASE k > 2
    <2>1. alt_fd_list' = [alt_fd_list EXCEPT ![k] = FreeEntry] /\ UNCHANGED <<alt_max_fd, alt_dev_list>>
      BY <1>2 DEF close, alt_release_fd
    <2>2. /\ dev(k)' = Null /\ flags(k)' = {}
          /\ \A i \in Numbers \ {k} : dev(i)' = dev(i) /\ flags(i)' = flags(i)
      BY <2>1 DEF TableInv, dev, flags, FreeEntry, Entry
    <2>3. alt_fd_list' \in [Numbers -> [dev : Devices \cup Filesystems \cup {Null}, fd_flags : SUBSET FlagNames]]
      BY <2>1 DEF TableInv, FreeEntry, Entry
    <2>4. TableInv'
      BY <1>2, <2>1, <2>2, <2>3, TableSizes DEF TableInv
    <2> QED BY <1>2, <2>1, <2>2, <2>4, TableSizes DEF StandardKept, TableInv, close, IsOpen
  <1> QED BY <1>1, <1>2, TableSizes DEF Numbers

\* ioctl and fcntl change the flags of one open descriptor.
LEMMA FlagsKeepTable ==
    ASSUME TableInv, NEW k \in Numbers, NEW new \in SUBSET FlagNames, dev(k) # Null,
           alt_fd_list' = [alt_fd_list EXCEPT ![k].fd_flags = new],
           UNCHANGED <<alt_max_fd, alt_dev_list>>,
           "ALT_FD_DEV" \in new <=> "ALT_FD_DEV" \in flags(k),
           "ALT_FD_EXCL" \in new => "ALT_FD_DEV" \in new,
           \A mode \in {"O_READ", "O_WRITE"} : mode \in flags(k) => mode \in new
    PROVE  /\ TableInv' /\ StandardKept
           /\ \A i \in Numbers : dev(i)' = dev(i)
           /\ flags(k)' = new /\ \A i \in Numbers \ {k} : flags(i)' = flags(i)
  <1>1. alt_fd_list' \in [Numbers -> [dev : Devices \cup Filesystems \cup {Null}, fd_flags : SUBSET FlagNames]]
    BY DEF TableInv
  <1>2. /\ \A i \in Numbers : dev(i)' = dev(i)
        /\ flags(k)' = new /\ \A i \in Numbers \ {k} : flags(i)' = flags(i)
    BY DEF TableInv, dev, flags
  <1>3. TableInv'
    BY <1>1, <1>2, TableSizes DEF TableInv
  <1> QED BY <1>2, <1>3, TableSizes DEF StandardKept, TableInv

\* A lock or an unlock holds or releases one descriptor and replaces no device.
LEMMA IoctlOutcome ==
    ASSUME TableInv, NEW k \in Numbers, ioctl(k)
    PROVE  /\ TableInv' /\ StandardKept
           /\ \A i \in Numbers : dev(i)' = dev(i)
           /\ \/ held' = held \cup {k} /\ dev(k) # Null
              \/ held' = held \ {k}
  <1>1. dev(k) # Null /\ "ALT_FD_DEV" \in flags(k) /\ UNCHANGED <<alt_max_fd, alt_dev_list>>
    BY DEF ioctl, IsOpen
  <1>2. flags(k) \in SUBSET FlagNames /\ "ALT_FD_EXCL" \in FlagNames
    BY DEF TableInv, flags, FlagNames, AllFlags, Internal
  <1>3. CASE alt_fd_lock(k)
    <2>1. alt_fd_list' = [alt_fd_list EXCEPT ![k].fd_flags = flags(k) \cup {"ALT_FD_EXCL"}]
      BY <1>3 DEF alt_fd_lock, flags, TableInv
    <2>2. /\ TableInv' /\ StandardKept
          /\ \A i \in Numbers : dev(i)' = dev(i)
          /\ flags(k)' = flags(k) \cup {"ALT_FD_EXCL"} /\ \A i \in Numbers \ {k} : flags(i)' = flags(i)
      <3> DEFINE new == flags(k) \cup {"ALT_FD_EXCL"}
      <3>1. /\ new \in SUBSET FlagNames /\ "ALT_FD_DEV" \in new
            /\ \A mode \in {"O_READ", "O_WRITE"} : mode \in flags(k) => mode \in new
        BY <1>1, <1>2
      <3>2. alt_fd_list' = [alt_fd_list EXCEPT ![k].fd_flags = new]
        BY <2>1
      <3> HIDE DEF new
      <3>3. /\ TableInv' /\ StandardKept
            /\ \A i \in Numbers : dev(i)' = dev(i)
            /\ flags(k)' = new /\ \A i \in Numbers \ {k} : flags(i)' = flags(i)
        BY <1>1, <3>1, <3>2, FlagsKeepTable
      <3> QED BY <3>3 DEF new
    <2>3. held' = held \cup {k}
      BY <2>2 DEF held
    <2> QED BY <1>1, <2>2, <2>3
  <1>4. CASE alt_fd_unlock(k)
    <2>1. alt_fd_list' = [alt_fd_list EXCEPT ![k].fd_flags = flags(k) \ {"ALT_FD_EXCL"}]
      BY <1>4 DEF alt_fd_unlock, flags, TableInv
    <2>2. /\ TableInv' /\ StandardKept
          /\ \A i \in Numbers : dev(i)' = dev(i)
          /\ flags(k)' = flags(k) \ {"ALT_FD_EXCL"} /\ \A i \in Numbers \ {k} : flags(i)' = flags(i)
      <3> DEFINE new == flags(k) \ {"ALT_FD_EXCL"}
      <3>1. /\ new \in SUBSET FlagNames /\ "ALT_FD_DEV" \in new
            /\ \A mode \in {"O_READ", "O_WRITE"} : mode \in flags(k) => mode \in new
        BY <1>1, <1>2
      <3>2. alt_fd_list' = [alt_fd_list EXCEPT ![k].fd_flags = new]
        BY <2>1
      <3> HIDE DEF new
      <3>3. /\ TableInv' /\ StandardKept
            /\ \A i \in Numbers : dev(i)' = dev(i)
            /\ flags(k)' = new /\ \A i \in Numbers \ {k} : flags(i)' = flags(i)
        BY <1>1, <3>1, <3>2, FlagsKeepTable
      <3> QED BY <3>3 DEF new
    <2>3. held' = held \ {k}
      BY <2>2 DEF held
    <2> QED BY <2>2, <2>3
  <1> QED BY <1>3, <1>4 DEF ioctl

\* fcntl changes O_NONBLOCK only, so no device and no lock.
LEMMA FcntlOutcome ==
    ASSUME TableInv, NEW k \in Numbers, NEW f, fcntl(k, f)
    PROVE  /\ TableInv' /\ StandardKept
           /\ \A i \in Numbers : dev(i)' = dev(i)
           /\ held' = held
  <1> DEFINE new == (flags(k) \ {"O_NONBLOCK"}) \cup (f \cap {"O_NONBLOCK"})
  <1>1. dev(k) # Null /\ UNCHANGED <<alt_max_fd, alt_dev_list>>
    BY DEF fcntl, IsOpen
  <1>2. /\ new \in SUBSET FlagNames /\ \A g \in FlagNames \ {"O_NONBLOCK"} : g \in new <=> g \in flags(k)
    BY DEF TableInv, flags, FlagNames, AllFlags
  <1>3. {"O_READ", "O_WRITE", "ALT_FD_DEV", "ALT_FD_EXCL"} \subseteq FlagNames \ {"O_NONBLOCK"}
    BY DEF FlagNames, AllFlags, Internal
  <1>4. alt_fd_list' = [alt_fd_list EXCEPT ![k].fd_flags = new]
    BY DEF fcntl, flags, TableInv
  <1>5. "ALT_FD_EXCL" \in flags(k) => "ALT_FD_DEV" \in flags(k)
    BY DEF TableInv
  <1> HIDE DEF new
  <1>6. /\ TableInv' /\ StandardKept
        /\ \A i \in Numbers : dev(i)' = dev(i)
        /\ flags(k)' = new /\ \A i \in Numbers \ {k} : flags(i)' = flags(i)
    <2>1. /\ "ALT_FD_DEV" \in new <=> "ALT_FD_DEV" \in flags(k)
          /\ "ALT_FD_EXCL" \in new => "ALT_FD_DEV" \in new
          /\ \A mode \in {"O_READ", "O_WRITE"} : mode \in flags(k) => mode \in new
      BY <1>2, <1>3, <1>5
    <2> QED BY <1>1, <1>2, <1>4, <2>1, FlagsKeepTable
  <1>7. held' = held
    BY <1>2, <1>3, <1>6 DEF held
  <1> QED BY <1>6, <1>7

\* A file system is registered.
LEMMA InsertKeepsTable ==
    ASSUME TableInv, NEW d \in Devices \cup Filesystems, alt_dev_llist_insert(d)
    PROVE  TableInv' /\ StandardKept
  BY TableSizes DEF alt_dev_llist_insert, TableInv, StandardKept, dev, flags

-----------------------------------------------------------------------------
(* Standard input and output. *)

\* At the boot the serial port's open cannot be refused: descriptor 3 is free,
\* nothing is locked and the driver has no open() of its own.  The entry it
\* gets moves to the standard descriptor.
LEMMA RedirectOutcome ==
    ASSUME TableInv, BootTable, pc \notin {"main", "exit"}, jtag_uart_0 \in alt_dev_list,
           NEW i \in 0 .. 2, NEW f \in {{"O_READ"}, {"O_WRITE"}}, alt_open_fd(i, jtag_uart_0, f)
    PROVE  /\ TableInv' /\ alt_dev_list' = alt_dev_list /\ held' = held /\ held = {}
           /\ dev(i)' = jtag_uart_0 /\ f \subseteq flags(i)' /\ "ALT_FD_EXCL" \notin flags(i)'
           /\ \A j \in Numbers \ {i} : dev(j)' = dev(j) /\ flags(j)' = flags(j)
  <1> DEFINE o == ALT_OPEN(jtag_uart_0, f, TRUE)
  <1>1. OpenResults(jtag_uart_0) = {TRUE}
    BY MainAssumption DEF OpenResults, UartCalls
  <1>2. Granted(o, jtag_uart_0, f) /\ o.max \in -1 .. ALT_MAX_FD - 1 /\ alt_max_fd <= o.max
    <2>1. (\A j \in Numbers : "ALT_FD_EXCL" \notin flags(j)) /\ 3 \in Numbers /\ dev(3) = Null
      BY TableSizes DEF BootTable
    <2> QED BY <2>1, OpenOutcome, TableSizes
  <1>3. PICK k \in Numbers :
           /\ k > 2 /\ k <= o.max /\ dev(k) = Null /\ o.index = k
           /\ o.list = [alt_fd_list EXCEPT ![k] = Entry(jtag_uart_0, OpenFlags(jtag_uart_0, f))]
    BY <1>2 DEF Granted
  <1> DEFINE new == Entry(jtag_uart_0, OpenFlags(jtag_uart_0, f))
  <1>4. /\ alt_fd_list' = alt_release_fd([o.list EXCEPT ![i] = o.list[o.index]], o.index)
        /\ alt_max_fd' = o.max /\ alt_dev_list' = alt_dev_list
    <2>1. ~(o.index < 0)
      <3> HIDE DEF o
      <3>1. k \in Int /\ k > 2 /\ o.index = k
        BY <1>3, TableSizes DEF Numbers
      <3> QED BY <3>1
    <2> QED BY <1>1, <2>1 DEF alt_open_fd
  <1>5. alt_fd_list' = [alt_fd_list EXCEPT ![i] = new]
    <2>1. alt_fd_list[k] = FreeEntry
      BY <1>3 DEF TableInv, FreeEntry, Entry, dev, flags
    <2>2. DOMAIN alt_fd_list = Numbers /\ i \in Numbers /\ i # k
      BY <1>3, TableSizes DEF TableInv
    <2> HIDE DEF o, new
    <2>3. o.list[k] = new
      BY <1>3, <2>2 DEF new
    <2>4. alt_fd_list' = [[o.list EXCEPT ![i] = new] EXCEPT ![k] = FreeEntry]
      BY <1>3, <1>4, <2>3 DEF alt_release_fd
    <2> QED BY <1>3, <2>1, <2>2, <2>4 DEF new, TableInv
  <1>6. new.dev = jtag_uart_0 /\ new.fd_flags = f \cup {"ALT_FD_DEV"}
    BY TableSizes DEF Entry, OpenFlags, Internal
  <1>7. new \in [dev : Devices \cup Filesystems \cup {Null}, fd_flags : SUBSET FlagNames]
    <2>1. f \cup {"ALT_FD_DEV"} \in SUBSET FlagNames /\ jtag_uart_0 \in Devices
      BY TableSizes DEF FlagNames, AllFlags, Internal
    <2>2. new = [dev |-> new.dev, fd_flags |-> new.fd_flags]
      BY DEF Entry
    <2> QED BY <1>6, <2>1, <2>2
  <1> HIDE DEF new
  <1>8. DOMAIN alt_fd_list = Numbers /\ i \in Numbers
    BY TableSizes DEF TableInv
  <1>9. /\ dev(i)' = jtag_uart_0 /\ flags(i)' = f \cup {"ALT_FD_DEV"}
        /\ \A j \in Numbers \ {i} : dev(j)' = dev(j) /\ flags(j)' = flags(j)
    BY <1>5, <1>6, <1>8 DEF dev, flags
  <1>10. alt_fd_list' \in [Numbers -> [dev : Devices \cup Filesystems \cup {Null}, fd_flags : SUBSET FlagNames]]
    BY <1>5, <1>7 DEF TableInv
  <1>11. TableInv'
    <2>1. \A j \in 0 .. 2 : dev(j)' # Null
      BY <1>9, TableSizes DEF TableInv
    <2>2. \A j \in Numbers : j > 2 /\ dev(j)' # Null => j <= alt_max_fd'
      <3> HIDE DEF o
      <3>1. alt_max_fd <= alt_max_fd' /\ alt_max_fd \in -1 .. ALT_MAX_FD - 1 /\ alt_max_fd' \in -1 .. ALT_MAX_FD - 1
        BY <1>2, <1>4 DEF TableInv
      <3> SUFFICES ASSUME NEW j \in Numbers, j > 2, dev(j)' # Null PROVE j <= alt_max_fd'
        OBVIOUS
      <3>2. j # i /\ dev(j) # Null
        BY <1>9
      <3>3. j <= alt_max_fd
        BY <3>2 DEF TableInv
      <3> QED BY <3>1, <3>3, TableSizes
    <2>3. \A j \in Numbers : dev(j)' = Null => flags(j)' = {}
      BY <1>9, TableSizes DEF TableInv
    <2>4. \A j \in Numbers : "ALT_FD_DEV" \in flags(j)' => dev(j)' \in Devices
      BY <1>9, TableSizes DEF TableInv
    <2>5. \A j \in Numbers : "ALT_FD_EXCL" \in flags(j)' => "ALT_FD_DEV" \in flags(j)'
      BY <1>9 DEF TableInv
    <2> QED BY <1>2, <1>4, <1>10, <2>1, <2>2, <2>3, <2>4, <2>5 DEF TableInv
  <1>12. "ALT_FD_EXCL" \notin flags(i)' /\ held = {}
    BY <1>9 DEF BootTable, held
  <1>13. held' = held
    BY <1>9, <1>12 DEF held
  <1> QED BY <1>4, <1>9, <1>11, <1>12, <1>13

Connected(i, mode) == dev(i) = jtag_uart_0 /\ mode \in flags(i)

\* What is connected at each point of the boot, and stays so.
Console ==
    /\ devices = <<>> => jtag_uart_0 \in alt_dev_list
    /\ pc \in {"stdin", "stderr", "main", "exit"} => Connected(1, "O_WRITE")
    /\ pc \in {"stderr", "main", "exit"} => Connected(0, "O_READ")
    /\ pc \in {"main", "exit"} => Connected(2, "O_WRITE")

ConsoleInv == BootInv /\ TableInv /\ BootTable /\ Console

\* The table as it is linked: three descriptors on the null device.
LEMMA ConsoleInit == Init => TableInv /\ BootTable /\ Console
  <1> SUFFICES ASSUME Init PROVE TableInv /\ BootTable /\ Console
    OBVIOUS
  <1>1. \A i \in Numbers : /\ i <= 2 => dev(i) = alt_dev_null /\ flags(i) = {"O_READ"}
                           /\ ~(i <= 2) => dev(i) = Null /\ flags(i) = {}
    BY DEF Init, FileInit, Entry, FreeEntry, dev, flags
  <1>2. alt_fd_list \in [Numbers -> [dev : Devices \cup Filesystems \cup {Null}, fd_flags : SUBSET FlagNames]]
    BY TableSizes DEF Init, FileInit, Entry, FreeEntry, FlagNames, AllFlags
  <1>3. TableInv
    BY <1>1, <1>2, TableSizes DEF Init, FileInit, TableInv
  <1>4. BootTable
    BY <1>1, TableSizes DEF BootTable
  <1> QED BY <1>3, <1>4 DEF Init, alt_sys_init, Console

\* What the program does keeps its standard descriptors connected.
LEMMA ConsoleKept ==
    ASSUME ConsoleInv, StandardKept, TableInv', pc \in {"main", "exit"}, pc' \in {"main", "exit"}
    PROVE  BootTable' /\ Console'
  BY DEF ConsoleInv, BootTable, Console, Connected, StandardKept, BootInv

\* Every step keeps the table in order and what is connected at its place of
\* the boot.
LEMMA ConsoleStep == ConsoleInv /\ BootInv' /\ [Next]_vars => TableInv' /\ BootTable' /\ Console'
  <1> SUFFICES ASSUME ConsoleInv, BootInv', [Next]_vars PROVE TableInv' /\ BootTable' /\ Console'
    OBVIOUS
  <1> USE DEF At
  <1>1. ASSUME UNCHANGED fileVars, pc' = pc \/ {pc, pc'} \subseteq {"alt_irq_init", "device", "register", "finish"},
               devices' = <<>> => devices = <<>>
        PROVE  TableInv' /\ BootTable' /\ Console'
    BY <1>1 DEF ConsoleInv, TableInv, BootTable, Console, Connected, fileVars, dev, flags
  <1>2. CASE alt_irq_init    BY <1>1, <1>2 DEF alt_irq_init
  <1>3. CASE StartDevice     BY <1>1, <1>3 DEF StartDevice
  <1>4. CASE RegisterHandler BY <1>1, <1>4 DEF RegisterHandler
  <1>5. CASE FinishDevice
    <2>1. CASE devices[1] = JTAG_UART_0_IRQ
      <3>1. alt_dev_llist_insert(jtag_uart_0) /\ pc = "finish" /\ pc' = "device"
        BY <1>5, <2>1 DEF FinishDevice
      <3>2. TableInv' /\ alt_fd_list' = alt_fd_list /\ alt_dev_list' = alt_dev_list \cup {jtag_uart_0}
        BY <3>1, InsertKeepsTable, TableSizes DEF ConsoleInv, alt_dev_llist_insert
      <3> QED BY <3>1, <3>2 DEF ConsoleInv, BootTable, Console, dev, flags
    <2>2. CASE devices[1] # JTAG_UART_0_IRQ
      <3>1. devices = alt_sys_init
        BY <1>5, <2>2, NextDevice DEF FinishDevice, ConsoleInv, BootInv
      <3>2. devices' # <<>>
        BY <1>5, <3>1, NextDevice DEF FinishDevice
      <3> QED BY <1>1, <1>5, <2>2, <3>2 DEF FinishDevice
    <2> QED BY <2>1, <2>2
  <1>6. CASE alt_io_redirect
    <2>1. /\ TableInv /\ BootTable /\ Console /\ pc \notin {"main", "exit"} /\ devices = <<>> /\ devices' = devices
          /\ jtag_uart_0 \in alt_dev_list
      BY <1>6 DEF alt_io_redirect, ConsoleInv, BootInv, Console
    <2>2. ASSUME NEW i \in 0 .. 2, NEW mode \in {"O_READ", "O_WRITE"}, alt_open_fd(i, jtag_uart_0, {mode})
          PROVE  /\ TableInv' /\ BootTable' /\ alt_dev_list' = alt_dev_list /\ Connected(i, mode)'
                 /\ \A j \in (0 .. 2) \ {i}, m \in {"O_READ", "O_WRITE"} : Connected(j, m) => Connected(j, m)'
      <3>1. /\ TableInv' /\ alt_dev_list' = alt_dev_list
            /\ dev(i)' = jtag_uart_0 /\ mode \in flags(i)' /\ "ALT_FD_EXCL" \notin flags(i)'
            /\ \A j \in Numbers \ {i} : dev(j)' = dev(j) /\ flags(j)' = flags(j)
        BY <2>1, <2>2, RedirectOutcome
      <3>2. BootTable'
        BY <2>1, <3>1 DEF BootTable
      <3> QED BY <3>1, <3>2, TableSizes DEF Connected
    <2>3. CASE pc = "device" /\ pc' = "stdin" /\ alt_open_fd(1, jtag_uart_0, {"O_WRITE"})
      BY <2>1, <2>2, <2>3 DEF Console
    <2>4. CASE pc = "stdin" /\ pc' = "stderr" /\ alt_open_fd(0, jtag_uart_0, {"O_READ"})
      BY <2>1, <2>2, <2>4 DEF Console
    <2>5. CASE pc = "stderr" /\ pc' = "main" /\ alt_open_fd(2, jtag_uart_0, {"O_WRITE"})
      BY <2>1, <2>2, <2>5 DEF Console
    <2> QED BY <1>6, <2>3, <2>4, <2>5 DEF alt_io_redirect
  <1>7. CASE main
    <2>1. pc = "main" /\ pc' = "main" /\ TableInv
      BY <1>7 DEF main, mainVars, ConsoleInv
    <2>2. TableInv' /\ StandardKept
      BY <1>7, <2>1, InsertKeepsTable, OpenKeepsTable, CloseKeepsTable, IoctlOutcome, FcntlOutcome DEF main
    <2> QED BY <2>1, <2>2, ConsoleKept
  <1>8. CASE Return
    <2>1. pc = "main" /\ pc' = "exit" /\ TableInv /\ 1 \in Numbers /\ close(1)
      BY <1>8, TableSizes DEF Return, ConsoleInv
    <2>2. TableInv' /\ StandardKept
      BY <2>1, CloseKeepsTable
    <2> QED BY <2>1, <2>2, ConsoleKept
  <1>9. CASE Device \/ Processor
    <2>1. UNCHANGED <<fileVars, mainVars>>
      BY <1>9 DEF Device, Processor
    <2> QED BY <1>1, <2>1 DEF mainVars
  <1>10. CASE UNCHANGED vars BY <1>1, <1>10 DEF vars, mainVars
  <1> QED BY <1>2, <1>3, <1>4, <1>5, <1>6, <1>7, <1>8, <1>9, <1>10 DEF Next

\* Whatever the program opens, closes, locks and sets, its standard input and
\* output stay the serial port: StdioConnected.
THEOREM AlwaysConnected == Spec => []StdioConnected
  <1>1. Init => ConsoleInv
    BY BootInit, ConsoleInit DEF ConsoleInv
  <1>2. ConsoleInv /\ [Next]_vars => ConsoleInv'
    BY BootStep, ConsoleStep DEF ConsoleInv
  <1>3. ConsoleInv => StdioConnected
    <2>1. {"read", "write"} \subseteq Calls[jtag_uart_0] /\ "fstat" \notin Calls[jtag_uart_0]
      BY MainAssumption DEF UartCalls
    <2>2. 0 .. 2 = {0, 1, 2}
      OBVIOUS
    <2> QED BY <2>1, <2>2 DEF ConsoleInv, Console, Connected, StdioConnected, read, write, isatty
  <1> QED BY <1>1, <1>2, <1>3, PTL DEF Spec

-----------------------------------------------------------------------------
(* The descriptors the users see. *)

\* Every step is a step of the abstract table of descriptors, or changes none.
LEMMA Simulation == ConsoleInv /\ [Next]_vars => [Descriptors!Next]_<<files, held>>
  <1> SUFFICES ASSUME ConsoleInv, [Next]_vars PROVE [Descriptors!Next]_<<files, held>>
    OBVIOUS
  <1> USE DEF At
  <1>1. TableInv
    BY DEF ConsoleInv
  <1>2. Descriptors!Open = {i \in Numbers : dev(i) # Null} /\ Descriptors!Standard = 0 .. 2
        /\ \A i \in Descriptors!Open : files[i] = dev(i)
    BY DEF files, Descriptors!Open, Descriptors!Standard
  <1>3. ASSUME \A i \in Numbers : dev(i)' = dev(i)
        PROVE  files' = files
    BY <1>3 DEF files
  <1>4. ASSUME alt_fd_list' = alt_fd_list
        PROVE  UNCHANGED <<files, held>>
    BY <1>4 DEF files, held, dev, flags
  <1>5. ASSUME NEW d \in Devices \cup Filesystems, NEW k \in Numbers, Opened(k, d)
        PROVE  Descriptors!OpenFile(d)
    <2>1. d # Null
      BY TableSizes
    <2>2. k \in Numbers \ Descriptors!Open /\ \A g \in Numbers \ Descriptors!Open : k <= g
      BY <1>2, <1>5 DEF Opened
    <2>3. Descriptors!Lowest = k
      <3>1. \A f \in Numbers \ Descriptors!Open :
               (\A g \in Numbers \ Descriptors!Open : f <= g) => f = k
        BY <2>2, TableSizes
      <3> QED BY <2>2, <3>1 DEF Descriptors!Lowest
    <2>4. held' = held
      <3>1. k \notin held
        BY <1>1, <1>5 DEF Opened, held, TableInv
      <3> QED BY <1>5, <3>1 DEF Opened, held
    <2>5. files' = [f \in Descriptors!Open \cup {k} |-> IF f = k THEN d ELSE files[f]]
      <3>1. {j \in Numbers : dev(j)' # Null} = Descriptors!Open \cup {k}
        BY <1>2, <1>5, <2>1 DEF Opened
      <3>2. \A j \in Descriptors!Open \cup {k} : dev(j)' = IF j = k THEN d ELSE files[j]
        BY <1>2, <1>5 DEF Opened
      <3> QED BY <3>1, <3>2 DEF files
    <2>6. \A f \in held : files[f] # d
      <3>1. held \subseteq Descriptors!Open
        BY <1>1, <1>2 DEF held, TableInv
      <3> QED BY <1>2, <1>5, <3>1 DEF Opened
    <2> QED BY <2>2, <2>3, <2>4, <2>5, <2>6 DEF Descriptors!OpenFile
  <1>6. ASSUME NEW k \in Numbers, close(k)
        PROVE  (k \in Descriptors!Open /\ Descriptors!CloseFile(k)) \/ UNCHANGED <<files, held>>
    <2>1. CASE alt_fd_list' = alt_fd_list
      BY <1>4, <2>1
    <2>2. CASE /\ k > 2 /\ dev(k) # Null /\ dev(k)' = Null /\ "ALT_FD_EXCL" \notin flags(k)'
               /\ \A j \in Numbers \ {k} : dev(j)' = dev(j) /\ flags(j)' = flags(j)
      <3>1. k \in Descriptors!Open \ Descriptors!Standard
        BY <1>2, <2>2, TableSizes
      <3>2. held' = held \ {k}
        BY <2>2 DEF held
      <3>3. {j \in Numbers : dev(j)' # Null} = Descriptors!Open \ {k}
        BY <1>2, <2>2
      <3>4. \A j \in Descriptors!Open \ {k} : dev(j)' = files[j]
        BY <1>2, <2>2
      <3>5. files' = [g \in Descriptors!Open \ {k} |-> files[g]]
        BY <3>3, <3>4 DEF files
      <3> QED BY <3>1, <3>2, <3>5 DEF Descriptors!CloseFile
    <2> QED BY <1>1, <1>6, <2>1, <2>2, CloseKeepsTable
  <1>7. ASSUME NEW i \in 0 .. 2, NEW f \in {{"O_READ"}, {"O_WRITE"}},
               alt_open_fd(i, jtag_uart_0, f), alt_io_redirect
        PROVE  Descriptors!Redirect(i, jtag_uart_0)
    <2>1. BootTable /\ pc \notin {"main", "exit"} /\ jtag_uart_0 \in alt_dev_list
      BY <1>7 DEF alt_io_redirect, ConsoleInv, BootInv, Console
    <2>2. /\ held' = held /\ held = {} /\ dev(i)' = jtag_uart_0
          /\ \A j \in Numbers \ {i} : dev(j)' = dev(j)
      BY <1>1, <1>7, <2>1, RedirectOutcome
    <2>3. i \in Numbers /\ dev(i) # Null /\ jtag_uart_0 # Null
      BY <1>1, TableSizes DEF TableInv
    <2>4. {j \in Numbers : dev(j)' # Null} = Descriptors!Open
      BY <1>2, <2>2, <2>3
    <2>5. \A j \in Descriptors!Open : dev(j)' = IF j = i THEN jtag_uart_0 ELSE files[j]
      BY <1>2, <2>2
    <2>6. files' = [files EXCEPT ![i] = jtag_uart_0]
      BY <1>2, <2>3, <2>4, <2>5 DEF files
    <2> QED BY <1>2, <2>2, <2>6 DEF Descriptors!Redirect
  <1>8. CASE alt_io_redirect
    <2>1. \E i \in 0 .. 2 : Descriptors!Redirect(i, jtag_uart_0)
      BY <1>7, <1>8 DEF alt_io_redirect
    <2> QED BY <1>2, <2>1, TableSizes DEF Descriptors!Next
  <1>9. CASE main
    <2>1. ASSUME NEW d \in Filesystems, alt_dev_llist_insert(d) PROVE UNCHANGED <<files, held>>
      BY <1>4, <2>1 DEF alt_dev_llist_insert
    <2>2. ASSUME NEW d \in Devices \cup Filesystems, NEW f \in OpenFlagSets, open(d, f)
          PROVE  Descriptors!OpenFile(d) \/ UNCHANGED <<files, held>>
      BY <1>1, <1>4, <1>5, <2>2, OpenKeepsTable
    <2>3. ASSUME NEW k \in Numbers, ioctl(k)
          PROVE  \E f \in Descriptors!Open : Descriptors!Hold(f) \/ Descriptors!Release(f)
      <3>1. files' = files /\ (held' = held \cup {k} \/ held' = held \ {k})
        BY <1>1, <1>3, <2>3, IoctlOutcome
      <3>2. k \in Descriptors!Open
        BY <1>2, <2>3 DEF ioctl, IsOpen
      <3> QED BY <3>1, <3>2 DEF Descriptors!Hold, Descriptors!Release
    <2>4. ASSUME NEW k \in Numbers, NEW f \in FcntlFlagSets, fcntl(k, f) PROVE UNCHANGED <<files, held>>
      BY <1>1, <1>3, <2>4, FcntlOutcome
    <2> QED BY <1>6, <1>9, <2>1, <2>2, <2>3, <2>4 DEF main, Descriptors!Next
  <1>10. CASE Return
    <2>1. 1 \in Numbers /\ close(1)
      BY <1>10, TableSizes DEF Return
    <2> QED BY <1>6, <2>1 DEF Descriptors!Next
  <1>11. CASE alt_irq_init \/ StartDevice \/ RegisterHandler \/ Device \/ Processor \/ UNCHANGED vars
    <2>1. alt_fd_list' = alt_fd_list
      BY <1>11 DEF alt_irq_init, StartDevice, RegisterHandler, Device, Processor, vars, fileVars
    <2> QED BY <1>4, <2>1
  <1>12. CASE FinishDevice
    <2>1. alt_fd_list' = alt_fd_list
      BY <1>12 DEF FinishDevice, alt_dev_llist_insert, fileVars
    <2> QED BY <1>4, <2>1
  <1> QED BY <1>8, <1>9, <1>10, <1>11, <1>12 DEF Next

\* The table implements what its users are promised, for every size of the
\* table and every set of devices: ImplementsDescriptors.
THEOREM TableImplementsDescriptors == Spec => ImplementsDescriptors
  <1>1. Init => Descriptors!Init
    <2> SUFFICES ASSUME Init PROVE Descriptors!Init
      OBVIOUS
    <2>1. \A i \in Numbers : /\ i <= 2 => dev(i) = alt_dev_null /\ flags(i) = {"O_READ"}
                             /\ ~(i <= 2) => dev(i) = Null /\ flags(i) = {}
      BY DEF Init, FileInit, Entry, FreeEntry, dev, flags
    <2>2. {j \in Numbers : dev(j) # Null} = 0 .. 2
      <3>1. \A j \in Numbers : dev(j) # Null <=> j \in 0 .. 2
        BY <2>1, TableSizes
      <3>2. 0 .. 2 \subseteq Numbers
        BY TableSizes DEF Numbers
      <3> QED BY <3>1, <3>2
    <2>4. held = {}
      BY <2>1 DEF held
    <2>3. \A i \in 0 .. 2 : dev(i) = alt_dev_null
      BY <2>1, TableSizes
    <2> QED BY <2>2, <2>3, <2>4 DEF files, Descriptors!Init, Descriptors!Standard
  <1>2. Init => ConsoleInv
    BY BootInit, ConsoleInit DEF ConsoleInv
  <1>3. ConsoleInv /\ [Next]_vars => ConsoleInv'
    BY BootStep, ConsoleStep DEF ConsoleInv
  <1>4. Descriptors!Spec <=> Descriptors!Init /\ [][Descriptors!Next]_<<files, held>>
    BY DEF Descriptors!Spec, Descriptors!descriptorVars
  <1> QED BY <1>1, <1>2, <1>3, <1>4, Simulation, PTL DEF Spec, ImplementsDescriptors
=============================================================================
