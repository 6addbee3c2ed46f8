------------------------------ MODULE JtagUart ------------------------------
(***************************************************************************)
(* The serial port of the system over JTAG: the interrupt driven driver    *)
(* altera_avalon_jtag_uart (init.c, read.c, write.c, ioctl.c), the device  *)
(* with its two hardware FIFOs, and a host that comes and goes.  The       *)
(* program's calls run an access to shared memory at a time; the interrupt *)
(* handler can come in between any two of them, except where interrupts    *)
(* are masked, and runs a device access at a time.                         *)
(*                                                                         *)
(* Bytes are numbered modulo Values in the order in which they are sent,   *)
(* so that a lost, repeated or overtaken byte shows.                       *)
(***************************************************************************)
EXTENDS Integers, Sequences

CONSTANTS
    BUF_LEN,            \* the size of each software buffer: 2048
    TxDepth, RxDepth,   \* the sizes of the hardware FIFOs: 64
    TxLow, RxHigh,      \* the fill at which they interrupt: 8 or less, 56 or more
    INT_MAX,            \* the largest int
    DEFAULT_TIMEOUT,    \* seconds until the host is assumed absent: 10
    Values,             \* the number of different bytes
    Programs,           \* each a set of the calls a program makes; with
                        \* "typing" the host has something to send meanwhile
    WriteCounts, ReadSpaces, Timeouts   \* their arguments

ASSUME UartAssumption ==
    /\ BUF_LEN \in Nat /\ BUF_LEN > 1
    /\ TxDepth \in Nat /\ RxDepth \in Nat /\ Values \in Nat /\ Values > 1
    /\ TxLow \in 0 .. TxDepth - 1 /\ RxHigh \in 1 .. RxDepth
    /\ INT_MAX \in Nat /\ DEFAULT_TIMEOUT \in 2 .. INT_MAX - 1
    /\ WriteCounts \subseteq Nat \ {0} /\ ReadSpaces \subseteq Nat \ {0}
    /\ Timeouts \subseteq Nat

VARIABLES
    \* The state structure of the driver.
    tx_in, tx_out, tx_buf, rx_in, rx_out, rx_buf,
    irq_enable,         \* subset of {"RE", "WE"}; the device has the same
    host_inactive, timeout,
    \* The device and the host.
    tx_fifo, rx_fifo,
    pause_irq,          \* the host paused with bytes in rx_fifo
    AC,                 \* the host has been active
    connected,          \* the host is there
    hostSends, hostTakes,       \* the numbers of its next bytes
    \* The call that is running.
    calls,              \* the calls of the program
    pc, flags, left,    \* its place, whether O_NONBLOCK, the bytes still to move
    moved,              \* ptr has left the start of the user's buffer
    index, n,           \* the copy of tx_out or rx_in it compares with; a chunk
    progWrites, progReads,      \* the numbers of the program's next bytes
    \* The interrupt handler.
    isr, control,       \* its place; RI, WI and the space it has read
    ravail              \* the device had more bytes at the last read

txVars == <<tx_in, tx_buf, progWrites>>
rxVars == <<rx_in, rx_buf>>
readerVars == <<rx_out, progReads>>
hostVars == <<connected, hostSends, hostTakes>>
timeVars == <<host_inactive, timeout>>
callVars == <<calls, pc, flags, left, moved, index, n>>
isrVars == <<isr, control, ravail>>
vars == <<txVars, tx_out, rxVars, readerVars, irq_enable, timeVars, tx_fifo, rx_fifo,
          pause_irq, AC, hostVars, callVars, isrVars>>

Plus_NoWrap(i, k) == i + k      \* faulty variant: no return to the start
Plus(i, k) == (i + k) % BUF_LEN
Used(in, out) == (in - out) % BUF_LEN

\* The registers of the device: its interrupts, and the space in tx_fifo.
RI == "RE" \in irq_enable /\ (pause_irq \/ Len(rx_fifo) >= RxHigh)
WI == "WE" \in irq_enable /\ Len(tx_fifo) <= TxLow
WSPACE == TxDepth - Len(tx_fifo)

NoControl == [RI |-> FALSE, WI |-> FALSE, space |-> 0]

\* After altera_avalon_jtag_uart_init.
Init ==
    /\ tx_in = 0 /\ tx_out = 0 /\ rx_in = 0 /\ rx_out = 0
    /\ tx_buf = [i \in 0 .. BUF_LEN - 1 |-> 0] /\ rx_buf = tx_buf
    /\ irq_enable = {"RE"} /\ host_inactive = 0 /\ timeout = DEFAULT_TIMEOUT
    /\ tx_fifo = <<>> /\ rx_fifo = <<>> /\ pause_irq = FALSE /\ AC = FALSE
    /\ connected \in BOOLEAN /\ hostSends = 0 /\ hostTakes = 0
    /\ calls \in Programs /\ pc = "idle" /\ flags = FALSE /\ left = 0 /\ moved = FALSE /\ index = 0 /\ n = 0
    /\ progWrites = 0 /\ progReads = 0
    /\ isr = "out" /\ control = NoControl /\ ravail = FALSE

\* The program runs while no interrupt is being handled.
At(p) == isr = "out" /\ pc = p

Goto(p) == pc' = p /\ UNCHANGED <<flags, left, moved, index, n>>

Returns == pc' = "idle" /\ flags' = FALSE /\ left' = 0 /\ moved' = FALSE /\ index' = 0 /\ n' = 0

Smaller(a, b) == IF a < b THEN a ELSE b

deviceVars == <<tx_fifo, rx_fifo, pause_irq, AC>>

-----------------------------------------------------------------------------
(* altera_avalon_jtag_uart_write *)

Write(count, nonblock) ==
    /\ At("idle") /\ pc' = "w_look"
    /\ flags' = nonblock /\ left' = count /\ moved' = FALSE /\ index' = 0 /\ n' = 0
    /\ UNCHANGED <<txVars, readerVars, irq_enable, timeout>>

\* The free bytes from tx_in on, without the wrap.
TxChunk(in, out) ==
    IF in < out THEN out - 1 - in
    ELSE IF out > 0 THEN BUF_LEN - in
    ELSE BUF_LEN - 1 - in

\* Takes a stable copy of tx_out and sees what fits.
w_look ==
    /\ At("w_look")
    /\ index' = tx_out
    /\ n' = Smaller(TxChunk(tx_in, tx_out), left)
    /\ pc' = (IF n' = 0 THEN "w_kick" ELSE "w_copy")
    /\ UNCHANGED <<flags, left, moved, txVars, readerVars, irq_enable, timeout>>

w_copy ==
    /\ At("w_copy") /\ pc' = "w_publish"
    /\ tx_buf' = [i \in 0 .. BUF_LEN - 1 |->
                    IF i \in tx_in .. tx_in + n - 1 THEN (progWrites + i - tx_in) % Values
                                                    ELSE tx_buf[i]]
    /\ left' = left - n /\ moved' = TRUE
    /\ UNCHANGED <<flags, index, n, tx_in, progWrites, readerVars, irq_enable, timeout>>

w_publish ==
    /\ At("w_publish")
    /\ tx_in' = Plus(tx_in, n) /\ progWrites' = (progWrites + n) % Values
    /\ n' = 0 /\ pc' = (IF left > 0 THEN "w_look" ELSE "w_kick")
    /\ UNCHANGED <<flags, left, moved, index, tx_buf, readerVars, irq_enable, timeout>>

\* Faulty variant: the write interrupt is only enabled when the buffer is full.
w_kick_WhenFull ==
    /\ At("w_kick")
    /\ irq_enable' = IF left > 0 THEN irq_enable \cup {"WE"} ELSE irq_enable
    /\ IF left = 0 THEN Returns
       ELSE IF flags THEN Goto("return") ELSE Goto("w_spin")
    /\ UNCHANGED <<txVars, readerVars, timeout>>

\* Enables the write interrupt, with interrupts masked.
w_kick ==
    /\ At("w_kick")
    /\ irq_enable' = irq_enable \cup {"WE"}
    /\ IF left = 0 THEN Returns
       ELSE IF flags THEN Goto("return") ELSE Goto("w_spin")
    /\ UNCHANGED <<txVars, readerVars, timeout>>

\* Faulty variant: it waits for space only.
w_spin_Forever ==
    /\ At("w_spin") /\ index # tx_out
    /\ Goto("w_check")
    /\ UNCHANGED <<txVars, readerVars, irq_enable, timeout>>

\* Waits until the handler has taken a byte or the host has been away too long.
w_spin ==
    /\ At("w_spin") /\ (index # tx_out \/ host_inactive >= timeout)
    /\ Goto("w_check")
    /\ UNCHANGED <<txVars, readerVars, irq_enable, timeout>>

\* Gives up as soon as the host has been inactive at all.
w_check ==
    /\ At("w_check")
    /\ Goto(IF host_inactive > 0 THEN "return" ELSE "w_look")
    /\ UNCHANGED <<txVars, readerVars, irq_enable, timeout>>


-----------------------------------------------------------------------------
(* altera_avalon_jtag_uart_read *)

Read(space, nonblock) ==
    /\ At("idle") /\ pc' = "r_look"
    /\ flags' = nonblock /\ left' = space /\ moved' = FALSE /\ index' = 0 /\ n' = 0
    /\ UNCHANGED <<txVars, readerVars, irq_enable, timeout>>

\* The bytes from rx_out on, without the wrap.
RxChunk(in, out) == IF in >= out THEN in - out ELSE BUF_LEN - out

r_look ==
    /\ At("r_look")
    /\ index' = rx_in
    /\ n' = Smaller(RxChunk(rx_in, rx_out), left)
    /\ pc' = (IF n' > 0 THEN "r_copy"
              ELSE IF moved THEN "r_enable"
              ELSE IF flags THEN "return" ELSE "r_spin")
    /\ UNCHANGED <<flags, left, moved, txVars, readerVars, irq_enable, timeout>>

\* Faulty variant: the place in the buffer is given back before it is read.
r_copy_Late ==
    /\ At("r_copy") /\ pc' = "r_release"
    /\ rx_out' = Plus(rx_out, n)
    /\ left' = left - n /\ moved' = TRUE
    /\ progReads' = (progReads + n) % Values
    /\ UNCHANGED <<flags, index, n, txVars, irq_enable, timeout>>

\* The program now has n bytes; it expects the one after the last of them.
r_copy ==
    /\ At("r_copy") /\ pc' = "r_release"
    /\ progReads' = (rx_buf[rx_out + n - 1] + 1) % Values
    /\ left' = left - n /\ moved' = TRUE
    /\ UNCHANGED <<flags, index, n, rx_out, txVars, irq_enable, timeout>>

r_release ==
    /\ At("r_release")
    /\ rx_out' = Plus(rx_out, n) /\ n' = 0
    /\ pc' = (IF left > 0 THEN "r_look" ELSE "r_enable")
    /\ UNCHANGED <<flags, left, moved, index, progReads, txVars, irq_enable, timeout>>

\* Waits for a byte or until the host has been away too long.
r_spin ==
    /\ At("r_spin") /\ (index # rx_in \/ host_inactive >= timeout)
    /\ Goto("r_check")
    /\ UNCHANGED <<txVars, readerVars, irq_enable, timeout>>

r_check ==
    /\ At("r_check")
    /\ Goto(IF index = rx_in THEN "return" ELSE "r_look")
    /\ UNCHANGED <<txVars, readerVars, irq_enable, timeout>>

\* There is space again: enables the read interrupt, with interrupts masked.
r_enable ==
    /\ At("r_enable") /\ Returns
    /\ irq_enable' = irq_enable \cup {"RE"}
    /\ UNCHANGED <<txVars, readerVars, timeout>>

-----------------------------------------------------------------------------
(* altera_avalon_jtag_uart_close and altera_avalon_jtag_uart_ioctl *)

Close(nonblock) ==
    /\ At("idle") /\ pc' = "closing" /\ flags' = nonblock
    /\ UNCHANGED <<left, moved, index, n, txVars, readerVars, irq_enable, timeout>>

\* Waits for the transmit buffer to be emptied, but not for a host that is away.
closing ==
    /\ At("closing") /\ (tx_out = tx_in \/ host_inactive >= timeout \/ flags)
    /\ Returns
    /\ UNCHANGED <<txVars, readerVars, irq_enable, timeout>>

\* TIOCSTIMEOUT; INT_MAX - 1 means for ever.
ioctl(t) ==
    /\ At("idle") /\ timeout # INT_MAX
    /\ timeout' = IF t >= 2 /\ t < INT_MAX THEN t ELSE INT_MAX - 1
    /\ UNCHANGED <<txVars, readerVars, irq_enable, callVars>>

-----------------------------------------------------------------------------
(* The program: any call after any other. *)

\* The end of a write or a read that stopped short: the bytes it has moved,
\* or else -EWOULDBLOCK, or -EIO for a call that blocked.
return ==
    /\ At("return") /\ Returns
    /\ UNCHANGED <<txVars, readerVars, irq_enable, timeout>>

Call ==
    /\ UNCHANGED calls
    /\ \/ \E nonblock \in BOOLEAN :
             \/ "write" \in calls /\ \E c \in WriteCounts : Write(c, nonblock)
             \/ "read" \in calls /\ \E s \in ReadSpaces : Read(s, nonblock)
             \/ "close" \in calls /\ Close(nonblock)
       \/ "ioctl" \in calls /\ \E t \in Timeouts : ioctl(t)

Step ==
    \/ w_look \/ w_copy \/ w_publish \/ w_kick \/ w_spin \/ w_check
    \/ r_look \/ r_copy \/ r_release \/ r_spin \/ r_check \/ r_enable
    \/ closing \/ return

\* What only the handlers, the device and the host change.
othersVars == <<tx_out, rxVars, host_inactive, deviceVars, hostVars, isrVars>>

Calls == Call /\ UNCHANGED othersVars
Steps == Step /\ UNCHANGED <<calls, othersVars>>

-----------------------------------------------------------------------------
(* altera_avalon_jtag_uart_irq *)

\* The line is up and the program is not within a masked pair of accesses.
Interrupt ==
    /\ isr = "out" /\ (RI \/ WI) /\ isr' = "control"
    /\ UNCHANGED <<control, ravail, tx_out, rxVars, irq_enable, host_inactive, deviceVars>>

\* Reads the control register and returns when there is nothing more to do.
isr_control ==
    /\ isr = "control"
    /\ IF RI \/ WI
       THEN /\ control' = [RI |-> RI, WI |-> WI, space |-> WSPACE]
            /\ isr' = (IF RI THEN "read" ELSE "write")
       ELSE isr' = "out" /\ control' = NoControl
    /\ ravail' = RI
    /\ UNCHANGED <<tx_out, rxVars, irq_enable, host_inactive, deviceVars>>

RxFull == Plus(rx_in, 1) = rx_out

\* Reads the data register, unless the buffer is full: a byte, if there is
\* one, and whether there are more.
isr_read ==
    /\ isr = "read" /\ ~RxFull
    /\ IF rx_fifo = <<>>
       THEN isr' = "read_done" /\ ravail' = FALSE /\ UNCHANGED <<rx_buf, rx_in, rx_fifo>>
       ELSE /\ rx_buf' = [rx_buf EXCEPT ![rx_in] = Head(rx_fifo)]
            /\ rx_in' = Plus(rx_in, 1)
            /\ rx_fifo' = Tail(rx_fifo)
            /\ ravail' = (Len(rx_fifo) > 1) /\ isr' = isr
    /\ pause_irq' = FALSE
    /\ UNCHANGED <<control, tx_out, irq_enable, host_inactive, tx_fifo, AC>>

isr_full ==
    /\ isr = "read" /\ RxFull /\ isr' = "read_done"
    /\ UNCHANGED <<control, ravail, tx_out, rxVars, irq_enable, host_inactive, deviceVars>>

\* Faulty variant: bytes left in the device leave the interrupt on.
isr_read_done_KeepsOn ==
    /\ isr = "read_done"
    /\ isr' = (IF control.WI THEN "write" ELSE "control")
    /\ UNCHANGED <<irq_enable, control, ravail, tx_out, rxVars, host_inactive, deviceVars>>

\* With bytes left in the device the buffer is full: no more read interrupts.
isr_read_done ==
    /\ isr = "read_done"
    /\ irq_enable' = IF ravail THEN irq_enable \ {"RE"} ELSE irq_enable
    /\ isr' = (IF control.WI THEN "write" ELSE "control")
    /\ UNCHANGED <<control, ravail, tx_out, rxVars, host_inactive, deviceVars>>

\* Writes a byte to the device while it had space when control was read.
isr_write ==
    /\ isr = "write" /\ control.space > 0 /\ tx_out # tx_in
    /\ tx_fifo' = IF Len(tx_fifo) < TxDepth THEN Append(tx_fifo, tx_buf[tx_out]) ELSE tx_fifo
    /\ tx_out' = Plus(tx_out, 1)
    /\ control' = [control EXCEPT !.space = @ - 1]
    /\ UNCHANGED <<isr, ravail, rxVars, irq_enable, host_inactive, rx_fifo, pause_irq, AC>>

\* Faulty variant: the write interrupt goes off when the device is full.
isr_write_done_Always ==
    /\ isr = "write" /\ (control.space = 0 \/ tx_out = tx_in)
    /\ irq_enable' = irq_enable \ {"WE"}
    /\ isr' = "control"
    /\ UNCHANGED <<control, ravail, tx_out, rxVars, host_inactive, deviceVars>>

\* With space left there is nothing more to send: no more write interrupts.
isr_write_done ==
    /\ isr = "write" /\ (control.space = 0 \/ tx_out = tx_in)
    /\ irq_enable' = IF control.space > 0 THEN irq_enable \ {"WE"} ELSE irq_enable
    /\ isr' = "control"
    /\ UNCHANGED <<control, ravail, tx_out, rxVars, host_inactive, deviceVars>>

Handler == isr_control \/ isr_read \/ isr_full \/ isr_read_done \/ isr_write \/ isr_write_done

\* altera_avalon_jtag_uart_timeout, the alarm of every second.
Timeout ==
    /\ isr = "out"
    /\ IF AC THEN AC' = FALSE /\ host_inactive' = 0
       ELSE /\ host_inactive' = IF host_inactive < INT_MAX - 2 THEN host_inactive + 1
                                                               ELSE host_inactive
            /\ UNCHANGED AC
    /\ UNCHANGED <<isrVars, tx_out, rxVars, irq_enable, tx_fifo, rx_fifo, pause_irq>>

\* What handlers leave to the program and to the host.
programVars == <<txVars, readerVars, timeout, callVars, hostVars>>

-----------------------------------------------------------------------------
(* The host: not part of the sources; what the device lets it do. *)

Connect == ~connected /\ connected' = TRUE /\ UNCHANGED <<deviceVars, hostSends, hostTakes>>
Disconnect == connected /\ connected' = FALSE /\ UNCHANGED <<deviceVars, hostSends, hostTakes>>

HostSend ==
    /\ connected /\ "typing" \in calls /\ Len(rx_fifo) < RxDepth
    /\ rx_fifo' = Append(rx_fifo, hostSends) /\ hostSends' = (hostSends + 1) % Values
    /\ AC' = TRUE
    /\ UNCHANGED <<tx_fifo, pause_irq, connected, hostTakes>>

\* The host has nothing to send for a moment.
HostPause ==
    /\ connected
    /\ pause_irq' = (pause_irq \/ rx_fifo # <<>>) /\ AC' = TRUE
    /\ UNCHANGED <<tx_fifo, rx_fifo, hostVars>>

HostTake ==
    /\ connected /\ tx_fifo # <<>>
    /\ hostTakes' = (Head(tx_fifo) + 1) % Values /\ tx_fifo' = Tail(tx_fifo)
    /\ UNCHANGED <<rx_fifo, pause_irq, AC, connected, hostSends>>

driverVars == <<txVars, tx_out, rxVars, readerVars, irq_enable, timeVars, callVars, isrVars>>

Serve   == (Interrupt \/ Handler) /\ UNCHANGED programVars
Alarm   == Timeout /\ UNCHANGED programVars
Takes   == HostTake /\ UNCHANGED driverVars
Pauses  == HostPause /\ UNCHANGED driverVars
Host    == (Connect \/ Disconnect \/ HostSend) /\ UNCHANGED driverVars

Next == Calls \/ Steps \/ Serve \/ Alarm \/ Takes \/ Pauses \/ Host

\* Interrupts are served and the program gets on between them: the line
\* moves a byte in the time of thousands of instructions.  The clock ticks.
\* A host that is there takes what it gets and pauses now and then.
Spec ==
    /\ Init /\ [][Next]_vars
    /\ WF_vars(Serve) /\ SF_vars(Steps) /\ SF_vars(Alarm)
    /\ WF_vars(Takes) /\ WF_vars(Pauses)

-----------------------------------------------------------------------------
(* Properties *)

\* The indexes stay inside the buffers and the calls at the places they have.
TypeOK ==
    /\ {tx_in, tx_out, rx_in, rx_out} \subseteq 0 .. BUF_LEN - 1
    /\ tx_buf \in [0 .. BUF_LEN - 1 -> 0 .. Values - 1]
    /\ rx_buf \in [0 .. BUF_LEN - 1 -> 0 .. Values - 1]
    /\ irq_enable \subseteq {"RE", "WE"} /\ host_inactive \in Nat /\ timeout \in Nat
    /\ tx_fifo \in Seq(0 .. Values - 1) /\ rx_fifo \in Seq(0 .. Values - 1)
    /\ pause_irq \in BOOLEAN /\ AC \in BOOLEAN /\ connected \in BOOLEAN
    /\ {hostSends, hostTakes, progWrites, progReads} \subseteq 0 .. Values - 1
    /\ pc \in {"idle", "w_look", "w_copy", "w_publish", "w_kick", "w_spin", "w_check", "return",
               "r_look", "r_copy", "r_release", "r_spin", "r_check", "r_enable", "closing"}
    /\ flags \in BOOLEAN /\ moved \in BOOLEAN /\ {left, n} \subseteq Nat
    /\ index \in 0 .. BUF_LEN - 1
    /\ isr \in {"out", "control", "read", "read_done", "write"} /\ ravail \in BOOLEAN
    /\ control \in [RI : BOOLEAN, WI : BOOLEAN, space : Nat]

\* The bytes of a buffer from place out up to place in.
Contents(buf, in, out) == [k \in 1 .. Used(in, out) |-> buf[Plus(out, k - 1)]]

\* What is on its way to the host, and to the program: a byte the program has
\* copied is its own, although its place is not given back yet.
Output == tx_fifo \o Contents(tx_buf, tx_in, tx_out)
Input  == Contents(rx_buf, rx_in, IF pc = "r_release" THEN Plus(rx_out, n) ELSE rx_out) \o rx_fifo

Consecutive(q, first, next) ==
    /\ \A k \in DOMAIN q : q[k] = (first + k - 1) % Values
    /\ next = (first + Len(q)) % Values

\* No byte is lost, repeated or overtaken in either direction, through both
\* buffers, whenever the handler comes in and whoever stops reading.
BytesInOrder ==
    /\ Consecutive(Output, hostTakes, progWrites)
    /\ Consecutive(Input, progReads, hostSends)

\* An interrupt that is needed is on, or the call that will turn it on is
\* under way: bytes to be sent do not wait with the write interrupt off, nor
\* bytes in the device with the read interrupt off and an empty buffer.
NoLostWakeup ==
    /\ tx_in # tx_out /\ "WE" \notin irq_enable => pc \in {"w_look", "w_copy", "w_publish", "w_kick"}
    /\ rx_in = rx_out /\ "RE" \notin irq_enable => pc \in {"r_look", "r_copy", "r_release", "r_enable"}

\* While the host stays, the bytes written keep going to it.
OutputArrives == <>[]connected => []<>(Output = <<>>) \/ []<><<HostTake>>_hostVars

\* While the host stays, no read waits for ever for a byte that is on its way.
InputArrives == <>[]connected => []<>~(pc = "r_spin" /\ Input # <<>>)

\* A write or a close returns, however many rounds of its loop it takes: the
\* host either takes the bytes or is noticed to be away, unless the program
\* has asked to wait for ever.
CallsReturn ==
    <>[]connected \/ <>[]~connected =>
        []<>(pc \notin {"w_look", "w_copy", "w_publish", "w_kick", "w_spin",
                        "w_check", "return", "closing"} \/ timeout = INT_MAX - 1)
=============================================================================
