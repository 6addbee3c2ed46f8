-------------------------- MODULE JtagUart_proofs ---------------------------
(***************************************************************************)
(* No interrupt the driver needs is ever left off, no copy leaves a buffer,*)
(* and the bytes arrive complete and in order in both directions, for every*)
(* size of the buffers and of the device's FIFOs and every program.        *)
(***************************************************************************)
EXTENDS JtagUart, SequenceTheorems, TLAPS

SendCalls    == {"w_look", "w_copy", "w_publish", "w_kick"}
ReceiveCalls == {"r_look", "r_copy", "r_release", "r_enable"}

\* NoLostWakeup and what makes it inductive: a read that has moved nothing yet
\* does not turn the interrupt on, so the interrupt must not have been off;
\* and the handler turns it off with bytes in the buffer only.
WakeupInv ==
    /\ rx_in \in 0 .. BUF_LEN - 1
    /\ NoLostWakeup
    /\ pc = "r_look" /\ rx_in = rx_out /\ "RE" \notin irq_enable => moved
    /\ pc = "r_release" => moved
    /\ isr = "read_done" /\ ravail => rx_in # rx_out

\* A place in a buffer is followed by another one.
LEMMA NextPlace ==
    ASSUME NEW i \in 0 .. BUF_LEN - 1
    PROVE  Plus(i, 1) \in 0 .. BUF_LEN - 1 /\ Plus(i, 1) # i
  <1>1. BUF_LEN \in Nat /\ BUF_LEN > 1
    BY UartAssumption
  <1>2. CASE i = BUF_LEN - 1
    <2>1. (i + 1) % BUF_LEN = 0
      BY <1>1, <1>2
    <2> QED BY <1>1, <1>2, <2>1 DEF Plus
  <1>3. CASE i + 1 < BUF_LEN
    <2>1. (i + 1) % BUF_LEN = i + 1
      BY <1>1, <1>3
    <2> QED BY <1>1, <1>3, <2>1 DEF Plus
  <1> QED BY <1>1, <1>2, <1>3

\* At start the buffers are empty and nothing waits.
LEMMA WakeupInit == Init => WakeupInv
  BY UartAssumption DEF Init, WakeupInv, NoLostWakeup

\* A call begins.
LEMMA WakeupCalls == WakeupInv /\ Calls => WakeupInv'
  <1> SUFFICES ASSUME WakeupInv, Calls PROVE WakeupInv'
    OBVIOUS
  <1> USE DEF At, WakeupInv, NoLostWakeup, txVars, readerVars, rxVars, isrVars, othersVars
  <1>1. ASSUME NEW c \in WriteCounts, NEW b \in BOOLEAN, Write(c, b) PROVE WakeupInv'
    BY <1>1 DEF Write, Calls
  <1>2. ASSUME NEW s \in ReadSpaces, NEW b \in BOOLEAN, Read(s, b) PROVE WakeupInv'
    BY <1>2 DEF Read, Calls
  <1>3. ASSUME NEW b \in BOOLEAN, Close(b) PROVE WakeupInv'
    BY <1>3 DEF Close, Calls
  <1>4. ASSUME NEW t \in Timeouts, ioctl(t) PROVE WakeupInv'
    BY <1>4 DEF ioctl, callVars, Calls
  <1> QED BY <1>1, <1>2, <1>3, <1>4 DEF Calls, Call

\* A step of a write: it ends with the write interrupt on.
LEMMA WakeupWriting ==
    ASSUME WakeupInv, UNCHANGED othersVars,
           w_look \/ w_copy \/ w_publish \/ w_kick \/ w_spin \/ w_check
    PROVE  WakeupInv'
  <1> USE DEF At, WakeupInv, NoLostWakeup, txVars, readerVars, rxVars, isrVars, othersVars,
              Goto, Returns
  <1>1. CASE w_look    BY <1>1 DEF w_look
  <1>2. CASE w_copy    BY <1>2 DEF w_copy
  <1>3. CASE w_publish BY <1>3 DEF w_publish
  <1>4. CASE w_kick    BY <1>4 DEF w_kick
  <1>5. CASE w_spin    BY <1>5 DEF w_spin
  <1>6. CASE w_check   BY <1>6 DEF w_check
  <1> QED BY <1>1, <1>2, <1>3, <1>4, <1>5, <1>6

\* A step of a read: it turns the interrupt on once it has made room.
LEMMA WakeupReading ==
    ASSUME WakeupInv, UNCHANGED othersVars,
           r_look \/ r_copy \/ r_release \/ r_spin \/ r_check \/ r_enable
    PROVE  WakeupInv'
  <1> USE DEF At, WakeupInv, NoLostWakeup, txVars, readerVars, rxVars, isrVars, othersVars,
              Goto, Returns
  <1>1. CASE r_look    BY <1>1 DEF r_look
  <1>2. CASE r_copy    BY <1>2 DEF r_copy
  <1>3. CASE r_release BY <1>3 DEF r_release
  <1>4. CASE r_spin    BY <1>4 DEF r_spin
  <1>5. CASE r_check   BY <1>5 DEF r_check
  <1>6. CASE r_enable  BY <1>6 DEF r_enable
  <1> QED BY <1>1, <1>2, <1>3, <1>4, <1>5, <1>6

\* The steps of the calls.
LEMMA WakeupSteps == WakeupInv /\ Steps => WakeupInv'
  <1> SUFFICES ASSUME WakeupInv, Steps PROVE WakeupInv'
    OBVIOUS
  <1> USE DEF At, WakeupInv, NoLostWakeup, txVars, readerVars, rxVars, isrVars, othersVars,
              Returns
  <1>1. UNCHANGED othersVars
    BY DEF Steps
  <1>2. CASE closing BY <1>1, <1>2 DEF closing
  <1>3. CASE return  BY <1>1, <1>3 DEF return
  <1> QED BY <1>1, <1>2, <1>3, WakeupWriting, WakeupReading DEF Steps, Step

\* A step of the handler, which leaves the program where it is.  It fills the
\* buffer only up to the place before rx_out, and turns an interrupt off only
\* with nothing to send or with bytes to be read.
LEMMA WakeupServe == WakeupInv /\ Serve => WakeupInv'
  <1> SUFFICES ASSUME WakeupInv, Serve PROVE WakeupInv'
    OBVIOUS
  <1> USE DEF WakeupInv, NoLostWakeup, programVars, txVars, readerVars, callVars, rxVars
  <1>0. UNCHANGED programVars
    BY DEF Serve
  <1>1. CASE Interrupt   BY <1>0, <1>1 DEF Interrupt
  <1>2. CASE isr_control BY <1>0, <1>2 DEF isr_control
  <1>3. CASE isr_read
    <2>1. Plus(rx_in, 1) \in 0 .. BUF_LEN - 1 /\ Plus(rx_in, 1) # rx_out
      BY <1>3, NextPlace DEF isr_read, RxFull
    <2>2. isr' = "read_done" => ~ravail'
      BY <1>3 DEF isr_read
    <2> QED BY <1>0, <1>3, <2>1, <2>2 DEF isr_read
  <1>4. CASE isr_full
    <2>1. rx_in # rx_out
      BY <1>4, NextPlace DEF isr_full, RxFull
    <2> QED BY <1>0, <1>4, <2>1 DEF isr_full
  <1>5. CASE isr_read_done  BY <1>0, <1>5 DEF isr_read_done
  <1>6. CASE isr_write      BY <1>0, <1>6 DEF isr_write
  <1>7. CASE isr_write_done BY <1>0, <1>7 DEF isr_write_done
  <1> QED BY <1>1, <1>2, <1>3, <1>4, <1>5, <1>6, <1>7 DEF Serve, Handler

\* The clock, the host and the device touch nothing of this.
LEMMA WakeupOthers == WakeupInv /\ (Alarm \/ Takes \/ Pauses \/ Host \/ UNCHANGED vars) => WakeupInv'
  BY DEF WakeupInv, NoLostWakeup, Alarm, Timeout, Takes, Pauses, Host, driverVars, programVars, vars,
         txVars, rxVars, readerVars, callVars, isrVars

\* Bytes never wait, in the transmit buffer or in the device, for an interrupt
\* that nobody will turn on: NoLostWakeup, for all sizes and programs.
THEOREM NeverLostWakeup == Spec => []NoLostWakeup
  <1>1. Init => WakeupInv
    BY WakeupInit
  <1>2. WakeupInv /\ [Next]_vars => WakeupInv'
    BY WakeupCalls, WakeupSteps, WakeupServe, WakeupOthers DEF Next
  <1>3. WakeupInv => NoLostWakeup
    BY DEF WakeupInv
  <1> QED BY <1>1, <1>2, <1>3, PTL DEF Spec

-----------------------------------------------------------------------------
(* The buffers. *)

\* TypeOK and what makes it inductive: a chunk about to be copied is one the
\* call still wants and ends inside its buffer, which has no wrap in it.
IndexTypes ==
    /\ tx_in \in 0 .. BUF_LEN - 1 /\ tx_out \in 0 .. BUF_LEN - 1
    /\ rx_in \in 0 .. BUF_LEN - 1 /\ rx_out \in 0 .. BUF_LEN - 1

ByteTypes ==
    /\ tx_buf \in [0 .. BUF_LEN - 1 -> 0 .. Values - 1]
    /\ rx_buf \in [0 .. BUF_LEN - 1 -> 0 .. Values - 1]
    /\ tx_fifo \in Seq(0 .. Values - 1) /\ rx_fifo \in Seq(0 .. Values - 1)
    /\ Len(tx_fifo) <= TxDepth
    /\ hostSends \in 0 .. Values - 1 /\ hostTakes \in 0 .. Values - 1
    /\ progWrites \in 0 .. Values - 1 /\ progReads \in 0 .. Values - 1

CallTypes ==
    /\ pc \in {"idle", "w_look", "w_copy", "w_publish", "w_kick", "w_spin", "w_check", "return",
               "r_look", "r_copy", "r_release", "r_spin", "r_check", "r_enable", "closing"}
    /\ flags \in BOOLEAN /\ moved \in BOOLEAN /\ left \in Nat /\ n \in Nat
    /\ index \in 0 .. BUF_LEN - 1 /\ timeout \in Nat
    /\ pc \in {"w_copy", "r_copy"} => n > 0 /\ n <= left
    /\ pc = "w_copy" => tx_in + n <= BUF_LEN
    /\ pc = "r_copy" => rx_out + n <= BUF_LEN

DeviceTypes ==
    /\ irq_enable \subseteq {"RE", "WE"} /\ host_inactive \in Nat
    /\ pause_irq \in BOOLEAN /\ AC \in BOOLEAN /\ connected \in BOOLEAN
    /\ isr \in {"out", "control", "read", "read_done", "write"} /\ ravail \in BOOLEAN
    /\ control \in [RI : BOOLEAN, WI : BOOLEAN, space : Nat]

TypeInv == IndexTypes /\ ByteTypes /\ CallTypes /\ DeviceTypes

\* The assumption on the constants, in the form the arithmetic needs.
LEMMA Sizes ==
    /\ BUF_LEN \in Nat /\ BUF_LEN > 1 /\ Values \in Nat /\ Values > 1
    /\ TxDepth \in Nat /\ INT_MAX \in Nat /\ INT_MAX > 2
    /\ WriteCounts \subseteq Nat /\ ReadSpaces \subseteq Nat /\ Timeouts \subseteq Nat
  BY UartAssumption

\* Any number has a place in a buffer, and is a byte, modulo its size.
LEMMA Modulo ==
    ASSUME NEW k \in Nat
    PROVE  k % BUF_LEN \in 0 .. BUF_LEN - 1 /\ k % Values \in 0 .. Values - 1
  <1>1. BUF_LEN \in Nat \ {0} /\ Values \in Nat \ {0}
    BY Sizes
  <1>2. k % BUF_LEN \in 0 .. BUF_LEN - 1
    BY <1>1
  <1>3. k % Values \in 0 .. Values - 1
    BY <1>1
  <1> QED BY <1>2, <1>3

\* What fits in one piece: from tx_in to the place before tx_out or to the end
\* of the buffer, and from rx_out to rx_in or to the end.
LEMMA Chunks ==
    ASSUME NEW in \in 0 .. BUF_LEN - 1, NEW out \in 0 .. BUF_LEN - 1
    PROVE  /\ TxChunk(in, out) \in Nat /\ in + TxChunk(in, out) <= BUF_LEN
           /\ RxChunk(in, out) \in Nat /\ out + RxChunk(in, out) <= BUF_LEN
  BY Sizes DEF TxChunk, RxChunk

\* What a step leaves alone keeps its part of the invariant.
LEMMA Frames ==
    ASSUME TypeInv
    PROVE  /\ UNCHANGED <<tx_in, tx_out, rx_in, rx_out>> => IndexTypes'
           /\ UNCHANGED <<tx_buf, rx_buf, tx_fifo, rx_fifo, hostSends, hostTakes, progWrites, progReads>>
                => ByteTypes'
           /\ UNCHANGED <<tx_in, rx_out, timeout, pc, flags, left, moved, index, n>> => CallTypes'
           /\ UNCHANGED <<irq_enable, host_inactive, pause_irq, AC, connected, isrVars>> => DeviceTypes'
  <1>1. UNCHANGED <<tx_in, tx_out, rx_in, rx_out>> => IndexTypes'
    BY DEF TypeInv, IndexTypes
  <1>2. UNCHANGED <<tx_buf, rx_buf, tx_fifo, rx_fifo, hostSends, hostTakes, progWrites, progReads>>
            => ByteTypes'
    BY DEF TypeInv, ByteTypes
  <1>3. UNCHANGED <<tx_in, rx_out, timeout, pc, flags, left, moved, index, n>> => CallTypes'
    BY DEF TypeInv, CallTypes
  <1>4. UNCHANGED <<irq_enable, host_inactive, pause_irq, AC, connected, isrVars>> => DeviceTypes'
    BY DEF TypeInv, DeviceTypes, isrVars
  <1> QED BY <1>1, <1>2, <1>3, <1>4

\* The types at start.
LEMMA TypeInit == Init => TypeInv
  <1> SUFFICES ASSUME Init PROVE TypeInv
    OBVIOUS
  <1>1. 0 \in 0 .. BUF_LEN - 1 /\ 0 \in 0 .. Values - 1 /\ timeout \in Nat
    BY UartAssumption, Sizes DEF Init
  <1>2. <<>> \in Seq(0 .. Values - 1) /\ Len(<<>>) = 0
    OBVIOUS
  <1>3. ByteTypes
    BY <1>1, <1>2, Sizes DEF Init, ByteTypes
  <1>4. DeviceTypes
    BY DEF Init, DeviceTypes, NoControl
  <1> QED BY <1>1, <1>3, <1>4 DEF Init, TypeInv, IndexTypes, CallTypes

\* A call begins.
LEMMA TypeCalls == TypeInv /\ Calls => TypeInv'
  <1> SUFFICES ASSUME TypeInv, Calls PROVE TypeInv'
    OBVIOUS
  <1> USE DEF txVars, readerVars, rxVars, isrVars, othersVars, deviceVars, hostVars
  <1>1. UNCHANGED othersVars
    BY DEF Calls
  <1>2. ASSUME CallTypes', UNCHANGED <<txVars, readerVars, irq_enable>> PROVE TypeInv'
    BY <1>1, <1>2, Frames DEF TypeInv
  <1>3. ASSUME NEW c \in WriteCounts, NEW b \in BOOLEAN, Write(c, b) PROVE TypeInv'
    <2>1. c \in Nat /\ 0 \in 0 .. BUF_LEN - 1
      BY Sizes
    <2>2. CallTypes'
      BY <1>3, <2>1 DEF Write, TypeInv, CallTypes
    <2> QED BY <1>2, <1>3, <2>2 DEF Write
  <1>4. ASSUME NEW s \in ReadSpaces, NEW b \in BOOLEAN, Read(s, b) PROVE TypeInv'
    <2>1. s \in Nat /\ 0 \in 0 .. BUF_LEN - 1
      BY Sizes
    <2>2. CallTypes'
      BY <1>4, <2>1 DEF Read, TypeInv, CallTypes
    <2> QED BY <1>2, <1>4, <2>2 DEF Read
  <1>5. ASSUME NEW b \in BOOLEAN, Close(b) PROVE TypeInv'
    BY <1>2, <1>5 DEF Close, TypeInv, CallTypes
  <1>6. ASSUME NEW t \in Timeouts, ioctl(t) PROVE TypeInv'
    BY <1>2, <1>6, Sizes DEF ioctl, callVars, TypeInv, CallTypes, At
  <1> QED BY <1>3, <1>4, <1>5, <1>6 DEF Calls, Call

\* A call goes from one place to another, or returns.
LEMMA Going ==
    ASSUME TypeInv, UNCHANGED <<tx_in, rx_out, timeout>>
    PROVE  /\ \A p \in {"return", "w_look", "w_check", "w_spin", "r_look", "r_check"} :
                Goto(p) => CallTypes'
           /\ Returns => CallTypes'
  <1>1. ASSUME NEW p \in {"return", "w_look", "w_check", "w_spin", "r_look", "r_check"}, Goto(p)
        PROVE  CallTypes'
    BY <1>1 DEF Goto, TypeInv, CallTypes
  <1>2. ASSUME Returns PROVE CallTypes'
    <2>1. 0 \in 0 .. BUF_LEN - 1
      BY Sizes
    <2> QED BY <1>2, <2>1 DEF Returns, TypeInv, CallTypes
  <1> QED BY <1>1, <1>2

\* A step of a write: it copies what it has seen to fit and moves tx_in on.
LEMMA TypeWriting ==
    ASSUME TypeInv, UNCHANGED othersVars,
           w_look \/ w_copy \/ w_publish \/ w_kick \/ w_spin \/ w_check
    PROVE  TypeInv'
  <1> USE DEF At, txVars, readerVars, rxVars, isrVars, othersVars, deviceVars, hostVars
  <1>1. CASE w_look
    <2>1. tx_in \in 0 .. BUF_LEN - 1 /\ tx_out \in 0 .. BUF_LEN - 1 /\ left \in Nat
      BY DEF TypeInv, IndexTypes, CallTypes
    <2>2. TxChunk(tx_in, tx_out) \in Nat /\ tx_in + TxChunk(tx_in, tx_out) <= BUF_LEN
      BY <2>1, Chunks
    <2>3. n' \in Nat /\ n' <= left /\ tx_in + n' <= BUF_LEN
      BY <1>1, <2>1, <2>2, Sizes DEF w_look, Smaller
    <2>4. CallTypes'
      BY <1>1, <2>1, <2>3 DEF w_look, TypeInv, CallTypes
    <2> QED BY <1>1, <2>4, Frames DEF w_look, TypeInv
  <1>2. CASE w_copy
    <2>1. n \in Nat /\ n > 0 /\ n <= left /\ left \in Nat /\ tx_in \in Nat /\ progWrites \in Nat
      BY <1>2, Sizes DEF w_copy, TypeInv, IndexTypes, ByteTypes, CallTypes
    <2>2. \A i \in tx_in .. tx_in + n - 1 : (progWrites + i - tx_in) % Values \in 0 .. Values - 1
      <3> SUFFICES ASSUME NEW i \in tx_in .. tx_in + n - 1
                   PROVE  (progWrites + i - tx_in) % Values \in 0 .. Values - 1
        OBVIOUS
      <3>1. progWrites + i - tx_in \in Nat
        BY <2>1
      <3> QED BY <3>1, Modulo
    <2>3. tx_buf' \in [0 .. BUF_LEN - 1 -> 0 .. Values - 1]
      BY <1>2, <2>2 DEF w_copy, TypeInv, ByteTypes
    <2>4. ByteTypes'
      BY <1>2, <2>3 DEF w_copy, TypeInv, ByteTypes
    <2>5. CallTypes'
      BY <1>2, <2>1 DEF w_copy, TypeInv, CallTypes
    <2> QED BY <1>2, <2>4, <2>5, Frames DEF w_copy, TypeInv
  <1>3. CASE w_publish
    <2>1. tx_in + n \in Nat /\ progWrites + n \in Nat
      BY Sizes DEF TypeInv, IndexTypes, ByteTypes, CallTypes
    <2>2. Plus(tx_in, n) \in 0 .. BUF_LEN - 1 /\ (progWrites + n) % Values \in 0 .. Values - 1
      BY <2>1, Modulo DEF Plus
    <2>3. IndexTypes' /\ ByteTypes'
      BY <1>3, <2>2 DEF w_publish, TypeInv, IndexTypes, ByteTypes
    <2>4. CallTypes'
      BY <1>3 DEF w_publish, TypeInv, CallTypes
    <2> QED BY <1>3, <2>3, <2>4, Frames DEF w_publish, TypeInv
  <1>4. CASE w_kick
    <2>1. DeviceTypes'
      BY <1>4 DEF w_kick, TypeInv, DeviceTypes
    <2> QED BY <1>4, <2>1, Frames, Going DEF w_kick, TypeInv
  <1>5. CASE w_spin  BY <1>5, Frames, Going DEF w_spin, TypeInv
  <1>6. CASE w_check BY <1>6, Frames, Going DEF w_check, TypeInv
  <1> QED BY <1>1, <1>2, <1>3, <1>4, <1>5, <1>6

\* A step of a read: the last byte of its chunk is inside the buffer.
LEMMA TypeReading ==
    ASSUME TypeInv, UNCHANGED othersVars,
           r_look \/ r_copy \/ r_release \/ r_spin \/ r_check \/ r_enable
    PROVE  TypeInv'
  <1> USE DEF At, txVars, readerVars, rxVars, isrVars, othersVars, deviceVars, hostVars
  <1>1. CASE r_look
    <2>1. rx_in \in 0 .. BUF_LEN - 1 /\ rx_out \in 0 .. BUF_LEN - 1 /\ left \in Nat
      BY DEF TypeInv, IndexTypes, CallTypes
    <2>2. RxChunk(rx_in, rx_out) \in Nat /\ rx_out + RxChunk(rx_in, rx_out) <= BUF_LEN
      BY <2>1, Chunks
    <2>3. n' \in Nat /\ n' <= left /\ rx_out + n' <= BUF_LEN
      BY <1>1, <2>1, <2>2, Sizes DEF r_look, Smaller
    <2>4. CallTypes'
      BY <1>1, <2>1, <2>3 DEF r_look, TypeInv, CallTypes
    <2> QED BY <1>1, <2>4, Frames DEF r_look, TypeInv
  <1>2. CASE r_copy
    <2>1. n \in Nat /\ n > 0 /\ n <= left /\ left \in Nat /\ rx_out + n - 1 \in 0 .. BUF_LEN - 1
      BY <1>2, Sizes DEF r_copy, TypeInv, IndexTypes, CallTypes
    <2>2. rx_buf[rx_out + n - 1] + 1 \in Nat
      BY <2>1 DEF TypeInv, ByteTypes
    <2>3. progReads' \in 0 .. Values - 1
      BY <1>2, <2>2, Modulo DEF r_copy
    <2>4. ByteTypes'
      BY <1>2, <2>3 DEF r_copy, TypeInv, ByteTypes
    <2>5. CallTypes'
      BY <1>2, <2>1 DEF r_copy, TypeInv, CallTypes
    <2> QED BY <1>2, <2>4, <2>5, Frames DEF r_copy, TypeInv
  <1>3. CASE r_release
    <2>1. rx_out + n \in Nat
      BY Sizes DEF TypeInv, IndexTypes, CallTypes
    <2>2. Plus(rx_out, n) \in 0 .. BUF_LEN - 1
      BY <2>1, Modulo DEF Plus
    <2>3. IndexTypes'
      BY <1>3, <2>2 DEF r_release, TypeInv, IndexTypes
    <2>4. CallTypes'
      BY <1>3 DEF r_release, TypeInv, CallTypes
    <2> QED BY <1>3, <2>3, <2>4, Frames DEF r_release, TypeInv
  <1>4. CASE r_spin   BY <1>4, Frames, Going DEF r_spin, TypeInv
  <1>5. CASE r_check  BY <1>5, Frames, Going DEF r_check, TypeInv
  <1>6. CASE r_enable
    <2>1. DeviceTypes'
      BY <1>6 DEF r_enable, TypeInv, DeviceTypes
    <2> QED BY <1>6, <2>1, Frames, Going DEF r_enable, TypeInv
  <1> QED BY <1>1, <1>2, <1>3, <1>4, <1>5, <1>6

\* The steps of the calls.
LEMMA TypeSteps == TypeInv /\ Steps => TypeInv'
  <1> SUFFICES ASSUME TypeInv, Steps PROVE TypeInv'
    OBVIOUS
  <1> USE DEF txVars, readerVars, rxVars, isrVars, othersVars, deviceVars, hostVars
  <1>1. UNCHANGED othersVars
    BY DEF Steps
  <1>2. CASE closing BY <1>1, <1>2, Frames, Going DEF closing, TypeInv
  <1>3. CASE return  BY <1>1, <1>3, Frames, Going DEF return, TypeInv
  <1> QED BY <1>1, <1>2, <1>3, TypeWriting, TypeReading DEF Steps, Step

\* A step of the handler.
LEMMA TypeServe == TypeInv /\ Serve => TypeInv'
  <1> SUFFICES ASSUME TypeInv, Serve PROVE TypeInv'
    OBVIOUS
  <1> USE DEF programVars, txVars, readerVars, callVars, rxVars, deviceVars, hostVars, isrVars
  <1>1. UNCHANGED programVars
    BY DEF Serve
  <1>2. CASE Interrupt
    <2>1. DeviceTypes'
      BY <1>1, <1>2 DEF Interrupt, TypeInv, DeviceTypes
    <2> QED BY <1>1, <1>2, <2>1, Frames DEF Interrupt, TypeInv
  <1>3. CASE isr_control
    <2>1. RI \in BOOLEAN /\ WI \in BOOLEAN /\ WSPACE \in Nat
      BY Sizes DEF RI, WI, WSPACE, TypeInv, ByteTypes, DeviceTypes
    <2>2. control' \in [RI : BOOLEAN, WI : BOOLEAN, space : Nat]
      <3>1. CASE RI \/ WI
        BY <1>3, <2>1, <3>1 DEF isr_control
      <3>2. CASE ~(RI \/ WI)
        <4>1. NoControl \in [RI : BOOLEAN, WI : BOOLEAN, space : Nat]
          BY DEF NoControl
        <4> QED BY <1>3, <3>2, <4>1 DEF isr_control
      <3> QED BY <3>1, <3>2
    <2>3. DeviceTypes'
      BY <1>1, <1>3, <2>1, <2>2 DEF isr_control, TypeInv, DeviceTypes
    <2> QED BY <1>1, <1>3, <2>3, Frames DEF isr_control, TypeInv
  <1>4. CASE isr_read
    <2>1. DeviceTypes'
      <3>1. ravail' = FALSE \/ ravail' = (Len(rx_fifo) > 1)
        BY <1>4 DEF isr_read
      <3>2. ravail' \in BOOLEAN
        <4> DEFINE more == Len(rx_fifo) > 1
        <4>1. more \in BOOLEAN
          OBVIOUS
        <4>2. ravail' = FALSE \/ ravail' = more
          BY <3>1
        <4> HIDE DEF more
        <4> QED BY <4>1, <4>2
      <3>3. isr' \in {"read", "read_done"}
        BY <1>4 DEF isr_read
      <3> QED BY <1>1, <1>4, <3>2, <3>3 DEF isr_read, TypeInv, DeviceTypes
    <2>2. CASE rx_fifo = <<>>
      BY <1>1, <1>4, <2>1, <2>2, Frames DEF isr_read, TypeInv
    <2>3. CASE rx_fifo # <<>>
      <3>1. Head(rx_fifo) \in 0 .. Values - 1 /\ Tail(rx_fifo) \in Seq(0 .. Values - 1)
        BY <2>3, HeadTailProperties DEF TypeInv, ByteTypes
      <3>2. Plus(rx_in, 1) \in 0 .. BUF_LEN - 1
        BY NextPlace DEF TypeInv, IndexTypes
      <3>3. IndexTypes' /\ ByteTypes'
        BY <1>1, <1>4, <2>3, <3>1, <3>2 DEF isr_read, TypeInv, IndexTypes, ByteTypes
      <3> QED BY <1>1, <1>4, <2>1, <3>3, Frames DEF isr_read, TypeInv
    <2> QED BY <2>2, <2>3
  <1>5. CASE isr_full
    <2>1. DeviceTypes'
      BY <1>1, <1>5 DEF isr_full, TypeInv, DeviceTypes
    <2> QED BY <1>1, <1>5, <2>1, Frames DEF isr_full, TypeInv
  <1>6. CASE isr_read_done
    <2>1. DeviceTypes'
      BY <1>1, <1>6 DEF isr_read_done, TypeInv, DeviceTypes
    <2> QED BY <1>1, <1>6, <2>1, Frames DEF isr_read_done, TypeInv
  <1>7. CASE isr_write
    <2>1. tx_buf[tx_out] \in 0 .. Values - 1 /\ Plus(tx_out, 1) \in 0 .. BUF_LEN - 1
      BY NextPlace DEF TypeInv, IndexTypes, ByteTypes
    <2>2. /\ Append(tx_fifo, tx_buf[tx_out]) \in Seq(0 .. Values - 1)
          /\ Len(Append(tx_fifo, tx_buf[tx_out])) = Len(tx_fifo) + 1 /\ Len(tx_fifo) \in Nat
      BY <2>1, AppendProperties, LenProperties DEF TypeInv, ByteTypes
    <2>3. Len(tx_fifo') <= TxDepth /\ tx_fifo' \in Seq(0 .. Values - 1)
      <3>1. CASE Len(tx_fifo) < TxDepth
        BY <1>7, <2>2, <3>1, Sizes DEF isr_write
      <3>2. CASE ~(Len(tx_fifo) < TxDepth)
        BY <1>7, <3>2 DEF isr_write, TypeInv, ByteTypes
      <3> QED BY <3>1, <3>2
    <2>4. IndexTypes' /\ ByteTypes'
      BY <1>1, <1>7, <2>1, <2>3 DEF isr_write, TypeInv, IndexTypes, ByteTypes
    <2>5. control' \in [RI : BOOLEAN, WI : BOOLEAN, space : Nat]
      BY <1>7 DEF isr_write, TypeInv, DeviceTypes
    <2>6. DeviceTypes'
      BY <1>1, <1>7, <2>5 DEF isr_write, TypeInv, DeviceTypes
    <2> QED BY <1>1, <1>7, <2>4, <2>6, Frames DEF isr_write, TypeInv
  <1>8. CASE isr_write_done
    <2>1. DeviceTypes'
      BY <1>1, <1>8 DEF isr_write_done, TypeInv, DeviceTypes
    <2> QED BY <1>1, <1>8, <2>1, Frames DEF isr_write_done, TypeInv
  <1> QED BY <1>2, <1>3, <1>4, <1>5, <1>6, <1>7, <1>8 DEF Serve, Handler

\* The clock, the host and the device.
LEMMA TypeOthers == TypeInv /\ (Alarm \/ Takes \/ Pauses \/ Host \/ UNCHANGED vars) => TypeInv'
  <1> SUFFICES ASSUME TypeInv, Alarm \/ Takes \/ Pauses \/ Host \/ UNCHANGED vars PROVE TypeInv'
    OBVIOUS
  <1> USE DEF driverVars, programVars, txVars, rxVars, readerVars, callVars, isrVars, timeVars,
              hostVars, deviceVars
  <1>1. CASE Alarm
    <2>1. DeviceTypes'
      <3>1. host_inactive' \in {0, host_inactive, host_inactive + 1}
        BY <1>1 DEF Alarm, Timeout
      <3>2. host_inactive' \in Nat
        BY <3>1 DEF TypeInv, DeviceTypes
      <3>3. AC' = FALSE \/ AC' = AC
        BY <1>1 DEF Alarm, Timeout
      <3> QED BY <1>1, <3>2, <3>3 DEF Alarm, Timeout, TypeInv, DeviceTypes
    <2> QED BY <1>1, <2>1, Frames DEF Alarm, Timeout, TypeInv
  <1>2. CASE Takes
    <2>1. /\ Head(tx_fifo) \in 0 .. Values - 1 /\ Tail(tx_fifo) \in Seq(0 .. Values - 1)
          /\ Len(Tail(tx_fifo)) = Len(tx_fifo) - 1 /\ Len(tx_fifo) \in Nat
      BY <1>2, HeadTailProperties, LenProperties DEF Takes, HostTake, TypeInv, ByteTypes
    <2>2. Head(tx_fifo) + 1 \in Nat
      BY <2>1
    <2>3. (Head(tx_fifo) + 1) % Values \in 0 .. Values - 1
      BY <2>2, Modulo
    <2>4. Len(tx_fifo') <= TxDepth
      <3>1. Len(tx_fifo) <= TxDepth /\ Len(tx_fifo') = Len(tx_fifo) - 1
        BY <1>2, <2>1 DEF Takes, HostTake, TypeInv, ByteTypes
      <3> QED BY <2>1, <3>1, Sizes
    <2>5. hostTakes' \in 0 .. Values - 1 /\ tx_fifo' \in Seq(0 .. Values - 1)
      BY <1>2, <2>1, <2>3 DEF Takes, HostTake
    <2>6. UNCHANGED <<tx_buf, rx_buf, rx_fifo, hostSends, progWrites, progReads>>
      BY <1>2 DEF Takes, HostTake
    <2>7. ByteTypes'
      BY <2>4, <2>5, <2>6 DEF TypeInv, ByteTypes
    <2> QED BY <1>2, <2>7, Frames DEF Takes, HostTake, TypeInv
  <1>3. CASE Pauses
    <2>1. DeviceTypes'
      BY <1>3 DEF Pauses, HostPause, TypeInv, DeviceTypes
    <2> QED BY <1>3, <2>1, Frames DEF Pauses, HostPause, TypeInv
  <1>4. CASE Host
    <2>1. hostSends + 1 \in Nat
      BY DEF TypeInv, ByteTypes
    <2>2. (hostSends + 1) % Values \in 0 .. Values - 1
      BY <2>1, Modulo
    <2>3. Append(rx_fifo, hostSends) \in Seq(0 .. Values - 1)
      BY AppendProperties DEF TypeInv, ByteTypes
    <2>4. ByteTypes'
      BY <1>4, <2>2, <2>3 DEF Host, Connect, Disconnect, HostSend, TypeInv, ByteTypes
    <2>5. DeviceTypes'
      BY <1>4 DEF Host, Connect, Disconnect, HostSend, TypeInv, DeviceTypes
    <2> QED BY <1>4, <2>4, <2>5, Frames DEF Host, TypeInv
  <1>5. CASE UNCHANGED vars BY <1>5, Frames DEF vars, TypeInv
  <1> QED BY <1>1, <1>2, <1>3, <1>4, <1>5

\* No index and no copy ever leaves its buffer, whatever the sizes, the counts
\* and the moment at which the handler comes in: TypeOK.
THEOREM TypeCorrect == Spec => []TypeOK
  <1>1. Init => TypeInv
    BY TypeInit
  <1>2. TypeInv /\ [Next]_vars => TypeInv'
    BY TypeCalls, TypeSteps, TypeServe, TypeOthers DEF Next
  <1>3. TypeInv => TypeOK
    BY DEF TypeInv, IndexTypes, ByteTypes, CallTypes, DeviceTypes, TypeOK
  <1> QED BY <1>1, <1>2, <1>3, PTL DEF Spec

-----------------------------------------------------------------------------
(* The bytes. *)

Place == 0 .. BUF_LEN - 1
Byte  == 0 .. Values - 1

\* Division by d.
LEMMA Division ==
    ASSUME NEW d \in Nat \ {0}, NEW a \in Nat
    PROVE  a \div d \in Nat /\ a % d \in 0 .. d - 1 /\ a = d * (a \div d) + (a % d)
  OBVIOUS

\* A multiple of the divisor leaves the remainder as it is.
LEMMA Remainder ==
    ASSUME NEW d \in Nat \ {0}, NEW q \in Int, NEW r \in 0 .. d - 1
    PROVE  (d * q + r) % d = r
  OBVIOUS

\* A number that has been reduced can be counted on from.
LEMMA CountOn ==
    ASSUME NEW a \in Nat, NEW b \in Nat
    PROVE  ((a % Values) + b) % Values = (a + b) % Values
  <1> DEFINE s == (a % Values) + b
  <1>1. Values \in Nat \ {0}
    BY Sizes
  <1>2. a = Values * (a \div Values) + (a % Values) /\ a \div Values \in Nat /\ a % Values \in Nat
    BY <1>1, Division
  <1>3. s \in Nat
    BY <1>2
  <1>4. s = Values * (s \div Values) + (s % Values) /\ s \div Values \in Nat /\ s % Values \in 0 .. Values - 1
    BY <1>1, <1>3, Division
  <1>5. a + b = Values * ((a \div Values) + (s \div Values)) + (s % Values)
    BY <1>1, <1>2, <1>4
  <1> HIDE DEF s
  <1>6. (a \div Values) + (s \div Values) \in Int
    BY <1>2, <1>4
  <1>7. (a + b) % Values = s % Values
    BY <1>1, <1>4, <1>5, <1>6, Remainder
  <1> QED BY <1>7 DEF s

\* Where the indexes go and what they are apart, without the division.
LEMMA Places ==
    ASSUME NEW i \in Place, NEW j \in Place, NEW k \in 0 .. BUF_LEN
    PROVE  /\ Plus(i, k) = IF i + k < BUF_LEN THEN i + k ELSE i + k - BUF_LEN
           /\ Used(i, j) = IF i >= j THEN i - j ELSE i - j + BUF_LEN
           /\ Plus(i, k) \in Place /\ Used(i, j) \in Place
  <1>1. BUF_LEN \in Nat \ {0} /\ i \in 0 .. BUF_LEN - 1 /\ j \in 0 .. BUF_LEN - 1
    BY Sizes DEF Place
  <1>2. Plus(i, k) = IF i + k < BUF_LEN THEN i + k ELSE i + k - BUF_LEN
    <2>1. CASE i + k < BUF_LEN
      <3>1. (BUF_LEN * 0 + (i + k)) % BUF_LEN = i + k
        BY <1>1, <2>1, Remainder
      <3> QED BY <1>1, <2>1, <3>1 DEF Plus
    <2>2. CASE i + k >= BUF_LEN
      <3>1. (BUF_LEN * 1 + (i + k - BUF_LEN)) % BUF_LEN = i + k - BUF_LEN
        BY <1>1, <2>2, Remainder
      <3> QED BY <1>1, <2>2, <3>1 DEF Plus
    <2> QED BY <1>1, <2>1, <2>2
  <1>3. Used(i, j) = IF i >= j THEN i - j ELSE i - j + BUF_LEN
    <2>1. CASE i >= j
      <3>1. (BUF_LEN * 0 + (i - j)) % BUF_LEN = i - j
        BY <1>1, <2>1, Remainder
      <3> QED BY <1>1, <2>1, <3>1 DEF Used
    <2>2. CASE i < j
      <3>1. (BUF_LEN * (-1) + (i - j + BUF_LEN)) % BUF_LEN = i - j + BUF_LEN
        BY <1>1, <2>2, Remainder
      <3>2. BUF_LEN * (-1) + (i - j + BUF_LEN) = i - j
        BY <1>1
      <3> QED BY <1>1, <2>2, <3>1, <3>2 DEF Used
    <2> QED BY <1>1, <2>1, <2>2
  <1> QED BY <1>1, <1>2, <1>3 DEF Place

\* The contents of a ring buffer are the bytes at the places from out on.
LEMMA Bytes ==
    ASSUME NEW buf \in [Place -> Byte], NEW in \in Place, NEW out \in Place
    PROVE  /\ Contents(buf, in, out) \in Seq(Byte)
           /\ Len(Contents(buf, in, out)) = Used(in, out)
           /\ \A k \in 1 .. Used(in, out) : Contents(buf, in, out)[k] = buf[Plus(out, k - 1)]
  <1>0. 0 \in 0 .. BUF_LEN
    BY Sizes
  <1>1. Used(in, out) \in 0 .. BUF_LEN - 1
    BY <1>0, Places DEF Place
  <1>2. \A k \in 1 .. Used(in, out) : buf[Plus(out, k - 1)] \in Byte
    <2> SUFFICES ASSUME NEW k \in 1 .. Used(in, out) PROVE buf[Plus(out, k - 1)] \in Byte
      OBVIOUS
    <2>1. k - 1 \in 0 .. BUF_LEN
      BY <1>1, Sizes
    <2>2. Plus(out, k - 1) \in Place
      BY <2>1, Places
    <2> QED BY <2>2
  <1>3. Used(in, out) \in Nat
    BY <1>1, Sizes
  <1> HIDE DEF Byte, Place
  <1> QED BY <1>2, <1>3 DEF Contents

\* A buffer's bytes up to a place within it, and those from there on.
LEMMA Splitting ==
    ASSUME NEW buf \in [Place -> Byte],
           NEW in \in Place, NEW mid \in Place, NEW out \in Place, Used(mid, out) <= Used(in, out)
    PROVE  /\ Used(in, mid) = Used(in, out) - Used(mid, out)
           /\ Contents(buf, in, out) = Contents(buf, mid, out) \o Contents(buf, in, mid)
  <1> DEFINE s == Contents(buf, in, out)
             p == Contents(buf, mid, out)
             r == Contents(buf, in, mid)
  <1>0. 0 \in 0 .. BUF_LEN
    BY Sizes
  <1>1. Used(in, mid) = Used(in, out) - Used(mid, out)
    <2>1. Used(in, mid) = IF in >= mid THEN in - mid ELSE in - mid + BUF_LEN
      BY <1>0, Places
    <2>2. Used(in, out) = IF in >= out THEN in - out ELSE in - out + BUF_LEN
      BY <1>0, Places
    <2>3. Used(mid, out) = IF mid >= out THEN mid - out ELSE mid - out + BUF_LEN
      BY <1>0, Places
    <2> QED BY <2>1, <2>2, <2>3, Sizes DEF Place
  <1>2. /\ Used(mid, out) \in 0 .. BUF_LEN - 1 /\ Used(in, mid) \in 0 .. BUF_LEN - 1
        /\ Used(in, out) \in 0 .. BUF_LEN - 1
    BY <1>0, Places DEF Place
  <1>3. /\ s \in Seq(Byte) /\ Len(s) = Used(in, out)
        /\ p \in Seq(Byte) /\ Len(p) = Used(mid, out)
        /\ r \in Seq(Byte) /\ Len(r) = Used(in, mid)
    BY Bytes
  <1>4. /\ p \o r \in Seq(Byte) /\ Len(p \o r) = Len(p) + Len(r)
        /\ \A k \in 1 .. Len(p) + Len(r) : (p \o r)[k] = IF k <= Len(p) THEN p[k] ELSE r[k - Len(p)]
    BY <1>3, ConcatProperties
  <1>5. ASSUME NEW k \in 1 .. Used(in, out) PROVE s[k] = (p \o r)[k]
    <2>1. s[k] = buf[Plus(out, k - 1)]
      BY Bytes
    <2>2. k \in 1 .. Len(p) + Len(r) /\ k \in Int
      BY <1>1, <1>2, <1>3, Sizes
    <2>3. CASE k <= Used(mid, out)
      <3>1. p[k] = buf[Plus(out, k - 1)]
        <4>1. k \in 1 .. Used(mid, out)
          BY <2>3
        <4> QED BY <4>1, Bytes
      <3> QED BY <1>3, <1>4, <2>1, <2>2, <2>3, <3>1
    <2>4. CASE ~(k <= Used(mid, out))
      <3> DEFINE j == k - Used(mid, out)
      <3>1. j \in 1 .. Used(in, mid)
        BY <1>1, <1>2, <2>4, Sizes
      <3>2. r[j] = buf[Plus(mid, j - 1)]
        BY <3>1, Bytes
      <3>3. j - 1 \in 0 .. BUF_LEN /\ k - 1 \in 0 .. BUF_LEN
        BY <1>2, <3>1, Sizes
      <3>4. Plus(mid, j - 1) = Plus(out, k - 1)
        <4>1. Plus(mid, j - 1) = IF mid + (j - 1) < BUF_LEN THEN mid + (j - 1) ELSE mid + (j - 1) - BUF_LEN
          BY <3>3, Places
        <4>2. Plus(out, k - 1) = IF out + (k - 1) < BUF_LEN THEN out + (k - 1) ELSE out + (k - 1) - BUF_LEN
          BY <3>3, Places
        <4>3. Used(mid, out) = IF mid >= out THEN mid - out ELSE mid - out + BUF_LEN
          BY <1>0, Places
        <4>4. Used(in, out) \in Int /\ k <= Used(in, out) /\ Used(in, out) < BUF_LEN
          BY <1>2, Sizes
        <4> QED BY <4>1, <4>2, <4>3, <4>4, <2>4, Sizes DEF Place
      <3>5. (p \o r)[k] = r[j]
        BY <1>3, <1>4, <2>2, <2>4
      <3> QED BY <2>1, <3>2, <3>4, <3>5
    <2> QED BY <2>3, <2>4
  <1>6. Len(s) = Len(p \o r)
    BY <1>1, <1>2, <1>3, <1>4, Sizes
  <1> HIDE DEF s, p, r
  <1>7. s = p \o r
    BY <1>3, <1>4, <1>5, <1>6, SeqEqual
  <1> QED BY <1>1, <1>7 DEF s, p, r

\* Bytes outside of a buffer's contents may change.
LEMMA Outside ==
    ASSUME NEW buf \in [Place -> Byte], NEW new \in [Place -> Byte],
           NEW in \in Place, NEW out \in Place,
           \A k \in 1 .. Used(in, out) : new[Plus(out, k - 1)] = buf[Plus(out, k - 1)]
    PROVE  Contents(new, in, out) = Contents(buf, in, out)
  BY DEF Contents

\* Bytes that go on from the last ones can be put behind them, and bytes can
\* be taken from the front.
LEMMA PutBehind ==
    ASSUME NEW q \in Seq(Byte), NEW r \in Seq(Byte), NEW first \in Byte, NEW next \in Byte,
           Consecutive(q, first, next), \A i \in 1 .. Len(r) : r[i] = (next + i - 1) % Values
    PROVE  Consecutive(q \o r, first, (next + Len(r)) % Values)
  <1>1. /\ q \o r \in Seq(Byte) /\ Len(q \o r) = Len(q) + Len(r)
        /\ \A k \in 1 .. Len(q) + Len(r) : (q \o r)[k] = IF k <= Len(q) THEN q[k] ELSE r[k - Len(q)]
    BY ConcatProperties
  <1>2. /\ Len(q) \in Nat /\ Len(r) \in Nat /\ DOMAIN q = 1 .. Len(q)
        /\ DOMAIN (q \o r) = 1 .. Len(q) + Len(r)
    BY <1>1, LenProperties
  <1>3. first \in Nat /\ next = (first + Len(q)) % Values /\ first + Len(q) \in Nat
    BY <1>2, Sizes DEF Consecutive, Byte
  <1>4. (next + Len(r)) % Values = (first + (Len(q) + Len(r))) % Values
    BY <1>2, <1>3, CountOn
  <1>5. ASSUME NEW k \in 1 .. Len(q) + Len(r) PROVE (q \o r)[k] = (first + k - 1) % Values
    <2>1. CASE k <= Len(q)
      <3>1. k \in 1 .. Len(q)
        BY <1>2, <2>1
      <3> QED BY <1>1, <1>2, <2>1, <3>1 DEF Consecutive
    <2>2. CASE ~(k <= Len(q))
      <3>1. k - Len(q) \in 1 .. Len(r) /\ k - Len(q) - 1 \in Nat
        BY <1>2, <2>2
      <3>2. (q \o r)[k] = (next + (k - Len(q)) - 1) % Values
        BY <1>1, <2>2, <3>1
      <3>3. next \in Nat /\ k \in Nat
        BY <1>2, Sizes DEF Byte
      <3>4. (next + (k - Len(q)) - 1) % Values = (next + (k - Len(q) - 1)) % Values
        BY <1>2, <3>3
      <3>5. (next + (k - Len(q) - 1)) % Values = (first + Len(q) + (k - Len(q) - 1)) % Values
        BY <1>3, <3>1, CountOn
      <3>6. first + Len(q) + (k - Len(q) - 1) = first + k - 1
        BY <1>2, <1>3, <3>3
      <3> QED BY <3>2, <3>4, <3>5, <3>6
    <2> QED BY <2>1, <2>2
  <1> QED BY <1>1, <1>2, <1>4, <1>5 DEF Consecutive

\* What is taken from the front of consecutive bytes is consecutive, and so is
\* what it leaves.
LEMMA TakeAway ==
    ASSUME NEW q \in Seq(Byte), NEW r \in Seq(Byte), NEW first \in Byte, NEW next \in Byte,
           Consecutive(q \o r, first, next)
    PROVE  /\ Consecutive(r, (first + Len(q)) % Values, next)
           /\ \A i \in 1 .. Len(q) : q[i] = (first + i - 1) % Values
  <1>1. /\ q \o r \in Seq(Byte) /\ Len(q \o r) = Len(q) + Len(r)
        /\ \A k \in 1 .. Len(q) + Len(r) : (q \o r)[k] = IF k <= Len(q) THEN q[k] ELSE r[k - Len(q)]
    BY ConcatProperties
  <1>2. /\ Len(q) \in Nat /\ Len(r) \in Nat /\ DOMAIN r = 1 .. Len(r)
        /\ DOMAIN (q \o r) = 1 .. Len(q) + Len(r)
    BY <1>1, LenProperties
  <1>3. first \in Nat /\ first + Len(q) \in Nat
    BY <1>2, Sizes DEF Byte
  <1>4. next = (first + (Len(q) + Len(r))) % Values
    BY <1>1 DEF Consecutive
  <1>5. next = (((first + Len(q)) % Values) + Len(r)) % Values
    <2>1. (((first + Len(q)) % Values) + Len(r)) % Values = (first + Len(q) + Len(r)) % Values
      BY <1>2, <1>3, CountOn
    <2> QED BY <1>2, <1>3, <1>4, <2>1
  <1>6. ASSUME NEW i \in 1 .. Len(q) PROVE q[i] = (first + i - 1) % Values
    <2>1. i \in 1 .. Len(q) + Len(r) /\ i <= Len(q)
      BY <1>2
    <2> QED BY <1>1, <1>2, <2>1 DEF Consecutive
  <1>7. ASSUME NEW k \in 1 .. Len(r) PROVE r[k] = (((first + Len(q)) % Values) + k - 1) % Values
    <2>1. k \in Nat /\ k - 1 \in Nat /\ Len(q) + k \in 1 .. Len(q) + Len(r) /\ ~(Len(q) + k <= Len(q))
          /\ Len(q) + k - Len(q) = k
      BY <1>2
    <2>2. r[k] = (first + (Len(q) + k) - 1) % Values
      BY <1>1, <1>2, <2>1 DEF Consecutive
    <2>3. (((first + Len(q)) % Values) + (k - 1)) % Values = (first + Len(q) + (k - 1)) % Values
      BY <1>3, <2>1, CountOn
    <2>4. (first + Len(q)) % Values \in Int
      BY <1>3, Sizes
    <2>5. /\ ((first + Len(q)) % Values) + (k - 1) = ((first + Len(q)) % Values) + k - 1
          /\ first + Len(q) + (k - 1) = first + (Len(q) + k) - 1
      BY <1>2, <1>3, <2>1, <2>4
    <2> QED BY <2>2, <2>3, <2>5
  <1> QED BY <1>2, <1>5, <1>6, <1>7 DEF Consecutive

\* How many bytes there are after the indexes have moved.
LEMMA Moves ==
    ASSUME NEW in \in Place, NEW out \in Place, NEW m \in Place
    PROVE  /\ Used(in, out) + m < BUF_LEN => Used(Plus(in, m), out) = Used(in, out) + m
           /\ Used(Plus(out, m), out) = m
           /\ Plus(in, 1) # out => Used(in, out) + 1 < BUF_LEN
           /\ in # out <=> Used(in, out) > 0
           /\ \A k \in 1 .. Used(in, out) : Plus(out, k - 1) # in
  <1>1. 0 \in 0 .. BUF_LEN /\ 1 \in 0 .. BUF_LEN /\ m \in 0 .. BUF_LEN /\ m \in 0 .. BUF_LEN - 1
        /\ in \in 0 .. BUF_LEN - 1 /\ out \in 0 .. BUF_LEN - 1 /\ BUF_LEN \in Nat
    BY Sizes DEF Place
  <1>2. Used(in, out) = IF in >= out THEN in - out ELSE in - out + BUF_LEN
    BY <1>1, Places
  <1>3. /\ Plus(in, m) = IF in + m < BUF_LEN THEN in + m ELSE in + m - BUF_LEN
        /\ Plus(out, m) = IF out + m < BUF_LEN THEN out + m ELSE out + m - BUF_LEN
        /\ Plus(in, 1) = IF in + 1 < BUF_LEN THEN in + 1 ELSE in + 1 - BUF_LEN
        /\ Plus(in, m) \in Place /\ Plus(out, m) \in Place
    BY <1>1, Places
  <1>4. /\ Used(Plus(in, m), out) = IF Plus(in, m) >= out THEN Plus(in, m) - out
                                                        ELSE Plus(in, m) - out + BUF_LEN
        /\ Used(Plus(out, m), out) = IF Plus(out, m) >= out THEN Plus(out, m) - out
                                                        ELSE Plus(out, m) - out + BUF_LEN
    BY <1>1, <1>3, Places
  <1>5. Used(in, out) + m < BUF_LEN => Used(Plus(in, m), out) = Used(in, out) + m
    BY <1>1, <1>2, <1>3, <1>4
  <1>6. Used(Plus(out, m), out) = m
    BY <1>1, <1>3, <1>4
  <1>7. Plus(in, 1) # out => Used(in, out) + 1 < BUF_LEN
    BY <1>1, <1>2, <1>3
  <1>8. in # out <=> Used(in, out) > 0
    BY <1>1, <1>2
  <1>9. ASSUME NEW k \in 1 .. Used(in, out) PROVE Plus(out, k - 1) # in
    <2>1. k - 1 \in 0 .. BUF_LEN /\ k \in Int /\ k <= Used(in, out)
      BY <1>1, <1>2
    <2>2. Plus(out, k - 1) = IF out + (k - 1) < BUF_LEN THEN out + (k - 1) ELSE out + (k - 1) - BUF_LEN
      BY <2>1, Places
    <2> QED BY <1>1, <1>2, <2>1, <2>2
  <1> QED BY <1>5, <1>6, <1>7, <1>8, <1>9

\* Three runs of bytes may be taken together either way.
LEMMA Regroup ==
    ASSUME NEW q \in Seq(Byte), NEW r \in Seq(Byte), NEW t \in Seq(Byte)
    PROVE  (q \o r) \o t = q \o (r \o t) /\ q \o r \in Seq(Byte)
  BY ConcatAssociative, ConcatProperties

\* A buffer whose indices are one place apart holds one byte.
LEMMA OneByte ==
    ASSUME NEW buf \in [Place -> Byte], NEW out \in Place
    PROVE  Contents(buf, Plus(out, 1), out) = <<buf[out]>>
  <1>1. 0 \in 0 .. BUF_LEN /\ 1 \in 0 .. BUF_LEN /\ 1 \in Place /\ out \in Nat /\ out < BUF_LEN
    BY Sizes DEF Place
  <1>2. Plus(out, 0) = out /\ Plus(out, 1) \in Place /\ Used(Plus(out, 1), out) = 1
    BY <1>1, Places, Moves, Sizes
  <1>3. /\ Contents(buf, Plus(out, 1), out) \in Seq(Byte) /\ Len(Contents(buf, Plus(out, 1), out)) = 1
        /\ Contents(buf, Plus(out, 1), out)[1] = buf[out]
    <2>1. 1 \in 1 .. Used(Plus(out, 1), out) /\ 1 - 1 = 0
      BY <1>2
    <2>2. /\ Contents(buf, Plus(out, 1), out) \in Seq(Byte) /\ Len(Contents(buf, Plus(out, 1), out)) = 1
          /\ Contents(buf, Plus(out, 1), out)[1] = buf[Plus(out, 1 - 1)]
      <3> HIDE DEF Byte, Place
      <3> QED BY <1>2, <2>1, Bytes
    <2> QED BY <1>2, <2>1, <2>2
  <1>4. <<buf[out]>> \in Seq(Byte) /\ Len(<<buf[out]>>) = 1 /\ <<buf[out]>>[1] = buf[out]
    OBVIOUS
  <1> HIDE DEF Byte
  <1> QED BY <1>3, <1>4, SeqEqual

\* A sequence is its first byte and the others.
LEMMA FirstByte ==
    ASSUME NEW q \in Seq(Byte), q # <<>>
    PROVE  q = <<Head(q)>> \o Tail(q) /\ Head(q) \in Byte /\ Tail(q) \in Seq(Byte)
  <1>1. /\ Head(q) \in Byte /\ Tail(q) \in Seq(Byte) /\ Len(Tail(q)) = Len(q) - 1
        /\ \A i \in 1 .. Len(Tail(q)) : Tail(q)[i] = q[i + 1]
    BY HeadTailProperties
  <1>2. Len(q) \in Nat /\ Len(q) > 0 /\ Head(q) = q[1]
    BY EmptySeq
  <1>3. <<Head(q)>> \in Seq(Byte) /\ Len(<<Head(q)>>) = 1 /\ <<Head(q)>>[1] = Head(q)
    BY <1>1
  <1>4. /\ <<Head(q)>> \o Tail(q) \in Seq(Byte) /\ Len(<<Head(q)>> \o Tail(q)) = Len(q)
        /\ \A k \in 1 .. Len(q) : (<<Head(q)>> \o Tail(q))[k] = IF k <= 1 THEN <<Head(q)>>[k] ELSE Tail(q)[k - 1]
    <2> DEFINE h == <<Head(q)>>
               t == Tail(q)
    <2>1. h \in Seq(Byte) /\ t \in Seq(Byte) /\ Len(h) = 1 /\ Len(t) = Len(q) - 1
      BY <1>1, <1>3
    <2> HIDE DEF h, t
    <2>2. /\ h \o t \in Seq(Byte) /\ Len(h \o t) = Len(h) + Len(t)
          /\ \A k \in 1 .. Len(h) + Len(t) : (h \o t)[k] = IF k <= Len(h) THEN h[k] ELSE t[k - Len(h)]
      BY <2>1, ConcatProperties
    <2>3. Len(h) + Len(t) = Len(q)
      BY <1>2, <2>1
    <2>4. \A k \in 1 .. Len(q) : (h \o t)[k] = IF k <= 1 THEN h[k] ELSE t[k - 1]
      BY <2>1, <2>2, <2>3
    <2> QED BY <2>2, <2>3, <2>4 DEF h, t
  <1>5. ASSUME NEW k \in 1 .. Len(q) PROVE q[k] = (<<Head(q)>> \o Tail(q))[k]
    <2>1. CASE k = 1
      BY <1>2, <1>3, <1>4, <2>1
    <2>2. CASE k # 1
      <3>1. k - 1 \in 1 .. Len(Tail(q)) /\ ~(k <= 1) /\ k - 1 + 1 = k
        BY <1>1, <1>2, <2>2
      <3> QED BY <1>1, <1>4, <3>1
    <2> QED BY <2>1, <2>2
  <1> HIDE DEF Byte
  <1> QED BY <1>1, <1>4, <1>5, SeqEqual

\* What the call has yet to give back of the receive buffer.
RxFirst == IF pc = "r_release" THEN Plus(rx_out, n) ELSE rx_out

\* BytesInOrder and what makes it inductive: the chunk a write copies is free
\* until it is published and then holds the bytes that come next, although
\* the handler moves tx_out meanwhile; the chunk a read copies is filled until
\* it is released; and the device has the space that the handler has read.
OutputInv ==
    /\ Consecutive(Output, hostTakes, progWrites)
    /\ pc \in {"w_copy", "w_publish"} => tx_in + n <= BUF_LEN /\ Used(tx_in, tx_out) + n < BUF_LEN
    /\ pc = "w_publish" => \A i \in 1 .. n : tx_buf[tx_in + i - 1] = (progWrites + i - 1) % Values

SpaceInv == control.space + Len(tx_fifo) <= TxDepth

InputInv ==
    /\ Consecutive(Input, progReads, hostSends)
    /\ pc \in {"r_copy", "r_release"} => n > 0 /\ rx_out + n <= BUF_LEN /\ n <= Used(rx_in, rx_out)

OrderInv == OutputInv /\ SpaceInv /\ InputInv

\* The types the proofs below need.
LEMMA BufferTypes ==
    ASSUME TypeInv
    PROVE  /\ tx_in \in Place /\ tx_out \in Place /\ rx_in \in Place /\ rx_out \in Place
           /\ tx_buf \in [Place -> Byte] /\ rx_buf \in [Place -> Byte]
           /\ tx_fifo \in Seq(Byte) /\ rx_fifo \in Seq(Byte)
           /\ hostSends \in Byte /\ hostTakes \in Byte /\ progWrites \in Byte /\ progReads \in Byte
           /\ n \in Nat
  BY DEF TypeInv, IndexTypes, ByteTypes, CallTypes, Place, Byte

\* What a step leaves alone keeps its part of the invariant.
LEMMA OrderFrames ==
    ASSUME OrderInv
    PROVE  /\ UNCHANGED <<tx_in, tx_out, tx_buf, tx_fifo, hostTakes, progWrites>> =>
                ((UNCHANGED <<pc, n>> \/ pc' \notin {"w_copy", "w_publish"}) => OutputInv')
           /\ UNCHANGED <<control, tx_fifo>> => SpaceInv'
           /\ UNCHANGED <<rx_in, rx_out, rx_buf, rx_fifo, hostSends, progReads>> =>
                ((UNCHANGED <<pc, n>> \/ {pc, pc'} \cap {"r_copy", "r_release"} = {}) => InputInv')
  <1>1. ASSUME UNCHANGED <<tx_in, tx_out, tx_buf, tx_fifo, hostTakes, progWrites>>,
               UNCHANGED <<pc, n>> \/ pc' \notin {"w_copy", "w_publish"}
        PROVE  OutputInv'
    <2>1. Output' = Output
      BY <1>1 DEF Output
    <2> QED BY <1>1, <2>1 DEF OrderInv, OutputInv
  <1>2. ASSUME UNCHANGED <<rx_in, rx_out, rx_buf, rx_fifo, hostSends, progReads>>,
               UNCHANGED <<pc, n>> \/ {pc, pc'} \cap {"r_copy", "r_release"} = {}
        PROVE  InputInv'
    <2>1. Input' = Input
      BY <1>2 DEF Input
    <2> QED BY <1>2, <2>1 DEF OrderInv, InputInv
  <1>3. UNCHANGED <<control, tx_fifo>> => SpaceInv'
    BY DEF OrderInv, SpaceInv
  <1> QED BY <1>1, <1>2, <1>3

\* At start nothing is under way in either direction.
LEMMA OrderInit == Init => OrderInv
  <1> SUFFICES ASSUME Init PROVE OrderInv
    OBVIOUS
  <1>1. TypeInv
    BY TypeInit
  <1>2. 0 \in 0 .. BUF_LEN /\ 0 \in Place /\ 0 \in Byte
    BY Sizes DEF Place, Byte
  <1>3. Used(0, 0) = 0
    BY <1>2, Places DEF Place
  <1>4. Contents(tx_buf, 0, 0) = <<>> /\ Contents(rx_buf, 0, 0) = <<>>
    <2>1. /\ Contents(tx_buf, 0, 0) \in Seq(Byte) /\ Len(Contents(tx_buf, 0, 0)) = 0
          /\ Contents(rx_buf, 0, 0) \in Seq(Byte) /\ Len(Contents(rx_buf, 0, 0)) = 0
      BY <1>1, <1>2, <1>3, BufferTypes, Bytes
    <2> QED BY <2>1, EmptySeq
  <1>5. <<>> \o <<>> = <<>>
    BY EmptySeq, ConcatEmptySeq
  <1>6. Output = <<>> /\ Input = <<>>
    BY <1>4, <1>5 DEF Init, Output, Input
  <1>7. Consecutive(<<>>, 0, 0)
    <2>1. 0 % Values = 0
      <3>1. (Values * 0 + 0) % Values = 0
        BY Sizes, Remainder
      <3> QED BY <3>1, Sizes
    <2> QED BY <2>1 DEF Consecutive
  <1> QED BY <1>6, <1>7, Sizes DEF Init, OrderInv, OutputInv, SpaceInv, InputInv, NoControl

\* A call begins.
LEMMA OrderCalls == TypeInv /\ OrderInv /\ Calls => OrderInv'
  <1> SUFFICES ASSUME TypeInv, OrderInv, Calls PROVE OrderInv'
    OBVIOUS
  <1>1. /\ UNCHANGED <<tx_in, tx_out, tx_buf, tx_fifo, hostTakes, progWrites, control>>
        /\ UNCHANGED <<rx_in, rx_out, rx_buf, rx_fifo, hostSends, progReads>>
    BY DEF Calls, Call, Write, Read, Close, ioctl, othersVars, rxVars, deviceVars, hostVars, isrVars,
           txVars, readerVars
  <1>2. pc = "idle" /\ pc' \in {"idle", "w_look", "r_look", "closing"}
    BY DEF Calls, Call, Write, Read, Close, ioctl, callVars, At
  <1> QED BY <1>1, <1>2, OrderFrames DEF OrderInv

\* What fits still fits when it is less.
LEMMA LessFits ==
    ASSUME NEW a \in Int, NEW b \in Int, NEW c \in Int, NEW k \in Int, k <= c
    PROVE  (a + c <= b => a + k <= b) /\ (a + c < b => a + k < b) /\ (c <= a => k <= a)
  OBVIOUS

\* A write sees what fits.
LEMMA OrderLook == TypeInv /\ OrderInv /\ w_look /\ UNCHANGED othersVars => OrderInv'
  <1> SUFFICES ASSUME TypeInv, OrderInv, w_look, UNCHANGED othersVars PROVE OrderInv'
    OBVIOUS
  <1> USE DEF othersVars, rxVars, deviceVars, hostVars, isrVars, txVars, readerVars
  <1>1. /\ UNCHANGED <<tx_in, tx_out, tx_buf, tx_fifo, hostTakes, progWrites, control>>
        /\ UNCHANGED <<rx_in, rx_out, rx_buf, rx_fifo, hostSends, progReads>>
    BY DEF w_look
  <1>2. pc = "w_look" /\ pc' \in {"w_kick", "w_copy"} /\ n' = Smaller(TxChunk(tx_in, tx_out), left)
    BY DEF w_look, At
  <1>3. tx_in + n' <= BUF_LEN /\ Used(tx_in, tx_out) + n' < BUF_LEN
    <2>1. tx_in \in 0 .. BUF_LEN - 1 /\ tx_out \in 0 .. BUF_LEN - 1 /\ 0 \in 0 .. BUF_LEN /\ left \in Nat
      BY Sizes DEF TypeInv, IndexTypes, CallTypes
    <2>2. Used(tx_in, tx_out) = IF tx_in >= tx_out THEN tx_in - tx_out ELSE tx_in - tx_out + BUF_LEN
      BY <2>1, Places DEF Place
    <2>3. /\ tx_in + TxChunk(tx_in, tx_out) <= BUF_LEN /\ TxChunk(tx_in, tx_out) \in Nat
          /\ Used(tx_in, tx_out) + TxChunk(tx_in, tx_out) < BUF_LEN
      BY <2>1, <2>2, Sizes DEF TxChunk
    <2>4. n' \in Nat /\ n' <= TxChunk(tx_in, tx_out)
      BY <1>2, <2>1, <2>3 DEF Smaller
    <2>5. Used(tx_in, tx_out) \in Int
      BY <2>1, <2>2, Sizes
    <2> DEFINE u == Used(tx_in, tx_out)
               c == TxChunk(tx_in, tx_out)
    <2>6. u \in Int /\ c \in Int /\ tx_in + c <= BUF_LEN /\ u + c < BUF_LEN /\ n' <= c
      BY <2>3, <2>4, <2>5
    <2> HIDE DEF u, c
    <2>7. tx_in \in Int /\ n' \in Int /\ BUF_LEN \in Int
      BY <2>1, <2>4, Sizes
    <2>8. tx_in + n' <= BUF_LEN /\ u + n' < BUF_LEN
      BY <2>6, <2>7, LessFits
    <2> QED BY <2>8 DEF u
  <1>4. OutputInv'
    BY <1>1, <1>2, <1>3 DEF OrderInv, OutputInv, Output
  <1> QED BY <1>1, <1>2, <1>4, OrderFrames DEF OrderInv

\* A write copies into places that hold no byte.
LEMMA OrderCopy == TypeInv /\ TypeInv' /\ OrderInv /\ w_copy /\ UNCHANGED othersVars => OrderInv'
  <1> SUFFICES ASSUME TypeInv, TypeInv', OrderInv, w_copy, UNCHANGED othersVars PROVE OrderInv'
    OBVIOUS
  <1> USE DEF othersVars, rxVars, deviceVars, hostVars, isrVars, readerVars
  <1>1. /\ UNCHANGED <<tx_in, tx_out, tx_fifo, hostTakes, progWrites, control, n>>
        /\ UNCHANGED <<rx_in, rx_out, rx_buf, rx_fifo, hostSends, progReads>>
        /\ pc = "w_copy" /\ pc' = "w_publish"
        /\ tx_buf' = [i \in 0 .. BUF_LEN - 1 |->
                        IF i \in tx_in .. tx_in + n - 1 THEN (progWrites + i - tx_in) % Values ELSE tx_buf[i]]
    BY DEF w_copy, At
  <1>2. /\ tx_in \in Place /\ tx_out \in Place /\ tx_buf \in [Place -> Byte] /\ tx_buf' \in [Place -> Byte]
        /\ n \in Nat /\ progWrites \in Byte
    <2>1. tx_buf' \in [Place -> Byte]
      BY DEF TypeInv, ByteTypes, Place, Byte
    <2> QED BY <2>1, BufferTypes
  <1>3. tx_in + n <= BUF_LEN /\ Used(tx_in, tx_out) + n < BUF_LEN
    BY <1>1 DEF OrderInv, OutputInv
  <1>4. ASSUME NEW k \in 1 .. Used(tx_in, tx_out)
        PROVE  tx_buf'[Plus(tx_out, k - 1)] = tx_buf[Plus(tx_out, k - 1)]
    <2>1. /\ tx_in \in 0 .. BUF_LEN - 1 /\ tx_out \in 0 .. BUF_LEN - 1 /\ 0 \in 0 .. BUF_LEN
          /\ k \in Int /\ k - 1 \in 0 .. BUF_LEN /\ k <= Used(tx_in, tx_out)
      <3>1. 0 \in 0 .. BUF_LEN
        BY Sizes
      <3>2. Used(tx_in, tx_out) \in 0 .. BUF_LEN - 1
        BY <1>2, <3>1, Places DEF Place
      <3> QED BY <1>2, <3>1, <3>2, Sizes DEF Place
    <2>2. Used(tx_in, tx_out) = IF tx_in >= tx_out THEN tx_in - tx_out ELSE tx_in - tx_out + BUF_LEN
      BY <2>1, Places DEF Place
    <2>3. /\ Plus(tx_out, k - 1) = IF tx_out + (k - 1) < BUF_LEN THEN tx_out + (k - 1)
                                                               ELSE tx_out + (k - 1) - BUF_LEN
          /\ Plus(tx_out, k - 1) \in 0 .. BUF_LEN - 1
      BY <2>1, Places DEF Place
    <2>4. Plus(tx_out, k - 1) \notin tx_in .. tx_in + n - 1
      BY <1>2, <1>3, <2>1, <2>2, <2>3, Sizes
    <2> QED BY <1>1, <2>3, <2>4
  <1>5. Contents(tx_buf', tx_in, tx_out) = Contents(tx_buf, tx_in, tx_out)
    BY <1>2, <1>4, Outside
  <1>6. ASSUME NEW i \in 1 .. n PROVE tx_buf'[tx_in + i - 1] = (progWrites + i - 1) % Values
    <2>1. /\ tx_in + i - 1 \in 0 .. BUF_LEN - 1 /\ tx_in + i - 1 \in tx_in .. tx_in + n - 1
          /\ progWrites + (tx_in + i - 1) - tx_in = progWrites + i - 1
      BY <1>2, <1>3, Sizes DEF Place, Byte
    <2> QED BY <1>1, <2>1
  <1>7. OutputInv'
    BY <1>1, <1>3, <1>5, <1>6 DEF OrderInv, OutputInv, Output
  <1> QED BY <1>1, <1>7, OrderFrames DEF OrderInv

\* The copied bytes go behind the others.
LEMMA OrderPublish == TypeInv /\ OrderInv /\ w_publish /\ UNCHANGED othersVars => OrderInv'
  <1> SUFFICES ASSUME TypeInv, OrderInv, w_publish, UNCHANGED othersVars PROVE OrderInv'
    OBVIOUS
  <1> USE DEF othersVars, rxVars, deviceVars, hostVars, isrVars, readerVars
  <1>1. /\ UNCHANGED <<tx_buf, tx_out, tx_fifo, hostTakes, control>>
        /\ UNCHANGED <<rx_in, rx_out, rx_buf, rx_fifo, hostSends, progReads>>
        /\ pc = "w_publish" /\ pc' \in {"w_look", "w_kick"}
        /\ tx_in' = Plus(tx_in, n) /\ progWrites' = (progWrites + n) % Values
    BY DEF w_publish, At
  <1>2. /\ tx_in \in Place /\ tx_out \in Place /\ tx_buf \in [Place -> Byte] /\ tx_fifo \in Seq(Byte)
        /\ n \in Nat /\ progWrites \in Byte /\ hostTakes \in Byte
    BY BufferTypes
  <1>3. tx_in + n <= BUF_LEN /\ Used(tx_in, tx_out) + n < BUF_LEN
    BY <1>1 DEF OrderInv, OutputInv
  <1>4. 0 \in 0 .. BUF_LEN /\ Used(tx_in, tx_out) \in Nat /\ n \in Place /\ n \in 0 .. BUF_LEN
    <2>1. 0 \in 0 .. BUF_LEN
      BY Sizes
    <2>2. Used(tx_in, tx_out) \in 0 .. BUF_LEN - 1
      BY <1>2, <2>1, Places DEF Place
    <2> QED BY <1>2, <1>3, <2>1, <2>2, Sizes DEF Place
  <1>5. Plus(tx_in, n) \in Place
    BY <1>2, <1>4, Places
  <1>6. Used(Plus(tx_in, n), tx_out) = Used(tx_in, tx_out) + n /\ Used(Plus(tx_in, n), tx_in) = n
    BY <1>2, <1>3, <1>4, Moves
  <1> DEFINE q == Contents(tx_buf, tx_in, tx_out)
             r == Contents(tx_buf, Plus(tx_in, n), tx_in)
  <1>7. Contents(tx_buf, Plus(tx_in, n), tx_out) = q \o r
    <2>1. Used(tx_in, tx_out) <= Used(Plus(tx_in, n), tx_out)
      BY <1>2, <1>4, <1>6
    <2> HIDE DEF Byte, Place
    <2> QED BY <1>2, <1>5, <2>1, Splitting
  <1>8. /\ q \in Seq(Byte) /\ r \in Seq(Byte) /\ Len(r) = n
        /\ \A i \in 1 .. n : r[i] = tx_buf[Plus(tx_in, i - 1)]
    <2> HIDE DEF Byte, Place
    <2> QED BY <1>2, <1>5, <1>6, Bytes
  <1>9. ASSUME NEW i \in 1 .. n PROVE r[i] = (progWrites + i - 1) % Values
    <2>1. i \in Int /\ i - 1 \in 0 .. BUF_LEN /\ tx_in \in Nat /\ tx_in + (i - 1) < BUF_LEN
      BY <1>2, <1>3, <1>4, Sizes DEF Place
    <2>2. Plus(tx_in, i - 1) = tx_in + i - 1
      BY <1>2, <2>1, Places, Sizes
    <2>3. tx_buf[tx_in + i - 1] = (progWrites + i - 1) % Values
      BY <1>1 DEF OrderInv, OutputInv
    <2> QED BY <1>8, <2>2, <2>3
  <1> HIDE DEF q, r
  <1>10. Output = tx_fifo \o q /\ Output' = tx_fifo \o (q \o r)
    BY <1>1, <1>7 DEF Output, q
  <1>11. Output \in Seq(Byte) /\ Output' = Output \o r
    <2>1. tx_fifo \o q \in Seq(Byte) /\ (tx_fifo \o q) \o r = tx_fifo \o (q \o r)
      BY <1>2, <1>8, Regroup
    <2> QED BY <1>10, <2>1
  <1>12. Consecutive(Output, hostTakes, progWrites)
    BY DEF OrderInv, OutputInv
  <1>13. Consecutive(Output \o r, hostTakes, (progWrites + n) % Values)
    BY <1>2, <1>8, <1>9, <1>11, <1>12, PutBehind
  <1>14. OutputInv'
    BY <1>1, <1>11, <1>13 DEF OutputInv
  <1> QED BY <1>1, <1>14, OrderFrames DEF OrderInv

\* A read sees what is there.
LEMMA OrderLookIn == TypeInv /\ OrderInv /\ r_look /\ UNCHANGED othersVars => OrderInv'
  <1> SUFFICES ASSUME TypeInv, OrderInv, r_look, UNCHANGED othersVars PROVE OrderInv'
    OBVIOUS
  <1> USE DEF othersVars, rxVars, deviceVars, hostVars, isrVars, txVars, readerVars
  <1>1. /\ UNCHANGED <<tx_in, tx_out, tx_buf, tx_fifo, hostTakes, progWrites, control>>
        /\ UNCHANGED <<rx_in, rx_out, rx_buf, rx_fifo, hostSends, progReads>>
    BY DEF r_look
  <1>2. /\ pc = "r_look" /\ pc' \in {"r_copy", "r_enable", "return", "r_spin"}
        /\ n' = Smaller(RxChunk(rx_in, rx_out), left) /\ (pc' = "r_copy" => n' > 0)
    BY DEF r_look, At
  <1>3. rx_out + n' <= BUF_LEN /\ n' <= Used(rx_in, rx_out)
    <2>1. rx_in \in 0 .. BUF_LEN - 1 /\ rx_out \in 0 .. BUF_LEN - 1 /\ 0 \in 0 .. BUF_LEN /\ left \in Nat
      BY Sizes DEF TypeInv, IndexTypes, CallTypes
    <2>2. Used(rx_in, rx_out) = IF rx_in >= rx_out THEN rx_in - rx_out ELSE rx_in - rx_out + BUF_LEN
      BY <2>1, Places DEF Place
    <2>3. /\ rx_out + RxChunk(rx_in, rx_out) <= BUF_LEN /\ RxChunk(rx_in, rx_out) \in Nat
          /\ RxChunk(rx_in, rx_out) <= Used(rx_in, rx_out)
      BY <2>1, <2>2, Sizes DEF RxChunk
    <2>4. n' \in Nat /\ n' <= RxChunk(rx_in, rx_out)
      BY <1>2, <2>1, <2>3 DEF Smaller
    <2>5. Used(rx_in, rx_out) \in Int
      BY <2>1, <2>2, Sizes
    <2> DEFINE u == Used(rx_in, rx_out)
               c == RxChunk(rx_in, rx_out)
    <2>6. u \in Int /\ c \in Int /\ rx_out + c <= BUF_LEN /\ c <= u /\ n' <= c
      BY <2>3, <2>4, <2>5
    <2> HIDE DEF u, c
    <2>7. rx_out \in Int /\ n' \in Int /\ BUF_LEN \in Int
      BY <2>1, <2>4, Sizes
    <2>8. rx_out + n' <= BUF_LEN /\ n' <= u
      BY <2>6, <2>7, LessFits
    <2> QED BY <2>8 DEF u
  <1>4. InputInv'
    BY <1>1, <1>2, <1>3 DEF OrderInv, InputInv, Input
  <1> QED BY <1>1, <1>2, <1>4, OrderFrames DEF OrderInv

\* A read takes the first bytes of the buffer.
LEMMA OrderCopyIn == TypeInv /\ OrderInv /\ r_copy /\ UNCHANGED othersVars => OrderInv'
  <1> SUFFICES ASSUME TypeInv, OrderInv, r_copy, UNCHANGED othersVars PROVE OrderInv'
    OBVIOUS
  <1> USE DEF othersVars, rxVars, deviceVars, hostVars, isrVars, txVars
  <1>1. /\ UNCHANGED <<tx_in, tx_out, tx_buf, tx_fifo, hostTakes, progWrites, control, n>>
        /\ UNCHANGED <<rx_in, rx_out, rx_buf, rx_fifo, hostSends>>
        /\ pc = "r_copy" /\ pc' = "r_release"
        /\ progReads' = (rx_buf[rx_out + n - 1] + 1) % Values
    BY DEF r_copy, At
  <1>2. /\ rx_in \in Place /\ rx_out \in Place /\ rx_buf \in [Place -> Byte] /\ rx_fifo \in Seq(Byte)
        /\ n \in Nat /\ progReads \in Byte /\ hostSends \in Byte
    BY BufferTypes
  <1>3. n > 0 /\ rx_out + n <= BUF_LEN /\ n <= Used(rx_in, rx_out)
    BY <1>1 DEF OrderInv, InputInv
  <1>4. /\ 0 \in 0 .. BUF_LEN /\ Used(rx_in, rx_out) \in 0 .. BUF_LEN - 1 /\ n \in Place
        /\ n \in 0 .. BUF_LEN /\ n - 1 \in 0 .. BUF_LEN
    <2>1. 0 \in 0 .. BUF_LEN
      BY Sizes
    <2>2. Used(rx_in, rx_out) \in 0 .. BUF_LEN - 1
      BY <1>2, <2>1, Places DEF Place
    <2> QED BY <1>2, <1>3, <2>1, <2>2, Sizes DEF Place
  <1>5. Plus(rx_out, n) \in Place /\ Used(Plus(rx_out, n), rx_out) = n
    BY <1>2, <1>4, Places, Moves
  <1> DEFINE q == Contents(rx_buf, Plus(rx_out, n), rx_out)
             r == Contents(rx_buf, rx_in, Plus(rx_out, n))
  <1>6. Contents(rx_buf, rx_in, rx_out) = q \o r
    <2> HIDE DEF Byte, Place
    <2> QED BY <1>2, <1>3, <1>5, Splitting
  <1>7. /\ q \in Seq(Byte) /\ r \in Seq(Byte) /\ Len(q) = n
        /\ \A i \in 1 .. n : q[i] = rx_buf[Plus(rx_out, i - 1)]
    <2>1. r \in Seq(Byte)
      BY <1>2, <1>5, Bytes
    <2>2. /\ q \in Seq(Byte) /\ Len(q) = Used(Plus(rx_out, n), rx_out)
          /\ \A i \in 1 .. Used(Plus(rx_out, n), rx_out) : q[i] = rx_buf[Plus(rx_out, i - 1)]
      BY <1>2, <1>5, Bytes
    <2> QED BY <1>5, <2>1, <2>2
  <1>8. q[n] = rx_buf[rx_out + n - 1]
    <2>1. n \in 1 .. n /\ rx_out \in Nat /\ rx_out + (n - 1) < BUF_LEN
      BY <1>2, <1>3, Sizes DEF Place
    <2>2. Plus(rx_out, n - 1) = rx_out + n - 1
      BY <1>2, <1>4, <2>1, Places, Sizes
    <2> QED BY <1>7, <2>1, <2>2
  <1> HIDE DEF q, r
  <1>9. Input = (q \o r) \o rx_fifo /\ Input' = r \o rx_fifo
    BY <1>1, <1>6 DEF Input, r
  <1>10. r \o rx_fifo \in Seq(Byte) /\ Input = q \o (r \o rx_fifo)
    BY <1>2, <1>7, <1>9, Regroup
  <1>11. Consecutive(q \o (r \o rx_fifo), progReads, hostSends)
    BY <1>10 DEF OrderInv, InputInv
  <1>12. /\ Consecutive(r \o rx_fifo, (progReads + n) % Values, hostSends)
         /\ \A i \in 1 .. n : q[i] = (progReads + i - 1) % Values
    BY <1>2, <1>7, <1>10, <1>11, TakeAway
  <1>13. progReads' = (progReads + n) % Values
    <2>1. n \in 1 .. n /\ progReads \in Nat /\ progReads + n - 1 \in Nat /\ progReads + n - 1 + 1 = progReads + n
      BY <1>2, <1>3, Sizes DEF Byte
    <2>2. q[n] = (progReads + n - 1) % Values
      BY <1>12, <2>1
    <2>3. (((progReads + n - 1) % Values) + 1) % Values = (progReads + n - 1 + 1) % Values
      BY <2>1, CountOn
    <2> QED BY <1>1, <1>8, <2>1, <2>2, <2>3
  <1>14. InputInv'
    BY <1>1, <1>3, <1>9, <1>12, <1>13 DEF InputInv
  <1> QED BY <1>1, <1>14, OrderFrames DEF OrderInv

\* The other steps of the program leave the bytes where they are; a read gives
\* the places back that it has copied.
LEMMA OrderSteps == TypeInv /\ TypeInv' /\ OrderInv /\ Steps => OrderInv'
  <1> SUFFICES ASSUME TypeInv, TypeInv', OrderInv, Steps PROVE OrderInv'
    OBVIOUS
  <1> USE DEF othersVars, rxVars, deviceVars, hostVars, isrVars, txVars, readerVars
  <1>1. UNCHANGED othersVars
    BY DEF Steps
  <1>2. CASE r_release
    <2>1. /\ UNCHANGED <<tx_in, tx_out, tx_buf, tx_fifo, hostTakes, progWrites, control>>
          /\ UNCHANGED <<rx_in, rx_buf, rx_fifo, hostSends, progReads>>
          /\ pc = "r_release" /\ pc' \in {"r_look", "r_enable"} /\ rx_out' = Plus(rx_out, n)
      BY <1>1, <1>2 DEF r_release, At
    <2>2. Input' = Input
      BY <2>1 DEF Input
    <2>3. InputInv'
      BY <2>1, <2>2 DEF OrderInv, InputInv
    <2> QED BY <2>1, <2>3, OrderFrames DEF OrderInv
  <1>3. ASSUME w_kick \/ w_spin \/ w_check \/ r_spin \/ r_check \/ r_enable \/ closing \/ return
        PROVE  OrderInv'
    <2>1. /\ UNCHANGED <<tx_in, tx_out, tx_buf, tx_fifo, hostTakes, progWrites, control>>
          /\ UNCHANGED <<rx_in, rx_out, rx_buf, rx_fifo, hostSends, progReads>>
      BY <1>1, <1>3 DEF w_kick, w_spin, w_check, r_spin, r_check, r_enable, closing, return
    <2>2. /\ pc \notin {"r_copy", "r_release"}
          /\ pc' \notin {"r_copy", "r_release", "w_copy", "w_publish"}
      BY <1>3 DEF w_kick, w_spin, w_check, r_spin, r_check, r_enable, closing, return, At, Goto, Returns
    <2> QED BY <2>1, <2>2, OrderFrames DEF OrderInv
  <1> QED BY <1>1, <1>2, <1>3, OrderLook, OrderCopy, OrderPublish, OrderLookIn, OrderCopyIn DEF Steps, Step

\* The handler moves the first byte of the transmit buffer behind those of the
\* device.
LEMMA OrderSend == TypeInv /\ OrderInv /\ isr_write /\ UNCHANGED programVars => OrderInv'
  <1> SUFFICES ASSUME TypeInv, OrderInv, isr_write, UNCHANGED programVars PROVE OrderInv'
    OBVIOUS
  <1> USE DEF programVars, rxVars, hostVars, callVars, txVars, readerVars
  <1>1. /\ UNCHANGED <<tx_in, tx_buf, hostTakes, progWrites, pc, n>>
        /\ UNCHANGED <<rx_in, rx_out, rx_buf, rx_fifo, hostSends, progReads>>
        /\ tx_out # tx_in /\ tx_out' = Plus(tx_out, 1) /\ control.space > 0
        /\ tx_fifo' = IF Len(tx_fifo) < TxDepth THEN Append(tx_fifo, tx_buf[tx_out]) ELSE tx_fifo
        /\ control' = [control EXCEPT !.space = @ - 1]
    BY DEF isr_write
  <1>2. /\ tx_in \in Place /\ tx_out \in Place /\ tx_buf \in [Place -> Byte] /\ tx_fifo \in Seq(Byte)
        /\ tx_buf[tx_out] \in Byte /\ n \in Nat /\ tx_in \in Nat
    <2>1. tx_in \in Nat
      BY Sizes DEF TypeInv, IndexTypes
    <2> QED BY <2>1, BufferTypes
  <1>3. control.space \in Nat /\ control'.space = control.space - 1
    BY <1>1 DEF TypeInv, DeviceTypes
  <1>4. Len(tx_fifo) \in Nat /\ Len(tx_fifo) < TxDepth
    <2>1. Len(tx_fifo) \in Nat
      BY <1>2, LenProperties
    <2> QED BY <1>1, <1>3, <2>1, Sizes DEF OrderInv, SpaceInv
  <1>5. /\ tx_fifo' = tx_fifo \o <<tx_buf[tx_out]>> /\ Len(tx_fifo') = Len(tx_fifo) + 1
        /\ <<tx_buf[tx_out]>> \in Seq(Byte)
    <2> HIDE DEF Byte
    <2>1. <<tx_buf[tx_out]>> \in Seq(Byte)
      BY <1>2
    <2>2. /\ Append(tx_fifo, tx_buf[tx_out]) = tx_fifo \o <<tx_buf[tx_out]>>
          /\ Len(Append(tx_fifo, tx_buf[tx_out])) = Len(tx_fifo) + 1
      BY <1>2, AppendIsConcat, AppendProperties
    <2> QED BY <1>1, <1>4, <2>1, <2>2
  <1>6. 0 \in 0 .. BUF_LEN /\ 1 \in 0 .. BUF_LEN /\ 1 \in Place
    BY Sizes DEF Place
  <1>7. /\ Plus(tx_out, 1) \in Place /\ Used(Plus(tx_out, 1), tx_out) = 1
        /\ Used(tx_in, tx_out) > 0 /\ Used(tx_in, tx_out) \in Nat
    <2>1. Plus(tx_out, 1) \in Place /\ Used(tx_in, tx_out) \in Place
      BY <1>2, <1>6, Places
    <2>2. Used(Plus(tx_out, 1), tx_out) = 1 /\ (tx_in # tx_out <=> Used(tx_in, tx_out) > 0)
      BY <1>2, <1>6, Moves
    <2> QED BY <1>1, <2>1, <2>2, Sizes DEF Place
  <1> DEFINE h == <<tx_buf[tx_out]>>
             r == Contents(tx_buf, tx_in, Plus(tx_out, 1))
  <1>8. Used(tx_in, Plus(tx_out, 1)) = Used(tx_in, tx_out) - 1 /\ Contents(tx_buf, tx_in, tx_out) = h \o r
    <2>1. Used(Plus(tx_out, 1), tx_out) <= Used(tx_in, tx_out)
      BY <1>7
    <2>2. Contents(tx_buf, Plus(tx_out, 1), tx_out) = h
      BY <1>2, OneByte
    <2>3. /\ Used(tx_in, Plus(tx_out, 1)) = Used(tx_in, tx_out) - Used(Plus(tx_out, 1), tx_out)
          /\ Contents(tx_buf, tx_in, tx_out) = Contents(tx_buf, Plus(tx_out, 1), tx_out) \o r
      BY <1>2, <1>7, <2>1, Splitting
    <2> QED BY <1>7, <2>2, <2>3
  <1>9. r \in Seq(Byte)
    BY <1>2, <1>7, Bytes
  <1> HIDE DEF h, r
  <1>10. Output = tx_fifo \o (h \o r) /\ Output' = (tx_fifo \o h) \o r
    BY <1>1, <1>5, <1>8 DEF Output, h, r
  <1>11. h \in Seq(Byte)
    BY <1>5 DEF h
  <1>12. Output' = Output
    BY <1>2, <1>9, <1>10, <1>11, Regroup
  <1>13. OutputInv'
    <2>1. Used(tx_in, tx_out)' = Used(tx_in, tx_out) - 1
      BY <1>1, <1>8 DEF Used
    <2>2. Used(tx_in, tx_out) + n < BUF_LEN => Used(tx_in, tx_out) - 1 + n < BUF_LEN
      BY <1>2, <1>7, Sizes
    <2> QED BY <1>1, <1>12, <2>1, <2>2 DEF OrderInv, OutputInv
  <1>14. SpaceInv'
    BY <1>3, <1>4, <1>5, Sizes DEF OrderInv, SpaceInv
  <1> QED BY <1>1, <1>13, <1>14, OrderFrames DEF OrderInv

\* The handler moves the first byte of the device behind those of the receive
\* buffer, in a place that no call is reading.
LEMMA OrderReceive == TypeInv /\ TypeInv' /\ OrderInv /\ isr_read /\ UNCHANGED programVars => OrderInv'
  <1> SUFFICES ASSUME TypeInv, TypeInv', OrderInv, isr_read, UNCHANGED programVars PROVE OrderInv'
    OBVIOUS
  <1> USE DEF programVars, rxVars, hostVars, callVars, txVars, readerVars
  <1>1. /\ UNCHANGED <<tx_in, tx_out, tx_buf, tx_fifo, hostTakes, progWrites, control, pc, n>>
        /\ UNCHANGED <<rx_out, hostSends, progReads>>
        /\ Plus(rx_in, 1) # rx_out
    BY DEF isr_read, RxFull
  <1>2. CASE rx_fifo = <<>>
    BY <1>1, <1>2, OrderFrames DEF isr_read, OrderInv
  <1>3. CASE rx_fifo # <<>>
    <2>1. /\ rx_buf' = [rx_buf EXCEPT ![rx_in] = Head(rx_fifo)]
          /\ rx_in' = Plus(rx_in, 1) /\ rx_fifo' = Tail(rx_fifo)
      BY <1>3 DEF isr_read
    <2>2. /\ rx_in \in Place /\ rx_out \in Place /\ rx_buf \in [Place -> Byte] /\ rx_fifo \in Seq(Byte)
          /\ n \in Nat /\ rx_buf' \in [Place -> Byte]
      <3>1. rx_buf' \in [Place -> Byte]
        BY DEF TypeInv, ByteTypes, Place, Byte
      <3> QED BY <3>1, BufferTypes
    <2>3. rx_fifo = <<Head(rx_fifo)>> \o Tail(rx_fifo) /\ Head(rx_fifo) \in Byte /\ Tail(rx_fifo) \in Seq(Byte)
      BY <1>3, <2>2, FirstByte
    <2>4. 0 \in 0 .. BUF_LEN /\ 1 \in 0 .. BUF_LEN /\ 1 \in Place
      BY Sizes DEF Place
    <2>5. /\ Used(rx_in, rx_out) \in Nat /\ Used(rx_in, rx_out) + 1 < BUF_LEN
          /\ Used(Plus(rx_in, 1), rx_out) = Used(rx_in, rx_out) + 1
          /\ Plus(rx_in, 1) \in Place
      <3>1. Used(rx_in, rx_out) \in Place /\ Plus(rx_in, 1) \in Place
        BY <2>2, <2>4, Places
      <3> QED BY <1>1, <2>2, <2>4, <3>1, Moves, Sizes DEF Place
    <2>6. /\ RxFirst \in Place /\ RxFirst' = RxFirst
          /\ Used(rx_in, RxFirst) \in Nat /\ Used(rx_in, RxFirst) <= Used(rx_in, rx_out)
      <3>1. RxFirst' = RxFirst
        BY <1>1 DEF RxFirst
      <3>2. CASE pc = "r_release"
        <4>1. n <= Used(rx_in, rx_out) /\ n \in Place /\ n \in 0 .. BUF_LEN
          BY <2>2, <2>5, <3>2, Sizes DEF OrderInv, InputInv, Place
        <4>2. Plus(rx_out, n) \in Place /\ Used(Plus(rx_out, n), rx_out) = n
          BY <2>2, <4>1, Places, Moves
        <4>3. Used(rx_in, Plus(rx_out, n)) = Used(rx_in, rx_out) - n
          <5>1. Used(Plus(rx_out, n), rx_out) <= Used(rx_in, rx_out)
            BY <4>1, <4>2
          <5>2. Used(rx_in, Plus(rx_out, n)) = Used(rx_in, rx_out) - Used(Plus(rx_out, n), rx_out)
            BY <2>2, <4>2, <5>1, Splitting
          <5> QED BY <4>2, <5>2
        <4> QED BY <2>2, <2>5, <3>1, <3>2, <4>1, <4>2, <4>3 DEF RxFirst
      <3>3. CASE pc # "r_release"
        BY <2>2, <2>5, <3>1, <3>3 DEF RxFirst
      <3> QED BY <3>2, <3>3
    <2>7. Used(Plus(rx_in, 1), RxFirst) = Used(rx_in, RxFirst) + 1
      <3>1. Used(rx_in, RxFirst) + 1 < BUF_LEN
        BY <2>5, <2>6, Sizes
      <3> QED BY <2>2, <2>4, <2>6, <3>1, Moves
    <2> DEFINE q == Contents(rx_buf, rx_in, RxFirst)
               h == <<Head(rx_fifo)>>
               t == Tail(rx_fifo)
    <2>8. Contents(rx_buf', rx_in, RxFirst) = q
      <3>1. ASSUME NEW k \in 1 .. Used(rx_in, RxFirst)
            PROVE  rx_buf'[Plus(RxFirst, k - 1)] = rx_buf[Plus(RxFirst, k - 1)]
        <4>1. Plus(RxFirst, k - 1) # rx_in
          BY <2>2, <2>4, <2>6, Moves
        <4>2. k - 1 \in 0 .. BUF_LEN
          BY <2>5, <2>6, Sizes
        <4>3. Plus(RxFirst, k - 1) \in Place
          BY <2>2, <2>6, <4>2, Places
        <4> QED BY <2>1, <2>2, <4>1, <4>3
      <3> QED BY <2>2, <2>6, <3>1, Outside
    <2>9. Contents(rx_buf', Plus(rx_in, 1), rx_in) = h
      <3>1. Contents(rx_buf', Plus(rx_in, 1), rx_in) = <<rx_buf'[rx_in]>>
        BY <2>2, OneByte
      <3>2. rx_buf'[rx_in] = Head(rx_fifo)
        BY <2>1, <2>2
      <3> QED BY <3>1, <3>2
    <2>10. Contents(rx_buf', Plus(rx_in, 1), RxFirst) = q \o h
      <3>1. Used(rx_in, RxFirst) <= Used(Plus(rx_in, 1), RxFirst)
        BY <2>6, <2>7
      <3>2. Contents(rx_buf', Plus(rx_in, 1), RxFirst)
              = Contents(rx_buf', rx_in, RxFirst) \o Contents(rx_buf', Plus(rx_in, 1), rx_in)
        <4> HIDE DEF Byte, Place
        <4> QED BY <2>2, <2>5, <2>6, <3>1, Splitting
      <3> QED BY <2>8, <2>9, <3>2
    <2>11. q \in Seq(Byte) /\ h \in Seq(Byte) /\ t \in Seq(Byte)
      <3>1. q \in Seq(Byte)
        BY <2>2, <2>6, Bytes
      <3> HIDE DEF Byte
      <3> QED BY <2>3, <3>1
    <2>12. Input = q \o (h \o t) /\ Input' = (q \o h) \o t
      <3>1. Input = Contents(rx_buf, rx_in, RxFirst) \o rx_fifo
        BY DEF Input, RxFirst
      <3>2. Input' = Contents(rx_buf', rx_in', RxFirst') \o rx_fifo'
        BY DEF Input, RxFirst
      <3> QED BY <2>1, <2>3, <2>6, <2>10, <3>1, <3>2
    <2> HIDE DEF q, h, t
    <2>13. Input' = Input
      BY <2>11, <2>12, Regroup
    <2>14. InputInv'
      <3>1. Used(rx_in, rx_out)' = Used(rx_in, rx_out) + 1
        BY <1>1, <2>1, <2>5 DEF Used
      <3>2. n <= Used(rx_in, rx_out) => n <= Used(rx_in, rx_out) + 1
        BY <2>2, <2>5
      <3> QED BY <1>1, <2>13, <3>1, <3>2 DEF OrderInv, InputInv
    <2> QED BY <1>1, <2>14, OrderFrames DEF OrderInv
  <1> QED BY <1>2, <1>3

\* The steps of the interrupt handler.
LEMMA OrderServe == TypeInv /\ TypeInv' /\ OrderInv /\ Serve => OrderInv'
  <1> SUFFICES ASSUME TypeInv, TypeInv', OrderInv, Serve PROVE OrderInv'
    OBVIOUS
  <1> USE DEF programVars, txVars, readerVars, callVars, rxVars, deviceVars, hostVars
  <1>1. UNCHANGED programVars
    BY DEF Serve
  <1>2. CASE isr_control
    <2>1. /\ UNCHANGED <<tx_in, tx_out, tx_buf, tx_fifo, hostTakes, progWrites, pc, n>>
          /\ UNCHANGED <<rx_in, rx_out, rx_buf, rx_fifo, hostSends, progReads>>
      BY <1>1, <1>2 DEF isr_control
    <2>2. Len(tx_fifo) \in Nat /\ Len(tx_fifo) <= TxDepth
      BY LenProperties DEF TypeInv, ByteTypes
    <2>3. control'.space \in {TxDepth - Len(tx_fifo), 0}
      BY <1>2 DEF isr_control, NoControl, WSPACE
    <2>4. SpaceInv'
      BY <2>1, <2>2, <2>3, Sizes DEF SpaceInv
    <2> QED BY <2>1, <2>4, OrderFrames DEF OrderInv
  <1>3. ASSUME Interrupt \/ isr_full \/ isr_read_done \/ isr_write_done PROVE OrderInv'
    <2>1. /\ UNCHANGED <<tx_in, tx_out, tx_buf, tx_fifo, hostTakes, progWrites, pc, n, control>>
          /\ UNCHANGED <<rx_in, rx_out, rx_buf, rx_fifo, hostSends, progReads>>
      BY <1>1, <1>3 DEF Interrupt, isr_full, isr_read_done, isr_write_done
    <2> QED BY <2>1, OrderFrames DEF OrderInv
  <1> QED BY <1>1, <1>2, <1>3, OrderSend, OrderReceive DEF Serve, Handler

\* The host takes the first byte, and puts its own behind the others.
LEMMA OrderHost == TypeInv /\ OrderInv /\ (Takes \/ Host) => OrderInv'
  <1> SUFFICES ASSUME TypeInv, OrderInv, Takes \/ Host PROVE OrderInv'
    OBVIOUS
  <1> USE DEF driverVars, txVars, readerVars, callVars, rxVars, deviceVars, hostVars, isrVars
  <1>0. /\ UNCHANGED <<tx_in, tx_out, tx_buf, progWrites, pc, n, control>>
        /\ UNCHANGED <<rx_in, rx_out, rx_buf, progReads>>
    BY DEF Takes, Host
  <1>t. /\ tx_in \in Place /\ tx_out \in Place /\ rx_in \in Place /\ rx_out \in Place
        /\ tx_buf \in [Place -> Byte] /\ rx_buf \in [Place -> Byte]
        /\ tx_fifo \in Seq(Byte) /\ rx_fifo \in Seq(Byte) /\ n \in Nat
        /\ hostSends \in Byte /\ hostTakes \in Byte /\ progWrites \in Byte /\ progReads \in Byte
    BY BufferTypes
  <1>1. CASE Takes
    <2>1. /\ tx_fifo # <<>> /\ hostTakes' = (Head(tx_fifo) + 1) % Values /\ tx_fifo' = Tail(tx_fifo)
          /\ UNCHANGED <<rx_fifo, hostSends>>
      BY <1>1 DEF Takes, HostTake
    <2> DEFINE h == <<Head(tx_fifo)>>
               t == Tail(tx_fifo)
               q == Contents(tx_buf, tx_in, tx_out)
    <2>2. tx_fifo = h \o t /\ Head(tx_fifo) \in Byte /\ t \in Seq(Byte)
      BY <1>t, <2>1, FirstByte
    <2>3. h \in Seq(Byte) /\ Len(h) = 1 /\ h[1] = Head(tx_fifo) /\ q \in Seq(Byte)
      <3>1. q \in Seq(Byte)
        BY <1>t, Bytes
      <3> HIDE DEF Byte
      <3> QED BY <2>2, <3>1
    <2>4. Output = (h \o t) \o q /\ Output' = t \o q
      BY <1>0, <2>1, <2>2 DEF Output
    <2>5. Len(t) = Len(tx_fifo) - 1 /\ Len(tx_fifo) \in Nat
      BY <1>t, <2>1, HeadTailProperties, LenProperties
    <2> HIDE DEF h, t, q
    <2>6. t \o q \in Seq(Byte) /\ Output = h \o (t \o q)
      BY <2>2, <2>3, <2>4, Regroup
    <2>7. Consecutive(h \o (t \o q), hostTakes, progWrites)
      BY <2>6 DEF OrderInv, OutputInv
    <2>8. /\ Consecutive(t \o q, (hostTakes + 1) % Values, progWrites)
          /\ \A i \in 1 .. 1 : h[i] = (hostTakes + i - 1) % Values
      <3>1. h \in Seq(Byte) /\ t \o q \in Seq(Byte) /\ hostTakes \in Byte /\ progWrites \in Byte
        BY <1>t, <2>3, <2>6
      <3>2. /\ Consecutive(t \o q, (hostTakes + Len(h)) % Values, progWrites)
            /\ \A i \in 1 .. Len(h) : h[i] = (hostTakes + i - 1) % Values
        BY <2>7, <3>1, TakeAway
      <3> QED BY <2>3, <3>2
    <2>9. hostTakes' = (hostTakes + 1) % Values
      <3>1. hostTakes \in Nat /\ hostTakes + 1 - 1 = hostTakes
        BY <1>t, Sizes DEF Byte
      <3>2. Head(tx_fifo) = hostTakes % Values
        BY <2>3, <2>8, <3>1
      <3>3. ((hostTakes % Values) + 1) % Values = (hostTakes + 1) % Values
        BY <3>1, CountOn
      <3> QED BY <2>1, <3>2, <3>3
    <2>10. OutputInv'
      BY <1>0, <2>4, <2>8, <2>9 DEF OrderInv, OutputInv
    <2>11. SpaceInv'
      <3>1. tx_fifo' = t
        BY <2>1 DEF t
      <3>2. control.space \in Nat
        BY DEF TypeInv, DeviceTypes
      <3> QED BY <1>0, <2>5, <3>1, <3>2, Sizes DEF OrderInv, SpaceInv
    <2> QED BY <1>0, <2>1, <2>10, <2>11, OrderFrames DEF OrderInv
  <1>2. CASE Host /\ HostSend
    <2>1. /\ rx_fifo' = Append(rx_fifo, hostSends) /\ hostSends' = (hostSends + 1) % Values
          /\ UNCHANGED <<tx_fifo, hostTakes>>
      BY <1>2 DEF HostSend
    <2> DEFINE q == Contents(rx_buf, rx_in, RxFirst)
               h == <<hostSends>>
    <2>2. RxFirst \in Place
      <3>1. CASE pc = "r_release"
        <4>1. n \in 0 .. BUF_LEN
          <5>1. rx_out \in Nat /\ rx_out + n <= BUF_LEN
            BY <1>t, <3>1, Sizes DEF Place, OrderInv, InputInv
          <5> QED BY <1>t, <5>1, Sizes
        <4>2. Plus(rx_out, n) \in Place
          BY <1>t, <4>1, Places
        <4> QED BY <3>1, <4>2 DEF RxFirst
      <3> QED BY <1>t, <3>1 DEF RxFirst
    <2>3. q \in Seq(Byte) /\ h \in Seq(Byte) /\ Len(h) = 1 /\ h[1] = hostSends
      <3>1. q \in Seq(Byte)
        BY <1>t, <2>2, Bytes
      <3> HIDE DEF Byte
      <3> QED BY <1>t, <3>1
    <2>4. rx_fifo' = rx_fifo \o h
      <3> HIDE DEF Byte
      <3> QED BY <1>t, <2>1, AppendIsConcat
    <2>5. Input = q \o rx_fifo /\ Input' = q \o (rx_fifo \o h)
      BY <1>0, <2>4 DEF Input, RxFirst
    <2>6. ASSUME NEW i \in 1 .. Len(h) PROVE h[i] = (hostSends + i - 1) % Values
      <3>1. i = 1 /\ hostSends \in Nat /\ hostSends < Values /\ hostSends + 1 - 1 = hostSends
        BY <1>t, <2>3, Sizes DEF Byte
      <3>2. (Values * 0 + hostSends) % Values = hostSends
        BY <3>1, Sizes, Remainder
      <3> QED BY <2>3, <3>1, <3>2, Sizes
    <2> HIDE DEF q, h
    <2>7. Input \in Seq(Byte) /\ Input' = Input \o h
      <3>1. q \in Seq(Byte) /\ rx_fifo \in Seq(Byte) /\ h \in Seq(Byte)
        BY <1>t, <2>3
      <3>2. q \o rx_fifo \in Seq(Byte) /\ (q \o rx_fifo) \o h = q \o (rx_fifo \o h)
        BY <3>1, Regroup
      <3> QED BY <2>5, <3>2
    <2>8. Consecutive(Input, progReads, hostSends)
      BY DEF OrderInv, InputInv
    <2>9. Consecutive(Input \o h, progReads, (hostSends + Len(h)) % Values)
      BY <1>t, <2>3, <2>6, <2>7, <2>8, PutBehind
    <2>10. InputInv'
      BY <1>0, <2>1, <2>3, <2>7, <2>9 DEF OrderInv, InputInv
    <2> QED BY <1>0, <2>1, <2>10, OrderFrames DEF OrderInv
  <1>3. CASE Connect \/ Disconnect
    BY <1>0, <1>3, OrderFrames DEF Connect, Disconnect, OrderInv
  <1> QED BY <1>1, <1>2, <1>3 DEF Host

\* The alarm and the host's pauses move no byte.
LEMMA OrderOthers == OrderInv /\ (Alarm \/ Pauses \/ UNCHANGED vars) => OrderInv'
  <1> SUFFICES ASSUME OrderInv, Alarm \/ Pauses \/ UNCHANGED vars PROVE OrderInv'
    OBVIOUS
  <1>1. /\ UNCHANGED <<tx_in, tx_out, tx_buf, tx_fifo, hostTakes, progWrites, pc, n, control>>
        /\ UNCHANGED <<rx_in, rx_out, rx_buf, rx_fifo, hostSends, progReads>>
    BY DEF Alarm, Timeout, Pauses, HostPause, vars, driverVars, programVars, txVars, rxVars,
           readerVars, callVars, isrVars, hostVars
  <1> QED BY <1>1, OrderFrames DEF OrderInv

\* No byte is lost, repeated or overtaken in either direction: BytesInOrder,
\* for all sizes of the buffers and of the device and for every program.
THEOREM AlwaysInOrder == Spec => []BytesInOrder
  <1>1. Init => TypeInv /\ OrderInv
    BY TypeInit, OrderInit
  <1>2. TypeInv /\ OrderInv /\ [Next]_vars => TypeInv' /\ OrderInv'
    <2> SUFFICES ASSUME TypeInv, OrderInv, [Next]_vars PROVE TypeInv' /\ OrderInv'
      OBVIOUS
    <2>1. TypeInv'
      BY TypeCalls, TypeSteps, TypeServe, TypeOthers DEF Next
    <2> QED BY <2>1, OrderCalls, OrderSteps, OrderServe, OrderHost, OrderOthers DEF Next
  <1>3. OrderInv => BytesInOrder
    BY DEF OrderInv, OutputInv, InputInv, BytesInOrder
  <1> QED BY <1>1, <1>2, <1>3, PTL DEF Spec
=============================================================================
