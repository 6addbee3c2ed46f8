------------------------------ MODULE FileTable -----------------------------
(***************************************************************************)
(* The table of file descriptors and the calls on it: alt_dev.c, alt_open, *)
(* alt_close, alt_get_fd, alt_release_fd, alt_fd_lock, alt_fd_unlock,      *)
(* alt_ioctl, alt_fcntl, alt_read, alt_write, alt_lseek, alt_isatty and    *)
(* alt_io_redirect.  The system is built without threads and no interrupt  *)
(* handler uses the table, so a call is one step.                          *)
(***************************************************************************)
EXTENDS Integers, FiniteSets

CONSTANTS
    ALT_MAX_FD,         \* the size of the table: 32
    Devices,            \* character devices, alt_dev_null among them
    Filesystems,
    alt_dev_null,
    Null,               \* no device: the entry is free
    Calls               \* the system calls each device implements

\* The flags of an open file; O_READ and O_WRITE stand for the access mode.
Access     == {{"O_READ"}, {"O_WRITE"}, {"O_READ", "O_WRITE"}}
Internal   == {"ALT_FD_EXCL", "ALT_FD_DEV"}     \* ALT_FD_FLAGS_MASK
AllFlags   == {"O_READ", "O_WRITE", "O_NONBLOCK"} \cup Internal

ASSUME TableAssumption ==
    /\ ALT_MAX_FD \in Nat /\ ALT_MAX_FD > 3
    /\ alt_dev_null \in Devices
    /\ Null \notin Devices \cup Filesystems
    /\ Devices \cap Filesystems = {}
    /\ Calls \in [Devices \cup Filesystems ->
                    SUBSET {"open", "close", "read", "write", "lseek", "fstat", "ioctl"}]

VARIABLES
    alt_fd_list,    \* per number: the device or filesystem, and the flags
    alt_max_fd,     \* the highest number ever allocated
    alt_dev_list    \* the devices and filesystems that are registered

fileVars == <<alt_fd_list, alt_max_fd, alt_dev_list>>

Numbers == 0 .. ALT_MAX_FD - 1
dev(i)   == alt_fd_list[i].dev
flags(i) == alt_fd_list[i].fd_flags
Entry(d, f) == [dev |-> d, fd_flags |-> f]
FreeEntry   == Entry(Null, {})

\* Callers pass the number of an open file: the HAL uses its device unseen.
IsOpen(i) == i \in Numbers /\ dev(i) # Null

\* Standard in, out and error: reading, as their flags are 0.
FileInit ==
    /\ alt_fd_list = [i \in Numbers |->
                        IF i <= 2 THEN Entry(alt_dev_null, {"O_READ"}) ELSE FreeEntry]
    /\ alt_max_fd = -1
    /\ alt_dev_list = {alt_dev_null}

-----------------------------------------------------------------------------
(* Registration: alt_dev_reg and alt_fs_reg. *)

alt_dev_llist_insert(d) ==
    /\ alt_dev_list' = alt_dev_list \cup {d}
    /\ UNCHANGED <<alt_fd_list, alt_max_fd>>

-----------------------------------------------------------------------------
(* Opening and closing. *)

\* The lowest free entry, or -EMFILE as -1.
alt_get_fd ==
    IF \E i \in Numbers : dev(i) = Null
    THEN CHOOSE i \in Numbers : dev(i) = Null /\ \A j \in 0 .. i - 1 : dev(j) # Null
    ELSE -1

\* Another descriptor of device d is locked; max is alt_max_fd.
alt_file_locked(i, max, d) ==
    \E j \in Numbers : j <= max /\ j # i /\ dev(j) = d /\ "ALT_FD_EXCL" \in flags(j)

\* The standard descriptors are never given back.
alt_release_fd(list, i) == IF i > 2 THEN [list EXCEPT ![i] = FreeEntry] ELSE list

OpenFlags(d, f) == (f \ Internal) \cup (IF d \in Devices THEN {"ALT_FD_DEV"} ELSE {})

\* Faulty variant: the entry of a refused open is not given back.
ALT_OPEN_Leaks(d, f, ok) ==
    LET i == alt_get_fd
        max == IF i > alt_max_fd THEN i ELSE alt_max_fd
    IN  IF d \notin alt_dev_list \/ i < 0
        THEN [index |-> -1, list |-> alt_fd_list, max |-> alt_max_fd]
        ELSE [index |-> IF ok /\ ~(d \in Devices /\ alt_file_locked(i, max, d)) THEN i ELSE -1,
              list  |-> [alt_fd_list EXCEPT ![i] = Entry(d, OpenFlags(d, f))],
              max   |-> max]

\* open(): the result, the table and its high-water mark.  The search among
\* the filesystems follows the one among the devices; ok: what the device's
\* own open() says, if it has one.  A refused open gives its entry back, but
\* the high-water mark stays.
ALT_OPEN(d, f, ok) ==
    LET i == alt_get_fd
        max == IF i > alt_max_fd THEN i ELSE alt_max_fd
        taken == [alt_fd_list EXCEPT ![i] = Entry(d, OpenFlags(d, f))]
    IN  IF d \notin alt_dev_list \/ i < 0
        THEN [index |-> -1, list |-> alt_fd_list, max |-> alt_max_fd]
        ELSE IF ok /\ ~(d \in Devices /\ alt_file_locked(i, max, d))
        THEN [index |-> i, list |-> taken, max |-> max]
        ELSE [index |-> -1, list |-> alt_release_fd(taken, i), max |-> max]

\* What the open() of a device may say; without one it cannot fail.
OpenResults(d) == IF "open" \in Calls[d] THEN BOOLEAN ELSE {TRUE}

open(d, f) ==
    /\ \E ok \in OpenResults(d) :
          LET o == ALT_OPEN(d, f, ok)
          IN  alt_fd_list' = o.list /\ alt_max_fd' = o.max
    /\ UNCHANGED alt_dev_list

\* Whether or not the device's close() succeeds, the entry is given back.
close(i) ==
    /\ IsOpen(i)
    /\ alt_fd_list' = alt_release_fd(alt_fd_list, i)
    /\ UNCHANGED <<alt_max_fd, alt_dev_list>>

-----------------------------------------------------------------------------
(* Locks and flags. *)

\* The search leaves out the highest descriptor there has been.
alt_fd_lock(i) ==
    /\ ~\E j \in Numbers : j < alt_max_fd /\ j # i /\ dev(j) = dev(i)
    /\ alt_fd_list' = [alt_fd_list EXCEPT ![i].fd_flags = @ \cup {"ALT_FD_EXCL"}]

alt_fd_unlock(i) == alt_fd_list' = [alt_fd_list EXCEPT ![i].fd_flags = @ \ {"ALT_FD_EXCL"}]

\* The two requests the HAL handles itself; others go to the device.
ioctl(i) ==
    /\ IsOpen(i) /\ "ALT_FD_DEV" \in flags(i)
    /\ alt_fd_lock(i) \/ alt_fd_unlock(i)
    /\ UNCHANGED <<alt_max_fd, alt_dev_list>>

\* F_SETFL replaces the flags that may change (O_APPEND is not modelled).
fcntl(i, f) ==
    /\ IsOpen(i)
    /\ alt_fd_list' = [alt_fd_list EXCEPT ![i].fd_flags = (@ \ {"O_NONBLOCK"}) \cup (f \cap {"O_NONBLOCK"})]
    /\ UNCHANGED <<alt_max_fd, alt_dev_list>>

-----------------------------------------------------------------------------
(* Calls that leave the table alone: where they end up. *)

\* The device a write (read) reaches, or "EACCES".
write(i) == IF "O_WRITE" \in flags(i) /\ "write" \in Calls[dev(i)] THEN dev(i) ELSE "EACCES"
read(i)  == IF "O_READ" \in flags(i) /\ "read" \in Calls[dev(i)] THEN dev(i) ELSE "EACCES"

\* A device without fstat() is taken for a terminal.
isatty(i) == "fstat" \notin Calls[dev(i)]

-----------------------------------------------------------------------------
(* alt_io_redirect. *)

\* Faulty variant: only the device is taken over.
alt_open_fd_DeviceOnly(i, d, f) ==
    /\ \E ok \in OpenResults(d) :
          LET o == ALT_OPEN(d, f, ok)
          IN  /\ alt_fd_list' = IF o.index < 0 THEN o.list
                                ELSE alt_release_fd([o.list EXCEPT ![i].dev = d], o.index)
              /\ alt_max_fd' = o.max
    /\ UNCHANGED alt_dev_list

\* Opens d and moves the new entry to i, which stays as it is on failure.
alt_open_fd(i, d, f) ==
    /\ \E ok \in OpenResults(d) :
          LET o == ALT_OPEN(d, f, ok)
          IN  /\ alt_fd_list' = IF o.index < 0 THEN o.list
                                ELSE alt_release_fd([o.list EXCEPT ![i] = o.list[o.index]], o.index)
              /\ alt_max_fd' = o.max
    /\ UNCHANGED alt_dev_list
=============================================================================
