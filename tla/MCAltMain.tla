------------------------------ MODULE MCAltMain -----------------------------
(***************************************************************************)
(* A table of five descriptors, the serial port, a file system whose       *)
(* open() may fail, and an interrupt line nobody has a handler for.        *)
(***************************************************************************)
EXTENDS AltMain

CONSTANT rozipfs    \* the file system

MCCalls == [d \in Devices \cup Filesystems |->
    IF d = alt_dev_null THEN {"write"}
    ELSE IF d = rozipfs THEN {"open", "close", "read", "lseek", "fstat"}
    ELSE {"close", "read", "write", "ioctl"}]
=============================================================================
