----------------------------- MODULE Descriptors ----------------------------
(***************************************************************************)
(* What the file descriptors of the HAL promise their users: an open takes *)
(* the lowest number that is free, or takes none; a descriptor stands for  *)
(* the file it was opened on until it is closed; a device that one of its  *)
(* descriptors holds for itself is opened by nobody; the three standard    *)
(* descriptors always stand for some device.                               *)
(***************************************************************************)
EXTENDS Integers

CONSTANTS Numbers, Files, NullFile

\* files[f]: what descriptor f stands for; held: descriptors with the lock.
VARIABLES files, held

descriptorVars == <<files, held>>

Standard == 0 .. 2
Open == DOMAIN files
Lowest == CHOOSE f \in Numbers \ Open : \A g \in Numbers \ Open : f <= g

Init == files = [f \in Standard |-> NullFile] /\ held = {}

OpenFile(d) ==
    /\ Numbers \ Open # {}
    /\ \A f \in held : files[f] # d
    /\ files' = [f \in Open \cup {Lowest} |-> IF f = Lowest THEN d ELSE files[f]]
    /\ UNCHANGED held

CloseFile(f) ==
    /\ f \in Open \ Standard
    /\ files' = [g \in Open \ {f} |-> files[g]]
    /\ held' = held \ {f}

\* Before the program starts: a standard descriptor is given another device,
\* one that can be opened.
Redirect(f, d) ==
    /\ f \in Standard /\ held = {}
    /\ files' = [files EXCEPT ![f] = d]
    /\ UNCHANGED held

Hold(f)    == f \in Open /\ held' = held \cup {f} /\ UNCHANGED files
Release(f) == held' = held \ {f} /\ UNCHANGED files

Next ==
    \/ \E d \in Files : OpenFile(d) \/ \E f \in Standard : Redirect(f, d)
    \/ \E f \in Open : CloseFile(f) \/ Hold(f) \/ Release(f)

Spec == Init /\ [][Next]_descriptorVars
=============================================================================
