------------------------------ MODULE FileStore ------------------------------
(***************************************************************************)
(* What a caller of the boot loader's FAT driver may rely on: a path that  *)
(* is stored opens at its first byte while a handle is free, any other is  *)
(* refused, and a read gives the file's next bytes, in pieces, each byte   *)
(* once; nothing, when the medium may fail.                                *)
(***************************************************************************)
EXTENDS Naturals

CONSTANTS Handles,      \* what FAT_Open may return
          Paths         \* what may be asked for

VARIABLES SizeOf,       \* the bytes of each stored path
          fails,        \* whether the medium may fail
          at,           \* per handle Closed, or [path, position]
          out           \* what the last step gave the caller

Closed  == [closed |-> TRUE]
Nothing == [nothing |-> TRUE]

Init == at = [h \in Handles |-> Closed] /\ out = Nothing

Open(p, h) ==
  /\ p \in DOMAIN SizeOf /\ at[h] = Closed
  /\ at' = [at EXCEPT ![h] = [path |-> p, position |-> 0]]
  /\ out' = [opened |-> h]

Refuse(p) ==
  /\ p \notin DOMAIN SizeOf \/ \A h \in Handles : at[h] # Closed
  /\ out' = [refused |-> p]
  /\ UNCHANGED at

Read(h, to) ==
  /\ at[h] # Closed
  /\ to \in at[h].position + 1..SizeOf[at[h].path]
  /\ at' = [at EXCEPT ![h].position = to]
  /\ out' = [path |-> at[h].path, from |-> at[h].position, to |-> to]

Close(h) ==
  /\ at[h] # Closed
  /\ at' = [at EXCEPT ![h] = Closed]
  /\ out' = Nothing

Quiet == out' = Nothing /\ UNCHANGED at

Next == \/ \E p \in Paths : Refuse(p)
        \/ \E p \in Paths, h \in Handles : Open(p, h)
        \/ \E h \in Handles : Close(h)
        \/ \E h \in Handles :
             at[h] # Closed /\ \E to \in 1..SizeOf[at[h].path] : Read(h, to)
        \/ Quiet

Spec == Init /\ [][fails \/ (Next /\ UNCHANGED <<SizeOf, fails>>)]_<<SizeOf, fails, at, out>>
=============================================================================
