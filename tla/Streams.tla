------------------------------- MODULE Streams -------------------------------
(***************************************************************************)
(* usr/fdbuf.c over usr/syscall.c and the kernel's descriptors: the        *)
(* standard streams of one process.                                        *)
(*                                                                         *)
(* A library function leaves the system calls it makes in traps, and the   *)
(* kernel takes them in turn before the program goes on.  flockfile does   *)
(* nothing.  malloc and calloc return nothing in this version, and nor is  *)
(* vsnprintf there, so that whoever needs them is astray: fopen and the    *)
(* functions that format.  The caches get their addresses from calloc too, *)
(* but are never used.                                                     *)
(***************************************************************************)
EXTENDS Descriptors

CONSTANTS
  CacheSize,  \* CACHSZ, cut down
  Written,    \* how much a program writes in a call
  UserLocks   \* the locks of init_userheap: DESCNT, cut down

ASSUME StreamsAssumption == {CacheSize, UserLocks} \subseteq Nat /\ Written \subseteq Nat

VARIABLES
  stream,  \* _stdin, _stdout and _stderr; NoStream before init_stdio
  traps,   \* system calls not yet made
  astray   \* the program has followed a NULL or undefined pointer

streamVars == <<stream, traps, astray>>

Std == {"stdin", "stdout", "stderr"}
NoStream == [s \in Std |-> [fd |-> -1]]
Trap(number, arg) == [number |-> number, arg |-> arg]

(* _start and init_userheap: a lock is made of a semaphore; nobody calls    *)
(* init_stdio but the program itself                                       *)
StreamsInit ==
  /\ DescriptorsInit
  /\ stream = NoStream
  /\ traps = [i \in 1 .. UserLocks |-> Trap("SYS_SGET", 1)]
  /\ astray = FALSE

(* init_stdfile: maxrd and maxwr stay 0 *)
InitStdfile(fd, wr, rd) ==
  [fd |-> fd, rd |-> rd, wr |-> wr, rdpos |-> 0, wrpos |-> 0, maxrd |-> 0, maxwr |-> 0]

Ready == traps = <<>> /\ ~astray /\ ~lost
Astray == astray' = TRUE /\ UNCHANGED <<stream, traps>>

InitStdio ==
  /\ Ready /\ stream = NoStream
  /\ stream' = [stdin |-> InitStdfile(0, FALSE, TRUE), stdout |-> InitStdfile(1, TRUE, FALSE),
                stderr |-> InitStdfile(2, TRUE, FALSE)]
  /\ UNCHANGED <<traps, astray>>

(* write of usr/syscall.c, which passes the number of open: the kernel     *)
(* takes the stream's number for the address of a path, and what is written *)
(* for the flags, which its open leaves alone.                              *)
WriteTrap(fd) == Trap("SYS_OPEN", fd)

(* fflush: the trap it makes *)
Fflush(st) == IF st.wrpos > 0 THEN <<WriteTrap(st.fd)>> ELSE <<>>

(* fwrite, and fputc for n = 1 *)
Fwrite(s, n) ==
  /\ Ready
  /\ IF stream = NoStream THEN Astray
     ELSE LET st == stream[s]
              cached == n < st.maxwr
              full == st.wrpos + n >= CacheSize
          IN
          /\ st.wr
          /\ traps' = (IF cached /\ ~full THEN <<>> ELSE Fflush(st))
                        \o IF cached THEN <<>> ELSE <<WriteTrap(st.fd)>>
          /\ stream' = [stream EXCEPT ![s].wrpos =
               IF cached THEN (IF full THEN 0 ELSE @) + n ELSE 0]
          /\ UNCHANGED astray

(* fread of at least one byte: with maxrd 0 always a read *)
Fread(s) ==
  /\ Ready
  /\ IF stream = NoStream THEN Astray
     ELSE /\ stream[s].rd
          /\ traps' = <<Trap("SYS_READ", stream[s].fd)>>
          /\ UNCHANGED <<stream, astray>>

(* fclose of a standard stream; free does nothing *)
Fclose(s) ==
  /\ Ready
  /\ IF stream = NoStream THEN Astray
     ELSE /\ traps' = Fflush(stream[s]) \o <<Trap("SYS_CLOSE", stream[s].fd)>>
          /\ stream' = [stream EXCEPT ![s].wrpos = 0]
          /\ UNCHANGED astray

(* fopen, fprintf to a stream that can be written, dprintf *)
NeedsMemory == Ready /\ Astray

(* the kernel's end of a trap, through syscall_table *)
TakeTrap ==
  /\ traps # <<>> /\ ~lost
  /\ LET t == Head(traps) IN
     CASE t.number = "SYS_OPEN" -> FdtableOpen
       [] t.number = "SYS_READ" -> FdUse(t.arg)
       [] t.number = "SYS_CLOSE" -> FdtableFree(t.arg)
       [] OTHER -> Sget
  /\ traps' = Tail(traps)
  /\ UNCHANGED <<stream, astray>>

StreamsNext ==
  \/ /\ \/ InitStdio \/ NeedsMemory
        \/ \E s \in Std : Fread(s) \/ Fclose(s) \/ \E n \in Written : Fwrite(s, n)
     /\ UNCHANGED descriptorVars
  \/ TakeTrap

StreamsSpec == StreamsInit /\ [][StreamsNext]_<<descriptorVars, streamVars>>
=============================================================================
