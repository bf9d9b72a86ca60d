------------------------------- MODULE MCSystem -------------------------------
(* Constants for TLC; see the README for the bounds. *)
EXTENDS System

MCFrame == {-1, -2}
MCNewPage == -3
MCElsewhere == -4
MCBootMap == <<[address |-> <<0, 0, 0>>, frame |-> -1], [address |-> <<0, 0, 1>>, frame |-> -2]>>
MCAddress == {<<0, 0, 0>>, <<1, 1, 1>>}

Host == [class |-> 6, subclass |-> 0, secondary |-> 0]
Disks == [class |-> 1, subclass |-> 6, secondary |-> 0]
Scsi == [class |-> 1, subclass |-> 0, secondary |-> 0]
BridgeTo(bus) == [class |-> 6, subclass |-> 4, secondary |-> bus]
MCAbsent == [class |-> 255, subclass |-> 255, secondary |-> 255]
MCFunctions == {Host, Disks, Scsi, BridgeTo(1), BridgeTo(2)}
Function == (0 .. 2) \X (0 .. 1) \X (0 .. 1)

(* Bridges lead to buses of their own, and only a device with a function 0 *)
(* has others.                                                             *)
Sound(m) ==
  /\ \A p, q \in Function : m[p].subclass = 4 /\ m[p] = m[q] => p = q
  /\ \A p \in Function : m[p] # MCAbsent => m[<<p[1], p[2], 0>>] # MCAbsent

MCMachine ==
  {m \in {[p \in Function |->
             CASE p = <<0, 0, 0>> -> host [] p = <<0, 0, 1>> -> second
               [] p = <<0, 1, 0>> -> a [] p = <<0, 1, 1>> -> b
               [] p = <<1, 0, 0>> -> c [] p = <<2, 1, 0>> -> d
               [] OTHER -> MCAbsent] :
           host \in {MCAbsent, Host}, second \in {MCAbsent, Disks},
           a \in {MCAbsent, Scsi, Disks, BridgeTo(1)}, b \in {MCAbsent, Disks, BridgeTo(1), BridgeTo(2)},
           c \in {MCAbsent, Disks, BridgeTo(2)}, d \in {MCAbsent, Disks}} : Sound(m)}

MCConversion ==
  {[flags |-> f, size |-> s, letter |-> l] :
     f \in {{}, {"#"}, {"0"}, {"-"}}, s \in {"int", "h", "hh", "l", "z", "t", "j"},
     l \in {"i", "d", "u", "x", "X", "o", "p", "c", "s", "%", "end"}}

MCText == {<<"a">>, <<"b", "\n">>, [i \in 1 .. 9 |-> IF i = 8 THEN "b" ELSE "a"],
           <<"\t", "b">>, <<"a", "\r", "b">>}
MCTickText == <<"t">>

MCLength == 0 .. 200
MCNanos == 0 .. 41
=============================================================================
