--------------------------------- MODULE Pci ---------------------------------
(***************************************************************************)
(* pci.c: the walk over the buses at boot, and the lookup of a device.     *)
(*                                                                         *)
(* The configuration space is external and does not change: what is at     *)
(* each bus, device and function, or Absent, which reads as all ones.  It  *)
(* is read through the ports, bus 0 is where the walk begins: find_sdt     *)
(* takes the pointers of the RSDT for tables and so finds no MCFG.  Calls  *)
(* of check_bus that wait for an inner one are on the stack.  The buses    *)
(* kept in a device are left out: nothing reads them.                      *)
(***************************************************************************)
EXTENDS Integers, SequencesExt

CONSTANTS
  Functions,  \* what may be at a place: class, subclass and secondary bus
  Absent,
  Machine,    \* the configuration spaces: bus, device, function -> Functions
  MaxDevices, MaxFunctions \* PCI_MAX_DEVICES and PCI_MAX_FUNCTIONS, cut down

ASSUME PciAssumption ==
  /\ Absent.class = 255 /\ Absent.subclass = 255
  /\ \A m \in Machine : \A p \in DOMAIN m : m[p] \in Functions \cup {Absent}

VARIABLES
  machine,
  found,     \* the devices in the order of registration
  rootBuses, \* what the loop of enumerate_device has still to check
  stack      \* the unfinished calls of check_bus, the innermost last

pciVars == <<machine, found, rootBuses, stack>>

At(bus, d, f) == machine[<<bus, d, f>>]
IsThere(bus, d, f) == At(bus, d, f) # Absent
IsMulti(bus, d) == ~IsThere(bus, d, 0) \/ \E f \in 1 .. MaxFunctions - 1 : IsThere(bus, d, f)
IsBridge(bus, d, f) == At(bus, d, f).class = 6 /\ At(bus, d, f).subclass = 4

(* init_pci_dev: always the class of function 0 *)
PciDev(bus, d, bridge) ==
  [bus |-> bus, device |-> d, class |-> At(bus, d, 0).class,
   subclass |-> At(bus, d, 0).subclass, bridge |-> bridge]

(* enumerate_device: the device is registered whether or not it is there;  *)
(* the loop over its functions, each taken for a bus, ends at the first    *)
(* that is there                                                           *)
PciInit ==
  /\ machine \in Machine
  /\ found = <<PciDev(0, 0, 0)>>
  /\ rootBuses = IF ~IsMulti(0, 0) THEN <<0>>
                 ELSE LET there == {f \in 0 .. MaxFunctions - 1 : IsThere(0, 0, f)}
                      IN  [i \in 1 .. (IF there = {} THEN MaxFunctions ELSE Min(there)) |-> i - 1]
  /\ stack = <<>>

Call(bridge, bus) == [bridge |-> bridge, bus |-> bus, device |-> 0, function |-> 0, dev |-> 0]

CheckRootBus ==
  /\ stack = <<>> /\ rootBuses # <<>>
  /\ stack' = <<Call(1, Head(rootBuses))>>
  /\ rootBuses' = Tail(rootBuses)
  /\ UNCHANGED <<machine, found>>

(* where check_device and the loop of check_bus go on *)
After(c) ==
  IF IsThere(c.bus, c.device, 0) /\ IsMulti(c.bus, c.device) /\ c.function + 1 < MaxFunctions
  THEN [c EXCEPT !.function = @ + 1]
  ELSE [c EXCEPT !.device = @ + 1, !.function = 0]

\* Fault: every function is registered.
FaultyCheckFunction ==
  /\ stack # <<>> /\ Last(stack).device < MaxDevices
  /\ LET c == Last(stack)
         there == IsThere(c.bus, c.device, c.function)
         dev == IF there THEN Len(found) + 1 ELSE c.dev
     IN
     /\ found' = IF there THEN Append(found, PciDev(c.bus, c.device, c.bridge)) ELSE found
     /\ stack' = LET outer == Append(Front(stack), [After(c) EXCEPT !.dev = dev]) IN
                 IF there /\ IsBridge(c.bus, c.device, c.function)
                 THEN Append(outer, Call(dev, At(c.bus, c.device, c.function).secondary))
                 ELSE outer
  /\ UNCHANGED <<machine, rootBuses>>

(* check_device up to and with check_function: function 0 is registered;   *)
(* behind a bridge, of any function, the walk goes on at once              *)
CheckFunction ==
  /\ stack # <<>> /\ Last(stack).device < MaxDevices
  /\ LET c == Last(stack)
         there == IsThere(c.bus, c.device, c.function)
         dev == IF there /\ c.function = 0 THEN Len(found) + 1 ELSE c.dev
     IN
     /\ found' = IF dev > Len(found) THEN Append(found, PciDev(c.bus, c.device, c.bridge)) ELSE found
     /\ stack' = LET outer == Append(Front(stack), [After(c) EXCEPT !.dev = dev]) IN
                 IF there /\ IsBridge(c.bus, c.device, c.function)
                 THEN Append(outer, Call(dev, At(c.bus, c.device, c.function).secondary))
                 ELSE outer
  /\ UNCHANGED <<machine, rootBuses>>

LeaveBus ==
  /\ stack # <<>> /\ Last(stack).device = MaxDevices
  /\ stack' = Front(stack)
  /\ UNCHANGED <<machine, found, rootBuses>>

PciNext == CheckRootBus \/ CheckFunction \/ LeaveBus

PciSpec == PciInit /\ [][PciNext]_pciVars

Enumerated == stack = <<>> /\ rootBuses = <<>>

(* get_pci_device, as a number in found.  0 is NULL.  A search that reaches *)
(* the end of the list takes the sentinel for a device, whose subclass is  *)
(* the upper half of the list's size: 0, so that it is returned (Sentinel) *)
(* to who looks for that subclass.                                         *)
Sentinel == -1
GetPciDevice(class, subclass) ==
  LET group == {i \in DOMAIN found : found[i].class = class}
      match == {i \in group : subclass = -1 \/ found[i].subclass = subclass}
  IN  CASE group = {} -> 0
        [] group # {} /\ match # {} -> Min(match)
        [] OTHER -> IF subclass = 0 THEN Sentinel ELSE 0

-----------------------------------------------------------------------------

(* The buses behind bridges. *)
Behind(bus) == {At(bus, d, f).secondary :
                  <<d, f>> \in {p \in (0 .. MaxDevices - 1) \X (0 .. MaxFunctions - 1) :
                                  IsThere(bus, p[1], 0) /\ IsThere(bus, p[1], p[2])
                                    /\ IsBridge(bus, p[1], p[2])}}
ReachedFrom(start) ==
  LET within[n \in Nat] == IF n = 0 THEN start
                           ELSE within[n - 1] \cup UNION {Behind(b) : b \in within[n - 1]}
  IN  within[Cardinality({p[1] : p \in DOMAIN machine})]

(* When the walk is over, a machine whose host bridge has one function has *)
(* each device on a bus that bridges lead to registered exactly once, and  *)
(* the host bridge twice; with several functions nothing but the host      *)
(* bridge is ever found.  Looking up a class and a subclass gives a device *)
(* that is there and has them; NULL, or the sentinel for subclass 0, only  *)
(* when no device in reach has.                                            *)
DevicesFound ==
  Enumerated /\ IsThere(0, 0, 0) =>
    /\ IF IsMulti(0, 0) THEN Len(found) = 1
       ELSE \A bus \in {p[1] : p \in DOMAIN machine}, d \in 0 .. MaxDevices - 1 :
              Cardinality({i \in DOMAIN found : found[i].bus = bus /\ found[i].device = d})
                = IF <<bus, d>> = <<0, 0>> THEN 2
                  ELSE IF bus \in ReachedFrom({0}) /\ IsThere(bus, d, 0) THEN 1 ELSE 0
    /\ \A class \in {1, 6}, subclass \in {-1, 0, 4, 6} :
         LET g == GetPciDevice(class, subclass) IN
         IF g > 0
         THEN LET dev == At(found[g].bus, found[g].device, 0) IN
              dev.class = class /\ subclass \in {-1, dev.subclass}
         ELSE /\ g = Sentinel => subclass = 0
              /\ ~IsMulti(0, 0) => ~\E p \in DOMAIN machine :
                   /\ p[1] \in ReachedFrom({0}) /\ At(p[1], p[2], 0).class = class
                   /\ subclass \in {-1, At(p[1], p[2], 0).subclass}
=============================================================================
