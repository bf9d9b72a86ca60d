-------------------------------- MODULE System --------------------------------
(***************************************************************************)
(* The components that share no state with the rest, side by side: lists,  *)
(* processes, page tables, descriptors and the streams over them, the PCI   *)
(* walk, formats, console and lengths of sleep.  A behaviour follows one of *)
(* them, the focus: as they have nothing in common, what one does in       *)
(* between is a stutter to the others.                                     *)
(***************************************************************************)
EXTENDS Lists, Processes, AddressSpaces, Streams, Pci, Formats, Console, Timespec

VARIABLE focus

Focus == {"lists", "processes", "spaces", "descriptors", "streams",
          "pci", "formats", "console", "timespec"}

kernelVars == <<listVars, processVars, spaceVars, descriptorVars, streamVars, pciVars>>
otherVars == <<formatVars, consoleVars, timespecVars>>
systemVars == <<kernelVars, otherVars, focus>>

(* Of a component that is not the focus one initial state is enough. *)
SystemInit ==
  /\ focus \in Focus
  /\ ListsInit /\ ProcessesInit /\ SpacesInit /\ StreamsInit
  /\ ConsoleInit /\ TimespecInit
  /\ PciInit /\ (focus # "pci" => machine = CHOOSE m \in Machine : TRUE)
  /\ FormatsInit /\ (focus # "formats" => ~szt /\ ~ptd)

ListsStep ==
  /\ focus = "lists" /\ ListsNext
  /\ UNCHANGED <<processVars, spaceVars, descriptorVars, streamVars, pciVars, otherVars, focus>>

ProcessesStep ==
  /\ focus = "processes" /\ ProcessesNext
  /\ UNCHANGED <<listVars, spaceVars, descriptorVars, streamVars, pciVars, otherVars, focus>>

SpacesStep ==
  /\ focus = "spaces" /\ SpacesNext
  /\ UNCHANGED <<listVars, processVars, descriptorVars, streamVars, pciVars, otherVars, focus>>

DescriptorsStep ==
  /\ focus = "descriptors" /\ DescriptorsNext
  /\ UNCHANGED <<listVars, processVars, spaceVars, streamVars, pciVars, otherVars, focus>>

StreamsStep ==
  /\ focus = "streams" /\ StreamsNext
  /\ UNCHANGED <<listVars, processVars, spaceVars, pciVars, otherVars, focus>>

PciStep ==
  /\ focus = "pci" /\ PciNext
  /\ UNCHANGED <<listVars, processVars, spaceVars, descriptorVars, streamVars, otherVars, focus>>

FormatsStep ==
  /\ focus = "formats" /\ FormatsNext
  /\ UNCHANGED <<kernelVars, consoleVars, timespecVars, focus>>

ConsoleStep ==
  /\ focus = "console" /\ ConsoleNext
  /\ UNCHANGED <<kernelVars, formatVars, timespecVars, focus>>

TimespecStep ==
  /\ focus = "timespec" /\ TimespecNext
  /\ UNCHANGED <<kernelVars, formatVars, consoleVars, focus>>

SystemNext ==
  \/ ListsStep \/ ProcessesStep \/ SpacesStep \/ DescriptorsStep
  \/ StreamsStep \/ PciStep \/ FormatsStep \/ ConsoleStep \/ TimespecStep

SystemSpec == SystemInit /\ [][SystemNext]_systemVars
=============================================================================
