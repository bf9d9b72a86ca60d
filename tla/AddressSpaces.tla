---------------------------- MODULE AddressSpaces ----------------------------
(***************************************************************************)
(* pml4.c and the page-fault handler of paging.c: the trees of tables that *)
(* translate addresses, and what a copy of one shares with its source.     *)
(*                                                                         *)
(* An address is its three slots, one per level; the 512 slots of a table  *)
(* are cut to Slots.  An entry keeps where it points and the bits present, *)
(* writable and size.  A 2 MB frame is reached through a present entry of  *)
(* the third level that has the size bit.                                  *)
(*                                                                         *)
(* Memory is what a pointer read from an entry sees, since & ~0xFFF and    *)
(* the processor drop its low bits: pages of 4 KB, numbered, page 0 being  *)
(* what the code reaches through NULL.  A table of boot fills a page.  A   *)
(* table that kcalloc returns lies behind the header of its arena, Skew    *)
(* words after the start of a page, and runs over into the next one, where *)
(* the next table begins: nothing else has blocks of this size, no table   *)
(* is freed, and the tables fit one arena.  A pointer that came from       *)
(* kcalloc or from cr3 keeps its low bits and sees the table itself.       *)
(***************************************************************************)
EXTENDS Integers, FiniteSets, SequencesExt

CONSTANTS
  Frame,     \* the frames that boot maps
  NewPage,   \* any page that page_allocate returns
  Elsewhere, \* what the words of page 0 and of an arena's header point to
  Slots,
  Skew,      \* sizeof(struct heap_arena), in words
  BootMap,   \* what boot maps: a sequence of [address, frame]
  Address,   \* the addresses in use
  MaxPages

Slot == 0 .. Slots - 1

ASSUME SpacesAssumption ==
  /\ {Slots, MaxPages} \subseteq Nat /\ Skew \in 1 .. Slots - 1
  /\ (Frame \cup {NewPage, Elsewhere}) \cap Nat = {}
  /\ NewPage # Elsewhere /\ {NewPage, Elsewhere} \cap Frame = {}
  /\ Address \subseteq Slot \X Slot \X Slot
  /\ BootMap \in Seq([address : Slot \X Slot \X Slot, frame : Frame])

VARIABLES
  pages,   \* the pages that tables lie in, as a sequence, the last one begun; page 0 apart
  null,    \* page 0
  roots,   \* the pml4 of every address space
  memory,  \* contents of the frames
  seen,    \* what a cow copy could read when it was made
  misled   \* something was taken for a table that is none

spaceVars == <<pages, null, roots, memory, seen, misled>>

Empty == [to |-> 0, present |-> FALSE, writable |-> FALSE, size |-> FALSE]
EmptyTable == [i \in Slot |-> Empty]
Points(to) == [to |-> to, present |-> TRUE, writable |-> TRUE, size |-> FALSE]
Stray == [to |-> Elsewhere, present |-> TRUE, writable |-> FALSE, size |-> TRUE]

(* pml4_map_address_buffer on the tables ts: missing tables come from the   *)
(* pool that boot reserves                                                 *)
WithTable(ts, t, i) == Append([ts EXCEPT ![t][i] = Points(Len(ts) + 1)], EmptyTable)

MapAddressBuffer(ts, root, a, frame) ==
  LET Below(us, t, i) == IF us[t][i].to # 0 THEN us ELSE WithTable(us, t, i)
      t1  == Below(ts, root, a[1])
      pdp == t1[root][a[1]].to
      t2  == Below(t1, pdp, a[2])
      pgd == t2[pdp][a[2]].to
  IN  [t2 EXCEPT ![pgd][a[3]] = [Points(frame) EXCEPT !.size = TRUE]]

(* set_up_page_tables, init_pml4 and the mapping loop of init_paging *)
BootTables ==
  LET after[n \in 0 .. Len(BootMap)] ==
        IF n = 0 THEN <<EmptyTable>>
        ELSE MapAddressBuffer(after[n - 1], 1, BootMap[n].address, BootMap[n].frame)
  IN  after[Len(BootMap)]

Boot == Len(BootTables)

SpacesInit ==
  /\ pages = Append(BootTables, [i \in Slot |-> IF i < Skew THEN Stray ELSE Empty])
  /\ null = [i \in Slot |-> Stray]
  /\ roots = {1}
  /\ memory = [f \in Frame |-> "old"]
  /\ seen = {}
  /\ misled = FALSE

(* A table is in use when it begins in a page that is not the last.  What  *)
(* an aligned pointer to page t reads in slot i.                           *)
IsTable(t) == t \in 1 .. Len(pages) - 1
Entry(t, i) == IF t = 0 THEN null[i] ELSE IF IsTable(t) THEN pages[t][i] ELSE Stray

(* page and slot of slot i of the table t itself *)
Place(t, i) ==
  IF t <= Boot THEN <<t, i>>
  ELSE IF i + Skew < Slots THEN <<t, i + Skew>> ELSE <<t + 1, i + Skew - Slots>>
Word(t, i) == LET p == Place(t, i) IN pages[p[1]][p[2]]

(* the entry that the processor finds for a, and the bits it honours: an   *)
(* address is writable only if it is so at every level                     *)
Found(pml, a) ==
  LET pdp == Entry(pml.to, a[2])
      pgd == Entry(pdp.to, a[3])
  IN  IF pml.present /\ pdp.present /\ pgd.present /\ pgd.size /\ pgd.to \in Frame
      THEN {[frame |-> pgd.to, writable |-> pml.writable /\ pdp.writable /\ pgd.writable]}
      ELSE {}
Translation(root, a) == Found(Entry(root, a[1]), a)

Misled == misled' = TRUE /\ UNCHANGED <<pages, null>>

(* A table entry assigned through an aligned pointer, that may be NULL, or *)
(* point to the page a handler took, which nobody else has.                *)
Store(t, i, e) ==
  \/ t = 0 /\ null' = [null EXCEPT ![i] = e] /\ UNCHANGED <<pages, misled>>
  \/ t = NewPage /\ UNCHANGED <<pages, null, misled>>
  \/ IsTable(t) /\ pages' = [pages EXCEPT ![t][i] = e] /\ UNCHANGED <<null, misled>>
  \/ t # 0 /\ t # NewPage /\ ~IsTable(t) /\ Misled

(* page_table_create, whose pml4 stays empty: nobody enters a page in the  *)
(* table of a process, nor makes its pml4 the processor's                  *)
PageTableCreate ==
  /\ Len(pages) < MaxPages
  /\ pages' = Append(pages, EmptyTable)
  /\ UNCHANGED <<null, roots, memory, seen, misled>>

(* pml4_map_address: a missing page directory is not allocated, since the  *)
(* second test looks at pdp again; the entry gets no size bit              *)
MapAddress(root, a, frame) ==
  LET pdp == Word(root, a[1]).to
      p   == Place(root, a[1])
  IN
  \/ /\ pdp = 0 /\ Len(pages) < MaxPages
     /\ pages' = Append([pages EXCEPT ![p[1]][p[2]] = Points(Len(pages))], EmptyTable)
     /\ null' = [null EXCEPT ![a[3]] = Points(frame)]
     /\ UNCHANGED misled
  \/ pdp # 0 /\ Store(Entry(pdp, a[2]).to, a[3], Points(frame))

\* Fault: the handler maps a page whatever the address translates to.
FaultyPageFault(root, a) == MapAddress(root, a, NewPage) /\ UNCHANGED <<roots, memory, seen>>

(* page_fault at an address without a translation: an entry on the way may *)
(* not be present; when they all are, the handler changes nothing          *)
PageFault(root, a) ==
  /\ Translation(root, a) = {}
  /\ MapAddress(root, a, NewPage)
  /\ UNCHANGED <<roots, memory, seen>>

(* pml4_compute_ptloc, which tests nothing: table and slot of the entry     *)
PtLoc(root, a) == <<Entry(Word(root, a[1]).to, a[2]).to, a[3]>>
PtEntry(root, a) == LET l == PtLoc(root, a) IN Entry(l[1], l[2])

ClearMapping(root, a) ==
  /\ LET l == PtLoc(root, a) IN Store(l[1], l[2], Empty)
  /\ UNCHANGED <<roots, memory, seen>>

(* the accessed and dirty bits are set alike, and change no translation *)
SetWritable(root, a, b) ==
  /\ LET l == PtLoc(root, a) IN Store(l[1], l[2], [PtEntry(root, a) EXCEPT !.writable = b])
  /\ UNCHANGED <<roots, memory, seen>>


(* the bits of a copied entry *)
CopyOf(e, isCow) == [e EXCEPT !.writable = ~isCow]

(* the slots that lead _pml_copy down from root, and what it reads there:   *)
(* in the root the table itself, below it the page                         *)
SourceEntry(root, path, i) ==
  CASE Len(path) = 0 -> Word(root, i)
    [] Len(path) = 1 -> Entry(Word(root, path[1]).to, i)
    [] OTHER -> Entry(Entry(Word(root, path[1]).to, path[2]).to, i)

Paths(root) ==
  LET upper == {<<i>> : i \in {j \in Slot : Word(root, j).to # 0}}
  IN  {<<>>} \cup upper \cup
        UNION {{Append(p, i) : i \in {j \in Slot : SourceEntry(root, p, j).to # 0}} : p \in upper}

TableAt(root, path) == IF path = <<>> THEN root ELSE SourceEntry(root, Front(path), Last(path)).to

(* The new tables follow each other as they are reached: the number of the *)
(* one for a path.                                                         *)
Key(path) ==
  CASE Len(path) = 0 -> 0
    [] Len(path) = 1 -> (path[1] + 1) * (Slots + 1)
    [] OTHER -> (path[1] + 1) * (Slots + 1) + path[2] + 1
Number(paths, path) == Len(pages) + Cardinality({p \in paths : Key(p) < Key(path)})

(* _pml_copy: new tables at every level; the frames are shared *)
PmlCopy(root, isCow) ==
  [path \in Paths(root) |-> [i \in Slot |->
     LET e == SourceEntry(root, path, i) IN
     IF Len(path) = 2 THEN CopyOf(e, isCow)
     ELSE IF e.to = 0 THEN Empty
     ELSE [CopyOf(e, isCow) EXCEPT !.to = Number(Paths(root), Append(path, i))]]]

(* the pages when the tables new lie behind those there are *)
Laid(new) ==
  LET first  == Len(pages)
      at(t)  == CHOOSE p \in DOMAIN new : Number(DOMAIN new, p) = t
      behind == first + Cardinality(DOMAIN new)
  IN  [t \in 1 .. behind |->
         IF t < first THEN pages[t]
         ELSE [i \in Slot |->
                 CASE i >= Skew -> IF t = behind THEN Empty ELSE new[at(t)][i - Skew]
                   [] i < Skew /\ t = first -> pages[t][i]
                   [] OTHER -> new[at(t - 1)][Slots + i - Skew]]]

(* pml4_copy to a root that pml4_alloc has just returned *)
Pml4Copy(root, isCow) ==
  LET new  == PmlCopy(root, isCow)
      dest == Len(pages)
  IN
  \/ /\ \A path \in Paths(root) : IsTable(TableAt(root, path))
     /\ Len(pages) + Cardinality(DOMAIN new) <= MaxPages
     /\ pages' = Laid(new)
     /\ roots' = roots \cup {dest}
     /\ IF isCow
        THEN seen' = seen \cup
                  UNION {{[root |-> r, address |-> a, content |-> memory[t.frame]] :
                            t \in Translation(r, a)'} : r \in roots' \ roots, a \in Address}
        ELSE UNCHANGED seen
     /\ UNCHANGED <<null, memory, misled>>
  \/ /\ \E path \in Paths(root) : ~IsTable(TableAt(root, path))
     /\ Misled /\ UNCHANGED <<roots, memory, seen>>

(* a program writes through the translation of its space; a write that the *)
(* processor refuses changes nothing, and nor does page_fault              *)
Write(root, a) ==
  /\ \E t \in Translation(root, a) :
       t.writable /\ memory' = [memory EXCEPT ![t.frame] = "new"]
  /\ UNCHANGED <<pages, null, roots, seen, misled>>

SpacesNext ==
  /\ ~misled
  /\ \/ PageTableCreate
     \/ \E root \in roots :
          \/ \E a \in Address : \/ PageFault(root, a) \/ ClearMapping(root, a)
                                \/ \E b \in BOOLEAN : SetWritable(root, a, b)
                                \/ Write(root, a)
          \/ \E b \in BOOLEAN : Pml4Copy(root, b)

SpacesSpec == SpacesInit /\ [][SpacesNext]_spaceVars

-----------------------------------------------------------------------------

(* Nothing but clearing the entry of an address, or setting its bits, in   *)
(* the space of boot changes what that address means there, if boot laid   *)
(* its tables: no fault, no copy and nothing done to a copy reaches them,  *)
(* though the tables that kcalloc returns overlap for whoever reads them.  *)
LaidByBoot(a) ==
  /\ pages[1][a[1]].to \in 1 .. Boot
  /\ pages[pages[1][a[1]].to][a[2]].to \in 1 .. Boot
OwnEntryOnly ==
  \A a \in Slot \X Slot \X Slot :
    LaidByBoot(a) /\ Translation(1, a)' # Translation(1, a) =>
      ClearMapping(1, a) \/ \E b \in BOOLEAN : SetWritable(1, a, b)
BootKept == [][OwnEntryOnly]_spaceVars

(* A copy translates what its source did, as source's root is seen by the  *)
(* code, but Skew slots further on at every level: the new tables are      *)
(* filled from their beginning and read from that of their page.  All      *)
(* that can be written in the copy is what was copied without cow.         *)
Inner == 0 .. Slots - 1 - Skew
Shifted(a) == <<a[1] + Skew, a[2] + Skew, a[3] + Skew>>

(* pml4.h on pml4_copy: "If cow is set, then upon writing to src's physical *)
(* frames, dest will be allocated a new frame": dest goes on reading what   *)
(* was there when it was made.                                             *)
CopyKeepsContents ==
  \A s \in seen : \A t \in Translation(s.root, s.address) : memory[t.frame] = s.content
=============================================================================
