-------------------------- MODULE AdsVariableList --------------------------
(***************************************************************************)
(* Finding the data of one symbol in the answer of a sum-up read.          *)
(*                                                                         *)
(* An AdsVariableList is built from the names of one read group.  Names    *)
(* whose address is neither cached nor given by the PLC are skipped with   *)
(* `continue', so entries (m_symbolEntries and, with the same contents,    *)
(* m_symbolInfos) may be shorter than names (m_symbolNames).  The answer   *)
(* holds one slot of data per entry, in the order of the entries; a slot   *)
(* is named by its position.                                               *)
(***************************************************************************)
EXTENDS Integers, Sequences

(* What getSymbolData gives instead of the position of a slot. *)
NullPtr == 0         \* it returned nullptr
OutOfRange == -1     \* vector::at threw std::out_of_range

(* The least element of a set of positions, nullptr when there is none. *)
FirstOf(positions) ==
  IF positions = {} THEN NullPtr
  ELSE CHOOSE i \in positions : \A j \in positions : i <= j

PositionsOf(names, name) == {i \in DOMAIN names : names[i] = name}

(* The index loop of the dirty branch: one past the end if absent. *)
IndexOf(names, name) ==
  IF PositionsOf(names, name) = {} THEN Len(names) + 1
  ELSE FirstOf(PositionsOf(names, name))

(* Mistake: the walk does not advance in the buffer. *)
LookupWithoutAdvance(names, addresses, name) ==
  IF \E i \in DOMAIN addresses : names[i] = name THEN 1 ELSE NullPtr

(* _dirtyADSCom is false: the entries are walked along the names. *)
CleanLookup(names, addresses, name) ==
  FirstOf({i \in DOMAIN addresses : names[i] = name})

(* _dirtyADSCom is true: the first entry with the address that            *)
(* m_symbolInfos has at the index of the name.                            *)
DirtyLookup(names, addresses, name) ==
  LET index == IndexOf(names, name)
  IN IF addresses = <<>> THEN NullPtr
     ELSE IF index > Len(addresses) THEN OutOfRange
     ELSE FirstOf({i \in DOMAIN addresses : addresses[i] = addresses[index]})

GetSymbolData(names, addresses, dirty, name) ==
  IF dirty THEN DirtyLookup(names, addresses, name)
           ELSE CleanLookup(names, addresses, name)

=============================================================================
