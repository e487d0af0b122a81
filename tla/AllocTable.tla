----------------------------- MODULE AllocTable -----------------------------
(***************************************************************************)
(* The allocator of characters, objects, descriptors and affects           *)
(* (allocate.c): a table of records of one kind that grows, and a list of  *)
(* the free ones threaded through an array of indices.  A record carries   *)
(* its own index, which free_unit trusts.                                  *)
(***************************************************************************)
EXTENDS Naturals

CONSTANTS
  Initial,   (* records at the start: max of the table's initializer       *)
  Delta,     (* records added by expand_table                              *)
  Memory     (* records for which there is memory; then the server stops   *)

(* init_alloctable stops the server, too, when there is no memory for it.  *)
ASSUME AllocAssumption ==
  /\ Initial \in Nat \ {0} /\ Delta \in Nat \ {0}
  /\ Memory \in Nat /\ Initial <= Memory

VARIABLES
  index,     (* alloc_info.index: the free record after this one           *)
  nextfree,  (* the first free record, or max                              *)
  used,      (* the number of records in use                               *)
  max,       (* the size of the table                                      *)
  held       (* the records the program holds                              *)

alloc_vars == <<index, nextfree, used, max, held>>

Unit == 0 .. max - 1

TableOK ==
  /\ max \in Nat
  /\ index \in [Unit -> 0 .. max]
  /\ nextfree \in 0 .. max
  /\ used \in Nat
  /\ held \subseteq Unit

-----------------------------------------------------------------------------
init_alloctable ==
  /\ max = Initial
  /\ index = [i \in Unit |-> i + 1]
  /\ nextfree = 0
  /\ used = 0
  /\ held = {}

(* expand_table: the new records follow each other.  Mutants: their        *)
(* indices are those of the records themselves; the loop runs too far.     *)
ExpandedPast(m) == [i \in 0 .. m |-> IF i < max THEN index[i] ELSE i + 1]
ExpandedLoops(m) == [i \in 0 .. m - 1 |-> IF i < max THEN index[i] ELSE i]
Expanded(m) == [i \in 0 .. m - 1 |-> IF i < max THEN index[i] ELSE i + 1]

(* The chain that starts at a record just freed goes on with the old one.  *)
(* Mutant: nextfree is set first.                                          *)
ThenSelf(u) == u
Then(u) == nextfree

alloc_unit(u) ==
  LET full == nextfree >= max
      m    == IF full THEN max + Delta ELSE max
      next == IF full THEN Expanded(m) ELSE index
  IN  /\ full => m <= Memory
      /\ u = nextfree
      /\ max' = m
      /\ index' = next
      /\ nextfree' = next[u]
      /\ used' = used + 1
      /\ held' = held \cup {u}

(* A record whose index is outside of the table stops the server. *)
free_unit(u) ==
  /\ u \in Unit
  /\ used' = used - 1
  /\ index' = [index EXCEPT ![u] = Then(u)]
  /\ nextfree' = u
  /\ held' = held \ {u}
  /\ UNCHANGED max

AllocNext ==
  \/ alloc_unit(nextfree)
  \/ \E u \in held : free_unit(u)

AllocSpec == init_alloctable /\ [][AllocNext]_alloc_vars

-----------------------------------------------------------------------------
(* Properties. *)

(* A record handed out is in nobody's hands, and the table grows only when *)
(* all of it is: no record leaves the list of the free ones for good.      *)
Pool == INSTANCE UnitPool
IsPool == Pool!Spec
=============================================================================
