---------------------------- MODULE RoundAffects ----------------------------
(***************************************************************************)
(* The affects that change with every round of a fight or every second:    *)
(* records of the allocator in two lists, the global one (next) and that   *)
(* of their owner (my_next), by affect.c roundAff_to_char and              *)
(* roundAff_remove.  update_round and update_second (update.c) walk the    *)
(* global list while what they do kills characters, whose affects are      *)
(* removed (transfer.c char_from_world, mobile.c free_a_char), and gives   *)
(* others new ones.  The cursor next_roundAffs is all that keeps the walk  *)
(* on the list.                                                            *)
(***************************************************************************)
EXTENDS AllocTable   (* here the "Round Aff table", with room for Memory affects *)

CONSTANTS Owner, NULL

ASSUME NullAssumption == NULL \notin Nat /\ NULL \notin Owner

VARIABLES
  roundAffs,       (* the first affect of the global list                  *)
  next_roundAffs,  (* the affect the walk goes on with                     *)
  next, my_next,   (* the links of the records                             *)
  owner, type,     (* their owner, and the walk that treats them           *)
  my_roundAffs,    (* charType.roundAffs: the first affect of a character  *)
  here,            (* the characters in the world                          *)
  walk,            (* what walks the list: update_round, update_second or nothing *)
  rf, busy,        (* the affect it has come to; it is treating this one   *)
  leaving, rf_next,(* the character whose affects are being removed; the next of them *)
  due              (* the affects of the walk's type it has still to treat *)

lists == <<roundAffs, next, my_next, owner, type, my_roundAffs>>
vars == <<alloc_vars, lists, next_roundAffs, here, walk, rf, busy, leaving, rf_next, due>>

Record == 0 .. Memory - 1
Link == Record \cup {NULL}
Types == {"round", "second"}

TypeOK ==
  /\ TableOK
  /\ roundAffs \in Link /\ next_roundAffs \in Link /\ rf \in Link /\ rf_next \in Link
  /\ next \in [Record -> Link] /\ my_next \in [Record -> Link]
  /\ owner \in [Record -> Owner \cup {NULL}] /\ type \in [Record -> Types]
  /\ my_roundAffs \in [Owner -> Link]
  /\ here \subseteq Owner /\ leaving \in Owner \cup {NULL}
  /\ walk \in Types \cup {"none"} /\ busy \in BOOLEAN
  /\ due \subseteq Record

-----------------------------------------------------------------------------
(* The records of a list. *)
ListOf(first, link) ==
  LET nth[k \in 0 .. Memory] ==
        IF k = 0 THEN first ELSE IF nth[k - 1] = NULL THEN NULL ELSE link[nth[k - 1]]
  IN {nth[k] : k \in 0 .. Memory} \ {NULL}

(* The links without r: the record before it, found from the head of the   *)
(* list, gets its link.  Mutant: only the head of a list can be removed.   *)
LinkedOn(first, link, r) == link
Unlinked(first, link, r) ==
  [p \in Record |-> IF first # r /\ p \in ListOf(first, link) /\ link[p] = r
                    THEN link[r] ELSE link[p]]

Init ==
  /\ init_alloctable
  /\ roundAffs = NULL /\ next_roundAffs = NULL
  /\ next = [r \in Record |-> NULL] /\ my_next = [r \in Record |-> NULL]
  /\ owner = [r \in Record |-> NULL] /\ type = [r \in Record |-> "round"]
  /\ my_roundAffs = [c \in Owner |-> NULL]
  /\ here = {}
  /\ walk = "none" /\ rf = NULL /\ busy = FALSE
  /\ leaving = NULL /\ rf_next = NULL
  /\ due = {}

(* The caller's record is copied, but for the index of the new record.     *)
roundAff_to_char(ch, t) ==
  LET r == nextfree IN
  /\ alloc_unit(r)
  /\ my_next' = [my_next EXCEPT ![r] = my_roundAffs[ch]]
  /\ my_roundAffs' = [my_roundAffs EXCEPT ![ch] = r]
  /\ next' = [next EXCEPT ![r] = roundAffs]
  /\ roundAffs' = r
  /\ owner' = [owner EXCEPT ![r] = ch]
  /\ type' = [type EXCEPT ![r] = t]

(* The cursor when r leaves the list.  Mutant: it is left alone.           *)
CursorStays(r) == next_roundAffs
Cursor(r) == IF next_roundAffs = r THEN next[r] ELSE next_roundAffs

roundAff_remove(r) ==
  LET ch == owner[r] IN
  /\ next_roundAffs' = Cursor(r)
  /\ my_roundAffs' = [my_roundAffs EXCEPT ![ch] = IF @ = r THEN my_next[r] ELSE @]
  /\ my_next' = Unlinked(my_roundAffs[ch], my_next, r)
  /\ roundAffs' = IF roundAffs = r THEN next[r] ELSE roundAffs
  /\ next' = Unlinked(roundAffs, next, r)
  /\ free_unit(r)
  /\ due' = due \ {r}
  /\ UNCHANGED <<owner, type>>

-----------------------------------------------------------------------------
(* Characters. *)

Enter(ch) ==
  /\ leaving = NULL /\ walk = "none" /\ ch \notin here
  /\ here' = here \cup {ch}
  /\ UNCHANGED <<alloc_vars, lists, next_roundAffs, walk, rf, busy, leaving, rf_next, due>>

(* An affect is treating its owner's round: it is in the list, it has the  *)
(* type of the walk, and no spell stops the time of the owner.             *)
Acts == busy /\ leaving = NULL /\ rf \in held /\ type[rf] = walk

(* A skill or a spell in a command of somebody's, or in a mobile's round;  *)
(* and the stab of the serpent, which scares its victim.                   *)
Given(ch, t) ==
  /\ leaving = NULL /\ ch \in here
  /\ walk = "none" \/ (walk = "second" /\ Acts /\ t = "round" /\ owner[rf] # ch)
  /\ roundAff_to_char(ch, t)
  /\ UNCHANGED <<next_roundAffs, here, walk, rf, busy, leaving, rf_next, due>>

(* Mutant: the affects of a character stay with him. *)
Forgotten(ch) == NULL
FirstOf(ch) == my_roundAffs[ch]

(* char_from_world or free_a_char: the affects go one after the other.     *)
(* During a walk an affect kills others than its owner, or anybody once it *)
(* has been removed.                                                       *)
Leaves(ch) ==
  /\ leaving = NULL /\ ch \in here
  /\ walk = "none" \/ (Acts /\ owner[rf] # ch) \/ (busy /\ rf \notin held)
  /\ leaving' = ch /\ rf_next' = FirstOf(ch)
  /\ UNCHANGED <<alloc_vars, lists, next_roundAffs, here, walk, rf, busy, due>>

LosesAffect ==
  /\ leaving # NULL /\ rf_next # NULL
  /\ rf_next' = my_next[rf_next]
  /\ roundAff_remove(rf_next)
  /\ UNCHANGED <<here, walk, rf, busy, leaving>>

Left ==
  /\ leaving # NULL /\ rf_next = NULL
  /\ here' = here \ {leaving} /\ leaving' = NULL
  /\ UNCHANGED <<alloc_vars, lists, next_roundAffs, walk, rf, busy, rf_next, due>>

-----------------------------------------------------------------------------
(* update_round and update_second. *)

StartWalk(t) ==
  /\ leaving = NULL /\ walk = "none"
  /\ walk' = t /\ rf' = roundAffs
  /\ due' = {r \in ListOf(roundAffs, next) : type[r] = t}
  /\ UNCHANGED <<alloc_vars, lists, next_roundAffs, here, busy, leaving, rf_next>>

Visit ==
  /\ walk # "none" /\ ~busy /\ rf # NULL
  /\ busy' = TRUE /\ next_roundAffs' = next[rf]
  /\ due' = due \ {rf}
  /\ UNCHANGED <<alloc_vars, lists, here, walk, rf, leaving, rf_next>>

(* Its time is over.  The record is read no more. *)
Expires ==
  /\ Acts
  /\ roundAff_remove(rf)
  /\ UNCHANGED <<here, walk, rf, busy, leaving, rf_next>>

Treated ==
  /\ busy /\ leaving = NULL
  /\ busy' = FALSE /\ rf' = next_roundAffs
  /\ UNCHANGED <<alloc_vars, lists, next_roundAffs, here, walk, leaving, rf_next, due>>

EndWalk ==
  /\ walk # "none" /\ rf = NULL
  /\ walk' = "none"
  /\ UNCHANGED <<alloc_vars, lists, next_roundAffs, here, rf, busy, leaving, rf_next, due>>

Next ==
  \/ \E ch \in Owner : Enter(ch) \/ Leaves(ch) \/ \E t \in Types : Given(ch, t)
  \/ LosesAffect \/ Left
  \/ \E t \in Types : StartWalk(t)
  \/ Visit \/ Expires \/ Treated \/ EndWalk

Spec == Init /\ [][Next]_vars

-----------------------------------------------------------------------------
(* Properties. *)

(* The records in use are those of the global list, and the list of each   *)
(* character has those of them that are his: no record is lost, or freed   *)
(* while a list still leads to it.  Their owners are in the world: the     *)
(* walk uses the record of the owner unchecked.                            *)
ListsAgree ==
  /\ held = ListOf(roundAffs, next)
  /\ \A ch \in Owner : ListOf(my_roundAffs[ch], my_next) = {r \in held : owner[r] = ch}
  /\ \A r \in held : owner[r] \in here
  /\ leaving # NULL /\ rf_next # NULL => rf_next \in held /\ owner[rf_next] = leaving

(* The walk treats every affect of its type that was in the list when it   *)
(* started, and is still there, exactly once, whoever dies on the way: the *)
(* ones it has to treat are the ones its cursor leads to.                  *)
WalkCovers ==
  walk # "none" =>
    LET rest == ListOf(IF busy THEN next_roundAffs ELSE rf, next)
    IN  rest \subseteq held /\ due = {r \in rest : type[r] = walk}

=============================================================================
