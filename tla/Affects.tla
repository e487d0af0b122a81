------------------------------ MODULE Affects ------------------------------
(***************************************************************************)
(* The spells and objects that change a player's numbers and give him      *)
(* abilities for a while (affect.c, the spells of magic.affect.c), and how *)
(* they are taken off and put on again when he is saved, dies, enters the  *)
(* game or is read from the file (character.c).                            *)
(*                                                                         *)
(* num is one of the numbers the file keeps (max_hit, max_mana, max_move): *)
(* what is on a player is part of it.  base is what it would be without,   *)
(* which the code keeps nowhere.                                           *)
(***************************************************************************)
EXTENDS Integers, FiniteSets, Sums

CONSTANTS
  Spell, Pieces, Mod,  (* Pieces[s]: affects it makes, Mod[p]: of a part  *)
  Lasts, Bit,          (* of a spell: the duration, the ability or NoBit    *)
  Joins, Averages,     (* the spells cast with affect_join, and avg_dur    *)
  Item, ItemMod, ItemBit, Evil,   (* Evil: objects the good cannot wear    *)
  Round, RoundBit,     (* affects for rounds; they change no number        *)
  MaxBase,             (* bound of base                                    *)
  MaxMod, MaxDur,      (* bounds of a joined modifier and duration         *)
  NoBit

(* Spells and objects have finitely many parts, which are added up.        *)
ASSUME AffectsAssumption ==
  /\ \A x \in Spell : /\ IsFiniteSet(Pieces[x]) /\ Lasts[x] \in Nat
                      /\ \A p \in Pieces[x] : Mod[p] \in Int
  /\ IsFiniteSet(Item) /\ \A i \in Item : ItemMod[i] \in Int
  /\ MaxBase \in Nat

VARIABLES
  where,               (* "game", "menu", or "out": only the file has him  *)
  num, base, bits, affected, worn, rounds,
  lost,                (* objects that are not his                         *)
  good,
  saved

aff_vars == <<where, num, base, bits, affected, worn, rounds, lost, good, saved>>

Affect == [spell : Spell, part : UNION {Pieces[s] : s \in Spell}, mod : Int, dur : Nat]

AffOK ==
  /\ where \in {"game", "menu", "out"} /\ num \in Int /\ base \in 0..MaxBase
  /\ bits \subseteq {Bit[s] : s \in Spell} \cup {ItemBit[i] : i \in Item} \cup {RoundBit[r] : r \in Round}
  /\ affected \subseteq Affect /\ worn \subseteq Item /\ rounds \subseteq Round
  /\ lost \subseteq Item \ worn /\ good \in BOOLEAN
  /\ saved.num \in Int /\ saved.affected \subseteq Affect /\ saved.base \in 0..MaxBase

SumOf(as) == Total([a \in as |-> a.mod], as)
Weighs(ws) == Total(ItemMod, ws)
Bits(as) == {Bit[a.spell] : a \in as} \ {NoBit}
ItemBits(ws) == {ItemBit[i] : i \in ws} \ {NoBit}
Gives(as, ws, rs) == Bits(as) \cup ItemBits(ws) \cup {RoundBit[r] : r \in rs}

(* Mutant: affect_total puts nothing on again. *)
taken_off(b, as, ws, rs) == b
(* affect_total: all is taken off and put on.                              *)
affect_total(b, as, ws, rs) == b \cup Gives(as, ws, rs)

AffInit ==
  /\ where = "out" /\ num = 0 /\ base = 0 /\ bits = {} /\ affected = {} /\ worn = {} /\ rounds = {}
  /\ lost = {} /\ good = TRUE
  /\ saved = [num |-> 0, affected |-> {}, base |-> 0]

-----------------------------------------------------------------------------
(* He ends up with affects as, after those of off were removed. *)
Put(as, off) ==
  /\ affected' = as
  /\ num' = num + SumOf(as \ affected) - SumOf(affected \ as)
  /\ bits' = affect_total(bits \ Bits(off), as, worn, rounds)

Playing == where = "game"
Fresh(s) == {[spell |-> s, part |-> p, mod |-> Mod[p], dur |-> Lasts[s]] : p \in Pieces[s]}
Of(s) == {a \in affected : a.spell = s}

(* Most spells do nothing to one who has them.                             *)
affect_to_char(s) ==
  /\ Playing /\ s \notin Joins /\ Of(s) = {}
  /\ Put(affected \cup Fresh(s), {})
  /\ UNCHANGED <<where, base, worn, rounds, lost, good, saved>>

(* The others take the first he has of them off and put it on again,       *)
(* changed: the modifiers are added, the durations added or averaged.      *)
Joined(f, a) ==
  LET both == f.dur + a.dur
  IN  [f EXCEPT !.mod = @ + a.mod, !.dur = IF f.spell \in Averages THEN both \div 2 ELSE both]

affect_join(s) ==
  /\ Playing /\ s \in Joins
  /\ \/ Of(s) = {} /\ Put(affected \cup Fresh(s), {})
     \/ \E a \in Of(s) :
          LET again == {Joined(f, a) : f \in Fresh(s)} IN
          /\ \A f \in again : f.mod \in -MaxMod..MaxMod /\ f.dur <= MaxDur
          /\ Put((affected \ {a}) \cup again, {a})
  /\ UNCHANGED <<where, base, worn, rounds, lost, good, saved>>

affect_from_char(s) ==
  /\ Playing /\ Of(s) # {}
  /\ Put(affected \ Of(s), Of(s))
  /\ UNCHANGED <<where, base, worn, rounds, lost, good, saved>>

(* update_tick: those that have lasted are removed.  Mutant: one tick late. *)
OverLate(a) == a.dur < 0
Over(a) == a.dur = 0

update_tick ==
  LET ends == {a \in affected : Over(a)}
      left == {[a EXCEPT !.dur = @ - 1] : a \in affected \ ends}
  IN
  /\ Playing /\ affected # {}
  /\ affected' = left
  /\ num' = num - SumOf(ends)
  /\ bits' = affect_total(bits \ Bits(ends), left, worn, rounds)
  /\ UNCHANGED <<where, base, worn, rounds, lost, good, saved>>

round_to_char(r) ==
  /\ Playing /\ r \notin rounds
  /\ rounds' = rounds \cup {r}
  /\ bits' = affect_total(bits \cup {RoundBit[r]}, affected, worn, rounds')
  /\ UNCHANGED <<where, num, base, affected, worn, lost, good, saved>>

round_remove(r) ==
  /\ Playing /\ r \in rounds
  /\ rounds' = rounds \ {r}
  /\ bits' = affect_total(bits \ {RoundBit[r]}, affected, worn, rounds')
  /\ UNCHANGED <<where, num, base, affected, worn, lost, good, saved>>

-----------------------------------------------------------------------------
(* Objects. *)
Zaps(i) == good /\ i \in Evil

equip_char(i) ==
  /\ Playing /\ i \notin worn \cup lost
  /\ IF Zaps(i)
     THEN lost' = lost \cup {i} /\ UNCHANGED <<worn, num, bits>>
     ELSE /\ worn' = worn \cup {i}
          /\ num' = num + ItemMod[i]
          /\ bits' = affect_total(bits \cup ItemBits({i}), affected, worn', rounds)
          /\ UNCHANGED lost
  /\ UNCHANGED <<where, base, affected, rounds, good, saved>>

unequip_char(i) ==
  /\ Playing /\ i \in worn
  /\ worn' = worn \ {i}
  /\ num' = num - ItemMod[i]
  /\ bits' = affect_total(bits \ ItemBits({i}), affected, worn', rounds)
  /\ UNCHANGED <<where, base, affected, rounds, lost, good, saved>>

do_get(i) ==
  /\ Playing /\ i \in lost
  /\ lost' = lost \ {i}
  /\ UNCHANGED <<where, num, base, bits, affected, worn, rounds, good, saved>>

(* change_alignment: he keeps on what he may not put on.                   *)
change_alignment ==
  /\ Playing /\ good' = ~good
  /\ UNCHANGED <<where, num, base, bits, affected, worn, rounds, lost, saved>>

(* A level is won, or lost points by dying or fleeing.                     *)
advance_level(n) ==
  /\ Playing /\ n \in {1, -1} /\ base + n \in 0..MaxBase
  /\ base' = base + n /\ num' = num + n
  /\ UNCHANGED <<where, bits, affected, worn, rounds, lost, good, saved>>

-----------------------------------------------------------------------------
(* What char_to_store writes of one with number n who wears ws.            *)
(* Mutant: the spells are saved, and left in the number. *)
Stored_with(n, ws) == [num |-> n - Weighs(ws), affected |-> affected, base |-> base]
Stored(n, ws) == [num |-> n - Weighs(ws) - SumOf(affected), affected |-> affected, base |-> base]

(* Saved while he plays: all is taken off and put on again, and what does  *)
(* not suit him any more falls to the ground.                              *)
save_record ==
  LET zapped == {i \in worn : Zaps(i)} IN
  /\ Playing
  /\ saved' = Stored(num, worn)
  /\ worn' = worn \ zapped /\ lost' = lost \cup zapped
  /\ num' = num - Weighs(zapped)
  /\ bits' = affect_total(bits \ Gives(affected, worn, {}), affected, worn', rounds)
  /\ UNCHANGED <<where, base, affected, rounds, good>>

(* Mutant: what he wears is lost without being taken off. *)
Bare_off(ws) == num
Bare(ws) == num - Weighs(ws)

(* do_rent, check_idling, kill_char: the objects leave him, the affects of *)
(* rounds end, and he is saved.  Without a connection the record is freed. *)
leave_world(dies, linked) ==
  /\ Playing
  /\ worn' = {} /\ rounds' = {}
  /\ lost' = IF dies THEN Item ELSE lost
  /\ saved' = Stored(Bare(worn), {})
  /\ where' = IF linked THEN "menu" ELSE "out"
  /\ IF linked
     THEN /\ num' = Bare(worn)
          /\ bits' = affect_total(bits \ Gives({}, worn, rounds), affected, {}, {})
          /\ UNCHANGED <<base, affected>>
     ELSE num' = 0 /\ base' = 0 /\ bits' = {} /\ affected' = {}
  /\ UNCHANGED good

(* The server stops, or he leaves the menu.                                *)
crash ==
  /\ where # "out"
  /\ where' = "out" /\ num' = 0 /\ base' = 0
  /\ bits' = {} /\ affected' = {} /\ worn' = {} /\ rounds' = {} /\ lost' = {}
  /\ UNCHANGED <<good, saved>>

store_to_char ==
  /\ where = "out" /\ where' = "menu"
  /\ affected' = saved.affected
  /\ num' = saved.num + SumOf(saved.affected)
  /\ bits' = affect_total(bits, saved.affected, {}, {})
  /\ base' = saved.base
  /\ UNCHANGED <<worn, rounds, lost, good, saved>>

(* Mutant: the affects are put on without having been taken off. *)
reset_twice == num + SumOf(affected)
reset_char == (num - SumOf(affected)) + SumOf(affected)

enter_game ==
  /\ where = "menu" /\ where' = "game"
  /\ num' = reset_char
  /\ bits' = affect_total(bits \ Bits(affected), affected, {}, {})
  /\ UNCHANGED <<base, affected, worn, rounds, lost, good, saved>>

AffNext ==
  \/ \E s \in Spell : affect_to_char(s) \/ affect_join(s) \/ affect_from_char(s)
  \/ \E r \in Round : round_to_char(r) \/ round_remove(r)
  \/ \E i \in Item : equip_char(i) \/ unequip_char(i) \/ do_get(i)
  \/ \E n \in {1, -1} : advance_level(n)
  \/ \E dies, linked \in BOOLEAN : leave_world(dies, linked)
  \/ update_tick \/ change_alignment \/ save_record \/ crash \/ store_to_char \/ enter_game

AffSpec == AffInit /\ [][AffNext]_aff_vars

-----------------------------------------------------------------------------
(* Whatever was put on, ended, saved, read and worn, the number is what is *)
(* his for good and what is on him now, in memory and in the file; and he  *)
(* has the abilities something on him gives, and no others.                *)
EffectsAgree ==
  /\ where # "out" => num = base + SumOf(affected) + Weighs(worn)
  /\ saved.num = saved.base
  /\ where # "out" => bits = Gives(affected, worn, rounds)

=============================================================================
