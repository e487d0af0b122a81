------------------------------ MODULE Editors ------------------------------
(***************************************************************************)
(* The editors of the world: iedit, medit, redit and zedit (iedit.c,       *)
(* medit.c, redit.c, zedit.c) over the list `editing' of edit.c.  An       *)
(* immortal who edits an object, mobile, room or zone has a copy of its    *)
(* entry; a line he types is an answer to the question of his stage        *)
(* (sub_2), a number or a letter of the menu (no stage), or the answer to  *)
(* "Apply this to the table ?" (sub_3).  The copy goes into the table by   *)
(* S, by Q with yes, and by the letters that go on to another entry.       *)
(*                                                                         *)
(* All the fields an editor asks for are one "value", but for the type of  *)
(* an object, which decides what is asked, and the zone of a room, which   *)
(* is asked for and never saved.  One behaviour has editors of one kind:   *)
(* find_editing compares the numbers of one kind only.                     *)
(***************************************************************************)
EXTENDS Integers, SequencesExt

CONSTANTS
  Editor,      (* the immortals who may edit                               *)
  Kinds,       (* what they edit: some of "OBJ", "MOB", "ROOM", "ZONE"     *)
  Used,        (* the entries of a table are 1 .. Used - 1                 *)
  Values,      (* values of the fields of an entry                         *)
  Types        (* the item types the objects of the table may have         *)

ASSUME EditorsAssumption == Used \in Nat /\ Kinds \subseteq {"OBJ", "MOB", "ROOM", "ZONE"}

VARIABLES
  kind,               (* the kind edited                                   *)
  mode,               (* ch->mode is EDIT_MODE                             *)
  sub_1, sub_2, sub_3,(* ch->sub_1, 2, 3: the editor, his stage, a question *)
  editing,            (* the units: who edits which entry, and his copy    *)
  table,              (* objects, mobiles, world or zones                  *)
  live,               (* what the objects or mobiles in the world show     *)
  down                (* the server has stopped                            *)

edit_vars == <<kind, mode, sub_1, sub_2, sub_3, editing, table, live, down>>

Numbers == 1 .. Used - 1
Slot == 1 .. Used          (* zedit also takes the number after the last   *)
EntryRecord == [value : Values, type : Types, zone : {0, 1}]
EditUnit == [who : Editor, nr : Slot, copy : EntryRecord]

-----------------------------------------------------------------------------
(* What the menus ask.  A chain says which questions may follow which;     *)
(* after a question in no chain the menu is shown again.  The flags of an  *)
(* exit decide whether the key of a door is asked for.                     *)
SpellLevel(t) == {<<"SPEL_L", IF t \in {"SCROLL", "POTION"} THEN "SPEL_1" ELSE "WAND_M">>}
Spells == {<<"SPEL_1", "SPEL_2">>, <<"SPEL_2", "SPEL_3">>}
Charges == {<<"WAND_M", "WAND_C">>, <<"WAND_C", "SPEL_3">>}
Weapons == {<<"WEAP_M", "WEAP_S">>, <<"WEAP_S", "WEAP_N">>, <<"WEAP_N", "WEAP_T">>}
Container(t) == IF t = "CONTAINER" THEN {} ELSE {<<"CONT_S", "DCON_C">>}
DrinksStuck == {<<"DCON_C", "DCON_T">>, <<"DCON_T", "DCON_P">>, <<"DCON_P", "DCON_P">>}  (* a mutant *)
Drinks == {<<"DCON_C", "DCON_T">>, <<"DCON_T", "DCON_P">>}
Applies == {<<"APPL_1", "APPM_1">>, <<"APPM_1", "APPL_2">>, <<"APPL_2", "APPM_2">>}
Hits == {<<"HBASE", "HSDICE">>, <<"HSDICE", "HNDICE">>}
Damages == {<<"DR", "SDICE">>, <<"SDICE", "NDICE">>}
Positions == {<<"POS", "DPOS">>}
Exits == {<<"D_WORD", "D_DESC">>, <<"D_DESC", "D_EXIT">>,
          <<"D_EXIT", "D_KEY">>, <<"D_EXIT", "D_TO">>, <<"D_KEY", "D_TO">>}
Levels == {<<"LOW", "HIGH">>}

(* The first question about the values of an object, if it has one.        *)
ValueStage(t) == CASE t \in {"WAND", "STAFF", "SCROLL", "POTION"} -> {"SPEL_L"}
                   [] t \in {"WORN", "ARMOR"}         -> {"AC"}
                   [] t = "WEAPON"                    -> {"WEAP_M"}
                   [] t = "FIREWEAPON"                -> {"FIRE_M"}
                   [] t \in {"DRINKCON", "CONTAINER"} -> {"CONT_S"}
                   [] t = "LIGHT"                     -> {"LIGHT"}
                   [] t = "TRAP"                      -> {"TRAP"}
                   [] OTHER                           -> {}

(* The questions that lead back to the menu at once.                       *)
ObjStrings == {"NAME", "WORN", "ROOM", "USED"}
ObjNumbers == {"WEIGHT", "COST", "GPD", "LEVEL"}
MobStrings == {"NAME", "MOVE", "ROOM", "DESC"}
MobTypes == {"SEX", "CLASS"}
MobNumbers == {"GOLD", "ALIGN", "AC", "LEVEL", "EXP", "HR"}
RoomStrings == {"NAME", "DESC"}
ZoneStrings == {"NAME", "INFO", "PATH"}
ZoneTypes == {"ALIGN", "AGGR", "RESET"}
ZoneNumbers == {"LIFE", "TOP"}

(* The questions that are asked again until an empty line is typed.        *)
ObjBits == {"WEAR", "FLAG"}
MobBits == {"ACT", "AFFECT"}
RoomBits == {"FLAGS"}
Toggles == ObjBits \cup MobBits \cup RoomBits \cup {"D_EXIT"}

(* The questions a number of the menu leads to.                            *)
ObjMenu(t) == ObjStrings \cup ObjNumbers \cup ObjBits \cup {"TYPE", "APPL_1"} \cup ValueStage(t)
MobMenu == MobStrings \cup MobTypes \cup MobNumbers \cup MobBits \cup {"HBASE", "DR", "POS"}
RoomMenu == RoomStrings \cup RoomBits \cup {"SECTOR", "ZONE", "D_WORD"}
ZoneMenu == ZoneStrings \cup ZoneTypes \cup ZoneNumbers \cup {"LOW"}
Menu(t) == CASE kind = "OBJ"  -> ObjMenu(t)
             [] kind = "MOB"  -> MobMenu
             [] kind = "ROOM" -> RoomMenu
             [] kind = "ZONE" -> ZoneMenu

(* The questions whose answers do_iedit, do_medit, do_redit and do_zedit   *)
(* give to a handler; an answer to any other is ignored.                   *)
ObjHandled == ObjMenu("OTHER") \cup
  {"SPEL_L", "SPEL_1", "SPEL_2", "SPEL_3", "WAND_M", "WAND_C", "AC", "LIGHT", "WEAP_M", "WEAP_S",
   "WEAP_N", "WEAP_T", "APPL_2", "APPM_1", "APPM_2", "CONT_S", "DCON_C", "DCON_T", "DCON_P",
   "TRAP"}
MobHandled == MobMenu \cup {"HSDICE", "HNDICE", "SDICE", "NDICE", "DPOS"}
RoomHandled == RoomMenu \cup {"D_DESC", "D_EXIT", "D_KEY", "D_TO"}
ZoneHandled == ZoneMenu \cup {"HIGH"}
Handled == CASE kind = "OBJ"  -> ObjHandled
             [] kind = "MOB"  -> MobHandled
             [] kind = "ROOM" -> RoomHandled
             [] kind = "ZONE" -> ZoneHandled

(* All the stages: none, those of the four kinds, the question of a gun's  *)
(* values, which no handler takes, and the one of Q.                       *)
Stages == {"NONE", "FIRE_M", "QUIT"} \cup ObjHandled \cup MobHandled \cup RoomHandled \cup ZoneHandled

(* The letters of the menus of a kind: S saves, Q and X end the edit, N and *)
(* P go on with a save, J and K without, G goes to a number.  Those of an  *)
(* object are the same in the handlers of the other kinds.                 *)
ObjKeys == {"S", "Q", "X", "N", "P", "J", "K", "G"}
MobKeys == ObjKeys
RoomKeys == ObjKeys
ZoneKeys == ObjKeys \ {"G"}
Keys == CASE kind = "OBJ"  -> ObjKeys
          [] kind = "MOB"  -> MobKeys
          [] kind = "ROOM" -> RoomKeys
          [] kind = "ZONE" -> ZoneKeys

Chains(t) == SpellLevel(t) \cup Spells \cup Charges \cup Weapons \cup Container(t) \cup Drinks
             \cup Applies \cup Hits \cup Damages \cup Positions \cup Exits \cup Levels

(* The stages after an answer. *)
After(stage, t) ==
  LET next == {chain[2] : chain \in {chain \in Chains(t) : chain[1] = stage}}
  IN IF next = {} THEN {"NONE"} ELSE next

(* The copies an answer may make of a copy. *)
Changed(stage, copy) ==
  CASE stage = "TYPE" -> {[copy EXCEPT !.type = t] : t \in Types}
    [] stage = "ZONE" -> {[copy EXCEPT !.zone = z] : z \in {0, 1}}
    [] OTHER          -> {[copy EXCEPT !.value = v] : v \in Values}

-----------------------------------------------------------------------------
(* The list of units.  find_editunit; find_editing: 2 is "already editing",*)
(* 1 "another has it", 0 free; del_editing; new_editing.                   *)
First(S) == IF S = {} THEN 0 ELSE Min(S)
find_editunit(e) == First({i \in DOMAIN editing : editing[i].who = e})
has_unit(e) == find_editunit(e) # 0
unit(e) == editing[find_editunit(e)]

(* Mutant: only the caller's own unit counts. *)
find_own(list, e, n) == IF \E i \in DOMAIN list : list[i].who = e THEN 2 ELSE 0
find_editing(list, e, n) ==
  LET i == First({i \in DOMAIN list : list[i].who = e \/ list[i].nr = n})
  IN IF i = 0 THEN 0 ELSE IF list[i].who = e THEN 2 ELSE 1

del_editing(e) == RemoveAt(editing, find_editunit(e))
new_editing(list, t, e, n) == <<[who |-> e, nr |-> n, copy |-> t[n]]>> \o list

ed_is_modified(e) == LET u == unit(e) IN
  \/ u.copy.value # table[u.nr].value
  \/ u.copy.type # table[u.nr].type

(* ed_save_edit: objects[] and mobiles[] get the whole copy, world[] and   *)
(* zones[] field by field.                                                 *)
Applied(n, copy) == IF kind \in {"OBJ", "MOB"} THEN copy ELSE [copy EXCEPT !.zone = table[n].zone]
ed_save_edit(e) == LET u == unit(e) IN [table EXCEPT ![u.nr] = Applied(u.nr, u.copy)]

(* ie_effect, me_effect: what is in the world changes with the table.      *)
effect(e) == LET u == unit(e) IN [live EXCEPT ![u.nr] = u.copy.value]

Ask(e, stage) == sub_2' = [sub_2 EXCEPT ![e] = stage]
ToTable(e) == table' = ed_save_edit(e) /\ live' = effect(e)
Edited(e, copy) ==
  editing' = [editing EXCEPT ![find_editunit(e)].copy = copy]

(* The end of an edit: sub_1 = sub_2 = sub_3 = EDIT_NONE. *)
Cleared(e) ==
  /\ sub_1' = [sub_1 EXCEPT ![e] = "NONE"]
  /\ sub_2' = [sub_2 EXCEPT ![e] = "NONE"]
  /\ sub_3' = [sub_3 EXCEPT ![e] = "NONE"]

-----------------------------------------------------------------------------
EditTypeOK ==
  /\ kind \in Kinds
  /\ mode \in [Editor -> BOOLEAN]
  /\ sub_1 \in [Editor -> {"NONE", "EDIT"}]
  /\ sub_2 \in [Editor -> Stages]
  /\ sub_3 \in [Editor -> {"NONE", "YESNO"}]
  /\ editing \in Seq(EditUnit)
  /\ table \in [Slot -> EntryRecord]
  /\ live \in [Slot -> Values]
  /\ down \in BOOLEAN

EditInit ==
  /\ kind \in Kinds
  /\ mode = [e \in Editor |-> FALSE]
  /\ sub_1 = [e \in Editor |-> "NONE"]
  /\ sub_2 = [e \in Editor |-> "NONE"]
  /\ sub_3 = [e \in Editor |-> "NONE"]
  /\ editing = <<>>
  /\ \E v \in Values, t \in Types :
       /\ table = [n \in Slot |-> [value |-> v, type |-> t, zone |-> 0]]
       /\ live = [n \in Slot |-> v]
  /\ down = FALSE

Playing(e) == ~down /\ sub_1[e] = "NONE"
AtMenu(e) == ~down /\ sub_1[e] = "EDIT" /\ sub_2[e] = "NONE" /\ has_unit(e)
Asked(e) == ~down /\ sub_1[e] = "EDIT" /\ sub_2[e] # "NONE" /\ has_unit(e)

(* do_edit, ed_quit: into and out of edit mode, without an entry. *)
do_edit(e) ==
  /\ Playing(e) /\ ~mode[e]
  /\ mode' = [mode EXCEPT ![e] = TRUE]
  /\ UNCHANGED <<kind, sub_1, sub_2, sub_3, editing, table, live, down>>

ed_quit(e) ==
  /\ Playing(e) /\ mode[e]
  /\ mode' = [mode EXCEPT ![e] = FALSE]
  /\ Cleared(e)
  /\ UNCHANGED <<kind, editing, table, live, down>>

(* do_iedit # and the other three, without an entry: refused when another  *)
(* has it; one's own old unit would be removed, and the entry not opened.  *)
Open(e, n) ==
  /\ Playing(e)
  /\ n \in IF kind = "ZONE" THEN Slot ELSE Numbers
  /\ mode' = [mode EXCEPT ![e] = TRUE]
  /\ LET ret == find_editing(editing, e, n) IN
     IF ret = 0 THEN /\ editing' = new_editing(editing, table, e, n)
                     /\ sub_1' = [sub_1 EXCEPT ![e] = "EDIT"]
                     /\ Ask(e, "NONE")
     ELSE /\ editing' = IF ret = 2 THEN del_editing(e) ELSE editing
          /\ UNCHANGED <<sub_1, sub_2>>
  /\ UNCHANGED <<kind, sub_3, table, live, down>>

(* A number of the menu.  The question about an exit starts with a new     *)
(* record of it in the copy.                                               *)
Choose(e, stage) ==
  /\ AtMenu(e) /\ stage \in Menu(unit(e).copy.type)
  /\ Ask(e, stage)
  /\ IF stage = "D_WORD" THEN \E v \in Values : Edited(e, [unit(e).copy EXCEPT !.value = v])
     ELSE UNCHANGED editing
  /\ UNCHANGED <<kind, mode, sub_1, sub_3, table, live, down>>

(* An answer that is no valid one leaves all as it is.  An empty line      *)
(* leaves the field as it is and goes on.                                  *)
EmptyLine(e) ==
  /\ Asked(e) /\ sub_2[e] \in Handled
  /\ \E stage \in After(sub_2[e], unit(e).copy.type) : Ask(e, stage)
  /\ UNCHANGED <<kind, mode, sub_1, sub_3, editing, table, live, down>>

Answer(e) ==
  /\ Asked(e) /\ sub_2[e] \in Handled
  /\ \E copy \in Changed(sub_2[e], unit(e).copy) : Edited(e, copy)
  /\ \E stage \in IF sub_2[e] \in Toggles THEN {sub_2[e]} ELSE After(sub_2[e], unit(e).copy.type) :
       Ask(e, stage)
  /\ UNCHANGED <<kind, mode, sub_1, sub_3, table, live, down>>

(* S *)
Save(e) ==
  /\ AtMenu(e)
  /\ IF ed_is_modified(e) \/ kind \in {"ROOM", "ZONE"} THEN ToTable(e) ELSE UNCHANGED <<table, live>>
  /\ UNCHANGED <<kind, mode, sub_1, sub_2, sub_3, editing, down>>

(* "Oops. Your edit record not found!" is the way out without a unit.      *)
NotFound(e) == Cleared(e) /\ UNCHANGED editing

(* Q, and the answer to its question; X. *)
Quit(e) ==
  /\ ~down /\ sub_1[e] = "EDIT" /\ sub_2[e] = "NONE"
  /\ IF ~has_unit(e) THEN NotFound(e)
     ELSE IF ed_is_modified(e)
     THEN /\ Ask(e, "QUIT") /\ sub_3' = [sub_3 EXCEPT ![e] = "YESNO"]
          /\ UNCHANGED <<sub_1, editing>>
     ELSE Cleared(e) /\ editing' = del_editing(e)
  /\ UNCHANGED <<kind, mode, table, live, down>>

Confirm(e, yes) ==
  /\ Asked(e) /\ sub_2[e] = "QUIT" /\ sub_3[e] = "YESNO"
  /\ IF yes THEN ToTable(e) ELSE UNCHANGED <<table, live>>
  /\ Cleared(e) /\ editing' = del_editing(e)
  /\ UNCHANGED <<kind, mode, down>>

Abandon(e) ==
  /\ AtMenu(e)
  /\ Cleared(e) /\ editing' = del_editing(e)
  /\ UNCHANGED <<kind, mode, table, live, down>>

(* The next entry is opened without asking whether it may be: when another *)
(* edits it new_editing returns 0, and the menu is printed through it.     *)
GoOn(e, n, t) ==
  LET rest == del_editing(e) IN
  IF find_editing(rest, e, n) = 0
  THEN /\ editing' = new_editing(rest, t, e, n)
       /\ Ask(e, "NONE")
       /\ UNCHANGED <<sub_1, sub_3, down>>
  ELSE /\ editing' = rest /\ Cleared(e) /\ down' = TRUE

(* N, P, J and K: to a neighbour, with or without saving. *)
Next_edit(e, n, keep) ==
  /\ AtMenu(e) /\ n \in Numbers
  /\ n = unit(e).nr + 1 \/ n + 1 = unit(e).nr
  /\ IF keep /\ ed_is_modified(e) THEN ToTable(e) ELSE UNCHANGED <<table, live>>
  /\ GoOn(e, n, table')
  /\ UNCHANGED <<kind, mode>>

(* G #: to any entry; what is in the world does not change. *)
Change_edit(e, n) ==
  /\ AtMenu(e) /\ "G" \in Keys /\ n \in Numbers
  /\ table' = IF ed_is_modified(e) THEN ed_save_edit(e) ELSE table
  /\ GoOn(e, n, table')
  /\ UNCHANGED <<kind, mode, live>>

(* The editor leaves the game in the middle of it, and comes back with     *)
(* nothing set: char_from_world takes his unit away.                       *)
char_from_world(e) == editing' = IF has_unit(e) THEN del_editing(e) ELSE editing

Leave(e) ==
  /\ ~down
  /\ mode' = [mode EXCEPT ![e] = FALSE]
  /\ Cleared(e)
  /\ char_from_world(e)
  /\ UNCHANGED <<kind, table, live, down>>

EditStep(e) ==
  \/ do_edit(e) \/ ed_quit(e)
  \/ \E n \in Slot : Open(e, n)
  \/ AtMenu(e) /\ \E stage \in Menu(unit(e).copy.type) : Choose(e, stage)
  \/ EmptyLine(e) \/ Answer(e)
  \/ Save(e) \/ Quit(e) \/ Abandon(e)
  \/ \E yes \in BOOLEAN : Confirm(e, yes)
  \/ \E n \in Numbers, keep \in BOOLEAN : Next_edit(e, n, keep)
  \/ \E n \in Numbers : Change_edit(e, n)
  \/ Leave(e)

EditNext == \E e \in Editor : EditStep(e)

(* An editor who wants to leave types an empty line at every question, Q   *)
(* when he sees the menu, and answers its question.                        *)
EditFairness == \A e \in Editor :
  /\ WF_edit_vars(EmptyLine(e))
  /\ SF_edit_vars(Quit(e))
  /\ WF_edit_vars(\E yes \in BOOLEAN : Confirm(e, yes))

EditSpec == EditInit /\ [][EditNext]_edit_vars /\ EditFairness

-----------------------------------------------------------------------------
(* Whatever the editors open, leave, come back to and go on with, no two   *)
(* units are of one entry or of one editor, and who is in an editor has a  *)
(* unit: "Your edit record not found" is never said.                       *)
UnitsApart ==
  /\ \A i, j \in DOMAIN editing : i # j => /\ editing[i].nr # editing[j].nr
                                           /\ editing[i].who # editing[j].who
  /\ \A e \in DOMAIN sub_1 : sub_1[e] = "EDIT" => has_unit(e)

(* Q is a way out of every question: who types his way out leaves his      *)
(* editor.                                                                 *)
EditorsGetOut == \A e \in Editor : []<>(sub_1[e] = "NONE" \/ down)
=============================================================================
