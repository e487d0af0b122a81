----------------------------- MODULE MCServices -----------------------------
(***************************************************************************)
(* The services around the game, side by side: the editors of the world,   *)
(* boards and mailboxes, the pager and the help table, money, rented       *)
(* objects with lockers, insurance and pawn shop, the resets of zones with *)
(* their doors, and the shutdown.  They share no state, so a behaviour     *)
(* runs one of them, its part, and the others stay as they start: the run  *)
(* has the sum of their states instead of the product.                     *)
(***************************************************************************)
EXTENDS Letters, Zones, Money, Pager, Editors, Stash

CONSTANTS
  Starting,           (* files the server starts on, for a part of the stash each *)
  Minutes, MaxTyped   (* those of Reboot                                          *)

VARIABLES
  part,
  late, lever, friend, nr, manualshutdown, stopshutdown, autoshutdown,
  shutdowngame, typed                                            (* Reboot  *)

-----------------------------------------------------------------------------
(* Keywords of one and two letters, one of them the start of others. *)
Keywords == {<<1>>, <<2>>, <<1, 1>>, <<1, 2>>, <<2, 1>>, <<2, 2>>}

(* A word holds four values, so that sums overflow. *)
Prices == [x |-> 3, y |-> 1, z |-> 0]
Offers == [x |-> 2, y |-> 0, z |-> 0]

(* An object between a player and a wizard, two objects of one player, of  *)
(* which the shop takes one, a key that cannot be rented, but insured, and *)
(* one that was insured before the world lost it.                          *)
KindOf == [a |-> "thing", b |-> "thing", k |-> "key", g |-> "key"]
SizeOf == [a |-> 2, b |-> 1, k |-> 1, g |-> 1]
Start(rented, pawned, insured, zoned) ==
  [stash |-> rented, locker |-> [p \in DOMAIN rented |-> {}], pawn |-> pawned,
   insured |-> [count |-> Len(insured), entries |-> insured], zones |-> zoned]
Beginnings == [
  rented  |-> Start([p |-> {}, w |-> {}], {"a"}, <<>>, {}),
  locker  |-> Start([p |-> {"a"}], {"b"}, <<>>, {}),
  insured |-> Start([p |-> {}, w |-> {}], {}, <<>>, {"k"}),
  lapsed  |-> Start([p |-> {}], {}, <<[obj |-> "g", owner |-> "p"]>>, {"k"})]

(* Two rooms with two doors between them, of which the resets set one on   *)
(* one side only, and a maze, in zones of the modes 1 and 2 with one of    *)
(* mode -1 between, whose commands are not done: the constants of Zones.   *)
Opposite == [E |-> "W", W |-> "E"]
Starts == [ab |-> "a", ba |-> "b", aw |-> "a", be |-> "b", mb |-> "m", mm |-> "m"]
Aims == [ab |-> "E", ba |-> "W", aw |-> "W", be |-> "E", mb |-> "W", mm |-> "E"]
Ends == [ab |-> "b", ba |-> "a", aw |-> "b", be |-> "a", mb |-> "b", mm |-> "m"]
Modes == <<1, -1, 2>>
Lifespans == <<4, 4, 4>>
ZonesOf == [a |-> 1, b |-> 1, m |-> 3]
Commands == << [ab |-> 2, ba |-> 2, aw |-> 1], [be |-> 1], <<>> >>
Mazes == << {}, {}, {"m"} >>

Delays == {-1, 2}

Down == INSTANCE Reboot WITH here <- lever

-----------------------------------------------------------------------------
EditorParts == {"pair", "alone", "atobjects"}
StashParts == {"rented", "locker", "insured", "lapsed"}
Parts == {"boxes", "pages", "coins", "doors", "down"} \cup EditorParts \cup StashParts

down_vars == <<late, lever, friend, nr, manualshutdown, stopshutdown, autoshutdown, shutdowngame, typed>>
services_vars == <<part, edit_vars, box_vars, page_vars, coin_vars, stash_vars, zone_vars, down_vars>>

ASSUME DownAssumption == Minutes \subseteq Int /\ MaxTyped \in Nat

ASSUME StartingAssumption ==
  \A p \in StashParts : \E players \in SUBSET Renter : Starting[p] \in Files(players)

(* Two immortals at three zones; one at all four kinds; and one at objects *)
(* of any type.                                                            *)
EntriesOf(kinds, values, types) ==
  /\ kind \in kinds
  /\ \A n \in DOMAIN table : table[n].value \in values /\ table[n].type \in types
  /\ \A i \in DOMAIN editing : editing[i].copy.value \in values /\ editing[i].copy.type \in types
Single == \A e \in Editor \ {"a"} : ~mode[e]
Setting ==
  CASE part = "alone" -> EntriesOf({"OBJ", "MOB", "ROOM", "ZONE"}, {0, 1}, {"SCROLL"}) /\ Single
    [] part = "atobjects" -> EntriesOf({"OBJ"}, {0}, Types) /\ Single
                             /\ \A i \in DOMAIN editing : editing[i].nr = 1
    [] OTHER -> EntriesOf({"ZONE"}, {0}, {"LIGHT"})

(* A part that does not run stays in one of its initial states. *)
OneOf(S) == CHOOSE x \in S : TRUE

ServicesInit ==
  /\ part \in Parts
  /\ CoinInit /\ Down!Init
  /\ EditInit /\ Setting
  /\ BoxInit /\ (part # "boxes" => box = "board" /\ held = [i \in Item |-> "p"])
  /\ PageInit /\ (part # "pages" => screen = [p \in {"p", "q"} |-> 1])
  /\ StartsOn(Starting[IF part \in StashParts THEN part ELSE "rented"])
  /\ ZoneInit /\ (part # "doors" => dirs = OneOf(Turned(Built, Resets(Zone))))

(* A step of a part. *)
EditorStep(A) ==
  /\ part \in EditorParts /\ A
  /\ UNCHANGED <<part, box_vars, page_vars, coin_vars, stash_vars, zone_vars, down_vars>>
  /\ Setting'
BoxStep(A) ==
  /\ part = "boxes" /\ A
  /\ UNCHANGED <<part, edit_vars, page_vars, coin_vars, stash_vars, zone_vars, down_vars>>
PageStep(A) ==
  /\ part = "pages" /\ A
  /\ UNCHANGED <<part, edit_vars, box_vars, coin_vars, stash_vars, zone_vars, down_vars>>
CoinsStep(A) ==
  /\ part = "coins" /\ A
  /\ UNCHANGED <<part, edit_vars, box_vars, page_vars, stash_vars, zone_vars, down_vars>>
StashStep(A) ==
  /\ part \in StashParts /\ A
  /\ UNCHANGED <<part, edit_vars, box_vars, page_vars, coin_vars, zone_vars, down_vars>>
DoorStep(A) ==
  /\ part = "doors" /\ A
  /\ UNCHANGED <<part, edit_vars, box_vars, page_vars, coin_vars, stash_vars, down_vars>>
DownStep(A) ==
  /\ part = "down" /\ A
  /\ UNCHANGED <<part, edit_vars, box_vars, page_vars, coin_vars, stash_vars, zone_vars>>

ServicesNext ==
  \/ EditorStep(EditNext) \/ BoxStep(BoxNext) \/ PageStep(PageNext) \/ CoinsStep(CoinNext)
  \/ StashStep(StashNext) \/ DoorStep(ZoneNext) \/ DownStep(Down!Next)

(* Who is asked goes on, and who wants to leave gets to Q again and again. *)
Enters(e) == EditorStep(EmptyLine(e))
Quits(e) == EditorStep(Quit(e))
Confirms(e) == EditorStep(\E yes \in BOOLEAN : Confirm(e, yes))

(* Every PULSE_ZONE pulses game_loop calls update_zones and auto_reboot;   *)
(* and it tests shutdowngame at every pulse.                               *)
Zonal == DoorStep(update_zones) \/ DownStep(Down!auto_reboot)

ServicesFairness ==
  /\ \A e \in Editor :
       WF_services_vars(Enters(e)) /\ SF_services_vars(Quits(e)) /\ WF_services_vars(Confirms(e))
  /\ WF_services_vars(Zonal) /\ WF_services_vars(DownStep(Down!pulse))

ServicesSpec == ServicesInit /\ [][ServicesNext]_services_vars /\ ServicesFairness

-----------------------------------------------------------------------------
(* Properties: those of the parts.  HeadsMatch of Letters, DoorsAgree of   *)
(* Zones, RebootKeeps and NoCoinsMade of Money, TurnsLatest and HelpFinds  *)
(* of Pager, UnitsApart of Editors, and NoMoreCopies and KeysReturned of   *)
(* Stash are checked as they are.                                          *)

(* Every part keeps its types. *)
TypesOK ==
  /\ EditTypeOK
  /\ BoxTypeOK
  /\ PageTypeOK
  /\ CoinTypeOK
  /\ StashTypeOK
  /\ ZoneTypeOK
  /\ Down!TypeOK

(* Who asks to leave his editor, whatever he is asked there, leaves it.    *)
Edits(e) == part \in EditorParts /\ sub_1[e] = "EDIT"
WhoAsksGetsOut == \A e \in Editor : []<>(~Edits(e) \/ down)

(* Every zone is reset again and again; one of mode 1 unless players come. *)
DoorZonesReset == part = "doors" => ZonesReset

(* Left alone, with his friend gone or late enough, Reboot ends the game.  *)
GoesDown == part = "down" => Down!GoesDown
=============================================================================
