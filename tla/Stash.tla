------------------------------- MODULE Stash -------------------------------
(***************************************************************************)
(* What players own when the server goes down or they leave: the file of   *)
(* rented objects of a player (stash.c, act.rent.c), his locker            *)
(* (locker.c), the list of the pawn shop (pawn.c) and the board of the     *)
(* insurance (insurance.c).  The game holds objects in memory, the disk    *)
(* holds files; most commands change both, and a crash leaves the files    *)
(* alone.                                                                  *)
(*                                                                         *)
(* An object stands for itself and for what is in it: Size is how many     *)
(* objects that are.  Places are sets of objects: the same object in two   *)
(* places is two copies of it.  What is paid is left out.                  *)
(***************************************************************************)
EXTENDS Integers, SequencesExt

CONSTANTS
  Renter, Immortal,    (* players; those of a level to use do_extractrent  *)
  Thing,
  Unrentable,          (* keys, corpses, what is marked NO_RENT or worn out *)
  Insurable,           (* of type ITEM_KEY                                 *)
  Gone,                (* with numbers that the world has no more          *)
  Tradable,            (* what the pawn shop takes                         *)
  Kind,                (* objects[obj->nr]                                 *)
  Size,
  Hands, MAX_LOCKER_ITEM, Kept, MAX_INSURE

ASSUME StashAssumption == IsFiniteSet(Renter) /\ MAX_INSURE \in Nat \ {0} /\ Unrentable \subseteq Thing

VARIABLES
  phase,               (* out, at the menu, playing or linkdead            *)
  room,
  game,                (* carried (worn too), off_world of the players, what lies about, *)
                       (* the pawn_list, the board and insurance_count     *)
  disk                 (* the files: .x of the players, their lockers, pawn, insurance *)

stash_vars == <<phase, room, game, disk>>

Players == DOMAIN phase
Rooms == {"rent", "locker", "shops"}
Empty == [obj |-> "none", owner |-> "none"]
BoardEntry == [obj : Thing, owner : Renter] \cup {Empty}
Slots == 1 .. MAX_INSURE

(* The files: what each player has rented and in his locker, the list of   *)
(* the pawn shop, the board, and what the zones load.                      *)
Boards == {b \in [count : -1 .. MAX_INSURE, entries : Seq(BoardEntry)] : b.count <= Len(b.entries)}
Files(players) == [stash : [players -> SUBSET Thing], locker : [players -> SUBSET Thing],
                   pawn : SUBSET Thing, insured : Boards, zones : SUBSET (Unrentable \ Gone)]

StashTypeOK ==
  /\ Players \subseteq Renter
  /\ phase \in [Players -> {"out", "menu", "play", "linkdead"}]
  /\ room \in [Players -> Rooms \cup {"limbo"}]
  /\ game \in [carried : [Players -> SUBSET Thing], locker : [Players -> SUBSET Thing], ground : SUBSET Thing,
               pawn : SUBSET Thing, board : [Slots -> BoardEntry], count : -1 .. MAX_INSURE]
  /\ disk \in Files(Players)

is_stashable(i) == i \notin Unrentable
Stashed(S) == {i \in S : is_stashable(i)}
unstash_item(S) == S \ Gone
count_num_objs(S) == MapThenSumSet(LAMBDA i : Size[i], S)

InWorld(p) == phase[p] \in {"play", "linkdead"}
Here(p, r) == phase[p] = "play" /\ room[p] = r

-----------------------------------------------------------------------------
(* The board of the insurance.  The shift of del_insurance ends one entry  *)
(* early and the last entry is cleared.                                    *)
del_insurance(board, nr) ==
  [i \in Slots |-> IF i = MAX_INSURE THEN Empty
                   ELSE IF i \in nr .. (MAX_INSURE - 2) THEN board[i + 1] ELSE board[i]]
save_insurance(g) == [count |-> g.count, entries |-> SubSeq(g.board, 1, g.count)]
load_insurance(written) == [i \in Slots |-> IF i <= written.count THEN written.entries[i] ELSE Empty]

(* What a boot reads: init_pawn and init_insurance, and of what the zones  *)
(* load what cannot be rented.                                             *)
boot_db(files) ==
  LET none == [p \in DOMAIN files.stash |-> {}] IN
  [carried |-> none, locker |-> none, ground |-> files.zones, pawn |-> unstash_item(files.pawn),
   board |-> load_insurance(files.insured), count |-> files.insured.count]

(* The server starts on some files, and the players have logged in. *)
StartsOn(files) ==
  /\ phase = [p \in DOMAIN files.stash |-> "menu"]
  /\ room = [p \in DOMAIN files.stash |-> "rent"]
  /\ disk = files
  /\ game = boot_db(files)

StashInit == \E players \in SUBSET Renter : \E files \in Files(players) : StartsOn(files)

-----------------------------------------------------------------------------
(* The steps that the commands are made of. *)
stash_char(f, g, p, of) == [f EXCEPT !.stash[of] = Stashed(g.carried[p])]
wipe_stash(f, p) == [f EXCEPT !.stash[p] = {}]

(* Mutant: what the player carried stays with his record. *)
wipe_not(g, p) == g
wipe_all_obj(g, p) == [g EXCEPT !.carried[p] = {}]

stash_off_world(f, g, p) == [f EXCEPT !.locker[p] = Stashed(g.locker[p])]

char_from_locker(g, p) == [g EXCEPT !.locker[p] = {}]
char_to_locker(g, p) == [g EXCEPT !.locker[p] = unstash_item(disk.locker[p])]
Entering(g, p, r) == IF r = "locker" THEN char_to_locker(char_from_locker(g, p), p) ELSE char_from_locker(g, p)

(* A player moves: char_from_room and char_to_room. *)
Go(p, r) ==
  /\ phase[p] = "play" /\ room[p] # r /\ r \in Rooms
  /\ room' = [room EXCEPT ![p] = r]
  /\ game' = Entering(game, p, r)
  /\ UNCHANGED <<phase, disk>>

LeavesGame(p, f, g, to) ==
  /\ phase' = [phase EXCEPT ![p] = to]
  /\ room' = [room EXCEPT ![p] = "rent"]
  /\ game' = char_from_locker(g, p)
  /\ disk' = f

-----------------------------------------------------------------------------
(* Entering, saving and leaving. *)
nanny(p) ==
  /\ phase[p] = "out"
  /\ phase' = [phase EXCEPT ![p] = "menu"]
  /\ UNCHANGED <<room, game, disk>>

(* The file is read and stays as it is. *)
unstash_char(g, p, of) == [g EXCEPT !.carried[p] = @ \cup unstash_item(disk.stash[of])]

nan_enter_game(p) ==
  /\ phase[p] = "menu"
  /\ phase' = [phase EXCEPT ![p] = "play"]
  /\ game' = unstash_char(game, p, p)
  /\ UNCHANGED <<room, disk>>

do_save(p) ==
  /\ phase[p] = "play"
  /\ disk' = stash_char(disk, game, p, p)
  /\ UNCHANGED <<phase, room, game>>

(* The connection fails, or is closed by do_quit: he stays in the world.   *)
lost_link(p) ==
  /\ phase[p] = "play"
  /\ phase' = [phase EXCEPT ![p] = "linkdead"]
  /\ disk' = stash_char(disk, game, p, p)
  /\ UNCHANGED <<room, game>>

reconnect(p) ==
  /\ phase[p] = "linkdead"
  /\ phase' = [phase EXCEPT ![p] = "play"]
  /\ UNCHANGED <<room, game, disk>>

Saved(p, to) == LeavesGame(p, stash_char(disk, game, p, p), wipe_all_obj(game, p), to)

do_rent(p) == Here(p, "rent") /\ Saved(p, "menu")
do_purge(p) == InWorld(p) /\ Saved(p, "out")

(* First into the void, then out of the game. *)
check_idling(p) ==
  /\ InWorld(p)
  /\ IF room[p] = "limbo" THEN Saved(p, "out")
     ELSE /\ room' = [room EXCEPT ![p] = "limbo"]
          /\ game' = char_from_locker(game, p)
          /\ UNCHANGED <<phase, disk>>

Corpse(g, p) == [g EXCEPT !.carried[p] = {}, !.ground = @ \cup g.carried[p]]
Killed(p, f) == LeavesGame(p, f, Corpse(game, p), IF phase[p] = "play" THEN "menu" ELSE "out")

(* A blow that kills, or do_kill of an immortal. *)
damage(p) == InWorld(p) /\ Killed(p, wipe_stash(disk, p))

(* A dying player who quits is killed too, and keeps his file. *)
do_quit(p) == phase[p] = "play" /\ Killed(p, disk)

delete_char(p) ==
  /\ phase[p] = "menu"
  /\ LeavesGame(p, [wipe_stash(disk, p) EXCEPT !.locker[p] = {}], game, "out")

(* do_setstat, a new name: the locker is looked for in a directory that is *)
(* not there, and its file removed.                                        *)
set_name(p) ==
  /\ phase[p] = "play"
  /\ disk' = stash_char([wipe_stash(disk, p) EXCEPT !.locker[p] = {}], game, p, p)
  /\ UNCHANGED <<phase, room, game>>

do_extractrent(w, p) ==
  /\ w \in Immortal /\ phase[w] = "play"
  /\ game' = unstash_char(game, w, p)
  /\ UNCHANGED <<phase, room, disk>>

do_replacerent(w, p) ==
  /\ w \in Immortal /\ phase[w] = "play"
  /\ disk' = stash_char(disk, game, w, p)
  /\ UNCHANGED <<phase, room, game>>

(* The server crashes, or is shut down: shutdown saves the players, and    *)
(* one that comes by the clock clears the insurance.                       *)
Restart(f) ==
  /\ phase' = [p \in Players |-> "out"]
  /\ room' = [p \in Players |-> "rent"]
  /\ disk' = f
  /\ game' = boot_db(f)

Crash == Restart(disk)

saveallplayers == [disk EXCEPT !.stash = [p \in Players |-> IF phase[p] = "play" THEN Stashed(game.carried[p]) ELSE @[p]]]
shutdown_game(autoshutdown) ==
  Restart(IF autoshutdown THEN [saveallplayers EXCEPT !.insured = [count |-> 0, entries |-> <<>>]] ELSE saveallplayers)

-----------------------------------------------------------------------------
(* Things change hands: do_give, do_drop, do_get. *)
do_give(p, q, i) ==
  /\ Here(p, room[q]) /\ InWorld(q) /\ p # q /\ i \in game.carried[p] /\ Cardinality(game.carried[q]) < Hands
  /\ game' = [game EXCEPT !.carried[p] = @ \ {i}, !.carried[q] = @ \cup {i}]
  /\ UNCHANGED <<phase, room, disk>>

do_drop(p, i) ==
  /\ phase[p] = "play" /\ i \in game.carried[p]
  /\ game' = [game EXCEPT !.carried[p] = @ \ {i}, !.ground = @ \cup {i}]
  /\ UNCHANGED <<phase, room, disk>>

do_get(p, i) ==
  /\ phase[p] = "play" /\ i \in game.ground /\ Cardinality(game.carried[p]) < Hands
  /\ game' = [game EXCEPT !.carried[p] = @ \cup {i}, !.ground = @ \ {i}]
  /\ UNCHANGED <<phase, room, disk>>

-----------------------------------------------------------------------------
(* The locker.  Of the objects A that were named, what fits goes; the      *)
(* order is that of a list.                                                *)
Fits(S, n) == count_num_objs(S) + n <= MAX_LOCKER_ITEM

put_obj_to_locker(p, A, S) ==
  /\ Here(p, "locker") /\ A # {} /\ Fits(game.locker[p], 1)
  /\ S \subseteq Stashed(A) /\ Fits(game.locker[p], count_num_objs(S))
  /\ \A i \in Stashed(A) \ S : ~Fits(game.locker[p] \cup S, Size[i])
  /\ game' = [game EXCEPT !.carried[p] = @ \ S, !.locker[p] = @ \cup S]
  /\ disk' = IF S = {} THEN disk ELSE stash_off_world(disk, game', p)
  /\ UNCHANGED <<phase, room>>

(* Mutant: the locker is not written when something was taken out. *)
kept_file(f, g, p) == f
got_file(f, g, p) == stash_off_world(f, g, p)

(* A number that is not above 0 names no object: get_off_obj reads through *)
(* NULL, and the server stops.                                             *)
get_off_obj(p, A, S) ==
  /\ S \subseteq A /\ Cardinality(game.carried[p] \cup S) <= Hands
  /\ S # A => Cardinality(game.carried[p] \cup S) = Hands
  /\ game' = [game EXCEPT !.carried[p] = @ \cup S, !.locker[p] = @ \ S]
  /\ disk' = got_file(disk, game', p)
  /\ UNCHANGED <<phase, room>>

get_obj_from_locker(p, A, S) ==
  /\ Here(p, "locker")
  /\ IF A = {} THEN Crash ELSE get_off_obj(p, A, S)

-----------------------------------------------------------------------------
(* The pawn shop.  More than Kept of a kind are too many: one goes.  With  *)
(* an empty list obj_to_pawn_list reads through NULL, and the server stops. *)
Alike(S, i) == {j \in S : Kind[j] = Kind[i]}

obj_to_pawn_list(p, i, bad) ==
  LET new == game.pawn \cup {i} IN
  /\ IF Cardinality(Alike(new, i)) > Kept THEN bad \in Alike(new, i) ELSE bad = "none"
  /\ game' = [game EXCEPT !.carried[p] = @ \ {i}, !.pawn = new \ {bad}]
  /\ disk' = [disk EXCEPT !.pawn = Stashed(new \ {bad})]
  /\ UNCHANGED <<phase, room>>

pawn_sell(p, i, bad) ==
  /\ Here(p, "shops") /\ i \in game.carried[p] \cap Tradable /\ is_stashable(i)
  /\ IF game.pawn = {} THEN bad = "none" /\ Crash ELSE obj_to_pawn_list(p, i, bad)

(* What is sold is not taken off the file. *)
pawn_buy(p, i) ==
  /\ Here(p, "shops") /\ i \in game.pawn
  /\ game' = [game EXCEPT !.carried[p] = @ \cup {i}, !.pawn = @ \ {i}]
  /\ UNCHANGED <<phase, room, disk>>

-----------------------------------------------------------------------------
(* The insurance.  do_insure and do_retrieve do the same from afar.  After  *)
(* entries past the count were retrieved it may be negative; insuring then  *)
(* writes before the array.  Nothing is followed below -1.                 *)
Recorded(g) == [disk EXCEPT !.insured = save_insurance(g)]

insure_insurance(p, i) ==
  /\ phase[p] = "play" /\ game.count \in 0 .. MAX_INSURE - 1
  /\ i \in game.carried[p] \cap Insurable
  /\ game' = [game EXCEPT !.carried[p] = @ \ {i}, !.count = @ + 1,
                          !.board[game.count + 1] = [obj |-> i, owner |-> p]]
  /\ disk' = Recorded(game')
  /\ UNCHANGED <<phase, room>>

(* Mutant: any entry may be named. *)
Own_any(p, nr) == TRUE
Own(p, nr) == game.board[nr].owner = p

(* `retrieve 0` reads what is before the arrays of the board: he is        *)
(* refused, or the server stops.                                           *)
del_retrieved(p, nr) ==
  LET e == game.board[nr] IN
  /\ game.count >= 0 /\ e # Empty /\ Own(p, nr) /\ e.obj \notin Gone
  /\ game' = [game EXCEPT !.carried[p] = @ \cup {e.obj}, !.count = @ - 1, !.board = del_insurance(@, nr)]
  /\ disk' = Recorded(game')
  /\ UNCHANGED <<phase, room>>

retrieve_insurance(p, nr) ==
  /\ phase[p] = "play"
  /\ IF nr = 0 THEN Crash ELSE del_retrieved(p, nr)

(* Who reads the board, or his own entries, takes off those of which the   *)
(* object is gone; the file is not written.                                *)
look_insurance(p, nr) ==
  /\ phase[p] = "play" /\ nr <= game.count /\ game.board[nr].obj \in Gone
  /\ game' = [game EXCEPT !.count = @ - 1, !.board = del_insurance(@, nr)]
  /\ UNCHANGED <<phase, room, disk>>

StashNext ==
  \/ \E p \in Players, r \in Rooms : Go(p, r)
  \/ \E p \in Players : nanny(p) \/ nan_enter_game(p) \/ do_save(p) \/ lost_link(p) \/ reconnect(p)
  \/ \E p \in Players : do_rent(p) \/ do_purge(p) \/ check_idling(p) \/ damage(p) \/ do_quit(p)
  \/ \E p \in Players : delete_char(p) \/ set_name(p)
  \/ \E w, p \in Players : do_extractrent(w, p) \/ do_replacerent(w, p)
  \/ Crash \/ \E auto \in BOOLEAN : shutdown_game(auto)
  \/ \E p \in Players, i \in Thing : do_drop(p, i) \/ do_get(p, i) \/ \E q \in Players : do_give(p, q, i)
  \/ \E p \in Players : \E A \in SUBSET game.carried[p] : \E S \in SUBSET A : put_obj_to_locker(p, A, S)
  \/ \E p \in Players : \E A \in SUBSET game.locker[p] : \E S \in SUBSET A : get_obj_from_locker(p, A, S)
  \/ \E p \in Players, i \in Thing : pawn_buy(p, i) \/ \E bad \in Thing \cup {"none"} : pawn_sell(p, i, bad)
  \/ \E p \in Players, i \in Thing : insure_insurance(p, i)
  \/ \E p \in Players, nr \in Slots \cup {0} : retrieve_insurance(p, nr)
  \/ \E p \in Players, nr \in Slots : look_insurance(p, nr)

StashSpec == StashInit /\ [][StashNext]_stash_vars

-----------------------------------------------------------------------------
OnFile(f, i) == {p \in Players : ~InWorld(p) /\ i \in f.stash[p]}
Lockers(f, i) == {p \in Players : ~(InWorld(p) /\ room[p] = "locker") /\ i \in f.locker[p]}
OnBoard(g, i) == {nr \in 1 .. g.count : g.board[nr].obj = i}
Carried(g, i) == {p \in Players : i \in g.carried[p]}
Held(g, i) == {p \in Players : i \in g.locker[p]}
Lying(g, i) == {S \in {<<1, g.ground>>, <<2, g.pawn>>} : i \in S[2]}

(* The copies of an object that are in the game or will be when their      *)
(* owner enters: the file of a player counts when he is not in the world.  *)
Copies(i) ==
  Cardinality(OnFile(disk, i)) + Cardinality(Lockers(disk, i)) + Cardinality(OnBoard(game, i))
    + Cardinality(Carried(game, i)) + Cardinality(Held(game, i)) + Cardinality(Lying(game, i))

(* The board shifts wrongly when it is full, and lets go of what is past   *)
(* its count.                                                              *)
Slip == /\ game.count' < game.count
        /\ game.count = MAX_INSURE \/ \E nr \in Slots : nr > game.count /\ game.board[nr] # Empty

(* Rent, lost links, death, lockers, pawn shop and insurance double no     *)
(* object: only a restart (files older than what happened since), a dying  *)
(* player who quits, two commands of immortals on files, and the slips of  *)
(* a full insurance board do.                                              *)
CopiesStep ==
  \A i \in Thing \ Gone : Copies(i)' > Copies(i) =>
    \/ Crash \/ \E auto \in BOOLEAN : shutdown_game(auto)
    \/ Slip
    \/ \E p \in Players : do_quit(p)
    \/ \E w, p \in Players : do_extractrent(w, p) \/ do_replacerent(w, p)
NoMoreCopies == [][CopiesStep]_stash_vars

(* What a player has insured stays his until he has it back, over crashes  *)
(* as well; only a shutdown by the clock clears the board.                 *)
Insured(p, i) == \E nr \in 1 .. game.count : game.board[nr] = [obj |-> i, owner |-> p]
KeysStep ==
  \A p \in Players, i \in Insurable \ Gone :
    Insured(p, i) /\ ~Insured(p, i)' => i \in game.carried[p]' \/ Slip \/ shutdown_game(TRUE)
KeysReturned == [][KeysStep]_stash_vars

=============================================================================
