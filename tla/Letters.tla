------------------------------ MODULE Letters ------------------------------
(***************************************************************************)
(* What players write to each other: the boards (board.c) and the two      *)
(* mailboxes (mail.c), the one of the post office for letters and that of  *)
(* the silver room for objects.  A box keeps the heads of what is in it    *)
(* and, apart, what was posted: texts beside the heads, or a list of       *)
(* objects in their order.  Each change rewrites its files: an index with  *)
(* the heads, one file for each text or the stash file "silver".  After a  *)
(* reboot all there is, is what the files say.                             *)
(*                                                                         *)
(* An item is an object with what is written on it.  A text that leaves    *)
(* the board or the post office is on a new paper.                         *)
(***************************************************************************)
EXTENDS Naturals, Sequences, SequencesExt

CONSTANTS
  Person, Wizard,      (* players; those of level IMO, who may remove all  *)
  Item,                (* what they may post                               *)
  MAX_MSGS,            (* room in a box: MAX_MSGS, MAX_MAILS               *)
  Nobody

(* A box has a size, and Nobody is neither a player nor a text. *)
ASSUME BoxAssumption ==
  MAX_MSGS \in Nat /\ Nobody \notin Person /\ Nobody \notin Item

VARIABLES
  box,                 (* what kind of box: board, mbox (letters) or silver *)
  heads,               (* who wrote it, for whom, and what it is about     *)
  contents,            (* msgs[], or the list objs                         *)
  index,               (* the heads in the index file                      *)
  bodies,              (* the texts in their files, or the stash file      *)
  held                 (* who has an item; Nobody: it is in the box        *)

box_vars == <<box, heads, contents, index, bodies, held>>

Entry == [writer : Person, receiver : Person \cup {Nobody}, item : Item]
Place == 1 .. MAX_MSGS
Missing == Nobody      (* a file that does not exist *)

BoxTypeOK ==
  /\ box \in {"board", "mbox", "silver"}
  /\ heads \in Seq(Entry) /\ Len(heads) <= MAX_MSGS
  /\ contents \in Seq(Item) /\ Len(contents) <= MAX_MSGS
  /\ index \in Seq(Entry)
  /\ bodies \in [Place -> Item \cup {Missing}]
  /\ held \in [Item -> Person \cup {Nobody}]

BoxInit ==
  /\ box \in {"board", "mbox", "silver"}
  /\ heads = <<>> /\ contents = <<>>
  /\ index = <<>> /\ bodies = [k \in Place |-> Missing]
  /\ held \in [Item -> Person]

-----------------------------------------------------------------------------
(* save_board, save_mbox: texts overwrite the files of their numbers, those*)
(* of higher numbers stay; the stash file is written anew.                 *)
save_board(h, c) ==
  /\ index' = h
  /\ bodies' = [k \in Place |-> IF k <= Len(h) THEN c[k] ELSE bodies[k]]

save_mbox(h, c) ==
  IF box = "silver"
  THEN /\ index' = h
       /\ bodies' = [k \in Place |-> IF k <= Len(c) THEN c[k] ELSE Missing]
  ELSE save_board(h, c)

save(h, c) == IF box = "board" THEN save_board(h, c) ELSE save_mbox(h, c)

(* The same, and the last file, which the removal has left over, is        *)
(* unlinked.                                                               *)
save_removed(h, c) ==
  /\ index' = h
  /\ bodies' = [k \in Place |-> IF k <= Len(h) THEN c[k]
                                ELSE IF k = Len(h) + 1 \/ box = "silver" THEN Missing
                                ELSE bodies[k]]

(* What can be read up to the first body that is missing, of at most n.    *)
Readable(n) == {m \in 0 .. n : \A k \in 1 .. m : bodies[k] # Missing}
Read(n) == CHOOSE m \in Readable(n) : \A l \in Readable(n) : l <= m

(* load_board: heads as long as their texts are found. *)
load_board ==
  /\ heads' = SubSeq(index, 1, Read(Len(index)))
  /\ contents' = [k \in 1 .. Read(Len(index)) |-> bodies[k]]

(* load_mbox: letters likewise; of objects as many heads as the index      *)
(* says, beside all the objects of the stash file.                         *)
load_mbox ==
  IF box = "mbox" THEN load_board
  ELSE heads' = index /\ contents' = [k \in 1 .. Read(MAX_MSGS) |-> bodies[k]]

-----------------------------------------------------------------------------
(* post: at the end of both lists.  A note is taken apart, its text kept.  *)
(* Mutant: a new object goes to the head of the list of objects.           *)
AtHead(c, i) == <<i>> \o c
AtEnd(c, i) == Append(c, i)

post_board(p, i) ==
  /\ box = "board" /\ held[i] = p /\ Len(heads) < MAX_MSGS
  /\ LET h == Append(heads, [writer |-> p, receiver |-> Nobody, item |-> i])
         c == Append(contents, i)
     IN heads' = h /\ contents' = c /\ save(h, c)
  /\ held' = [held EXCEPT ![i] = Nobody]
  /\ UNCHANGED box

post_mail(p, i, to) ==
  /\ box # "board" /\ held[i] = p /\ Len(heads) < MAX_MSGS
  /\ LET h == Append(heads, [writer |-> p, receiver |-> to, item |-> i])
         c == IF box = "silver" THEN AtEnd(contents, i) ELSE Append(contents, i)
     IN heads' = h /\ contents' = c /\ save(h, c)
  /\ held' = [held EXCEPT ![i] = Nobody]
  /\ UNCHANGED box

(* remove #, of the writer or a wizard.  The number counts from the end.   *)
remove_board(p, k) ==
  /\ box = "board" /\ k \in 1 .. Len(heads)
  /\ p \in Wizard \/ p = heads[k].writer
  /\ held' = [held EXCEPT ![contents[k]] = p]
  /\ LET h == RemoveAt(heads, k)
         c == RemoveAt(contents, k)
     IN heads' = h /\ contents' = c /\ save_removed(h, c)
  /\ UNCHANGED box

remove_mail(k) ==
  LET h == RemoveAt(heads, k)
      c == RemoveAt(contents, k)
  IN heads' = h /\ contents' = c /\ save_removed(h, c)

(* get letter mbox: the first for him; get <object> mbox: one for him by   *)
(* the name of the object in its place.                                    *)
get_mail(p, k) ==
  /\ box # "board" /\ k \in 1 .. Len(heads) /\ heads[k].receiver = p
  /\ box = "mbox" => \A j \in 1 .. k - 1 : heads[j].receiver # p
  /\ held' = [held EXCEPT ![contents[k]] = p]
  /\ remove_mail(k)
  /\ UNCHANGED box

(* A reboot: init_board forgets the boards, which are loaded by the first  *)
(* who looks; init_mbox loads the mailboxes.                               *)
Reboot ==
  /\ IF box = "board" THEN load_board ELSE load_mbox
  /\ UNCHANGED <<box, index, bodies, held>>

BoxNext ==
  \/ \E p \in Person, i \in Item : post_board(p, i)
  \/ \E p, to \in Person, i \in Item : post_mail(p, i, to)
  \/ \E p \in Person, k \in Place : remove_board(p, k)
  \/ \E p \in Person, k \in Place : get_mail(p, k)
  \/ Reboot

BoxSpec == BoxInit /\ [][BoxNext]_box_vars

-----------------------------------------------------------------------------
(* Each head stands beside what was posted with it, through posts,         *)
(* removals from the middle and reboots, and nothing posted is lost or     *)
(* doubled: what nobody holds is in the box once.                          *)
HeadsMatch ==
  /\ Len(heads) = Len(contents)
  /\ \A k \in DOMAIN heads : heads[k].item = contents[k]
  /\ \A i \in Item : (held[i] = Nobody) <=> \E k \in DOMAIN contents : contents[k] = i
  /\ IsInjective(contents)
=============================================================================
