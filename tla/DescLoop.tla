------------------------------ MODULE DescLoop ------------------------------
(***************************************************************************)
(* The list of connections and the passes of a pulse over it (main.c       *)
(* game_loop, sockets.c new_descriptor and close_socket).  A handler may   *)
(* close its own connection, and a command any other: only the global      *)
(* next_to_process keeps the pass on the list.  last_desc bounds the file  *)
(* descriptors that select looks at, and with it the number of players.    *)
(***************************************************************************)
EXTENDS Naturals, Sequences, SequencesExt

CONSTANTS
  Avail,     (* avail_descs, a number: file descriptors below it are for players *)
  s,         (* the file descriptor of the mother socket, one below Avail        *)
  NoFd       (* the NULL that ends the list                                      *)

(* The file descriptors are numbers, and NoFd is none.                     *)
ASSUME DescAssumption == Avail \in Nat /\ s \in Nat /\ s < Avail /\ NoFd \notin Nat

VARIABLES
  desc_list,        (* the connections, by file descriptor, latest first   *)
  last_desc,        (* select looks at 0 .. last_desc                      *)
  pass,             (* the pass of this pulse that is under way            *)
  point, next_to_process,  (* the loop variable and what follows it        *)
  treating,         (* point is being treated                              *)
  banned,           (* has a wizard ever banned a site (wizlock)?          *)
  untreated         (* the connections this pass has still to treat        *)

loop_vars == <<desc_list, last_desc, pass, point, next_to_process, treating, untreated, banned>>

Passes == <<"accept", "except", "input", "commands", "output", "updates">>
Fd == 0 .. Avail
Connected == {desc_list[i] : i \in DOMAIN desc_list}

LoopOK ==
  /\ desc_list \in Seq(Fd) /\ IsInjective(desc_list)
  /\ last_desc \in Fd
  /\ pass \in 1 .. Len(Passes)
  /\ point \in Fd \cup {NoFd} /\ next_to_process \in Fd \cup {NoFd}
  /\ treating \in BOOLEAN /\ banned \in BOOLEAN /\ untreated \subseteq Fd

-----------------------------------------------------------------------------
(* Where d is in the list, and d->next: the connection after it, or NoFd.  *)
PlaceOf(d) == CHOOSE i \in DOMAIN desc_list : desc_list[i] = d
NextOf(d) == IF PlaceOf(d) < Len(desc_list) THEN desc_list[PlaceOf(d) + 1] ELSE NoFd

LoopInit ==
  /\ desc_list = <<>> /\ last_desc = s
  /\ pass = 1 /\ point = NoFd /\ next_to_process = NoFd /\ treating = FALSE /\ untreated = {}
  /\ banned = FALSE

In(p) == Passes[pass] = p

(* The pass ends, and the next one starts at the head of the list it finds. *)
Goto(p, list) ==
  /\ pass' = p
  /\ point' = IF list = <<>> THEN NoFd ELSE Head(list)
  /\ untreated' = {list[i] : i \in DOMAIN list}
  /\ treating' = FALSE
  /\ UNCHANGED <<next_to_process, banned>>

(* accept returns the lowest file descriptor that is free. *)
Free == Fd \ ({s} \cup Connected)
Lowest(d) == d \in Free /\ \A e \in Free : d <= e

Full == last_desc + 1 >= Avail

(* Nobody wants to connect, or he is refused because the game is full.     *)
NoConnection == In("accept") /\ Goto(2, desc_list) /\ UNCHANGED <<desc_list, last_desc>>

new_descriptor(d) ==
  /\ In("accept") /\ ~Full /\ Lowest(d)
  /\ last_desc' = IF d > last_desc THEN d ELSE last_desc
  /\ desc_list' = <<d>> \o desc_list
  /\ Goto(2, desc_list')

(* An unfriendly site is refused after last_desc has been set. *)
unfriendly_domain(d) ==
  /\ In("accept") /\ ~Full /\ Lowest(d) /\ banned
  /\ last_desc' = IF d > last_desc THEN d ELSE last_desc
  /\ UNCHANGED desc_list
  /\ Goto(2, desc_list)

(* last_desc when d is closed.  Mutant: it goes down whoever leaves. *)
AlwaysDown(d) == last_desc - 1
LastWithout(d) == IF d = last_desc THEN last_desc - 1 ELSE last_desc

(* The pass goes on.  Mutant: with the connection closed meanwhile. *)
SameNext(d) == next_to_process
NextWithout(d) == IF next_to_process = d THEN NextOf(d) ELSE next_to_process

close_socket(d) ==
  /\ d \in Connected
  /\ last_desc' = LastWithout(d)
  /\ next_to_process' = NextWithout(d)
  /\ desc_list' = RemoveAt(desc_list, PlaceOf(d))
  /\ untreated' = untreated \ {d}
  /\ UNCHANGED <<pass, point, treating, banned>>

Treat ==
  /\ In("except") \/ In("input") \/ In("commands") \/ In("output")
  /\ ~treating /\ point # NoFd
  /\ treating' = TRUE /\ next_to_process' = NextOf(point) /\ untreated' = untreated \ {point}
  /\ UNCHANGED <<desc_list, last_desc, pass, point, banned>>

(* An exception, a failed read or a failed write. *)
Fails == ~In("commands") /\ treating /\ close_socket(point)

(* nanny, quit and rent close the connection itself, a reconnection, purge *)
(* or police another one.                                                  *)
Closes(d) == In("commands") /\ treating /\ close_socket(d)

Processed ==
  /\ treating
  /\ treating' = FALSE /\ point' = next_to_process
  /\ UNCHANGED <<desc_list, last_desc, pass, next_to_process, untreated, banned>>

EndPass ==
  /\ 1 < pass /\ pass < Len(Passes) /\ ~treating /\ point = NoFd
  /\ Goto(pass + 1, desc_list)
  /\ UNCHANGED <<desc_list, last_desc>>

(* A wizard who is being treated bans a site. *)
do_wizlock ==
  /\ In("commands") /\ treating
  /\ banned' = TRUE
  /\ UNCHANGED <<desc_list, last_desc, pass, point, next_to_process, treating, untreated>>

(* Fights, ticks and specials extract players whose connection is closed.  *)
Extracted(d) == In("updates") /\ close_socket(d)

EndPulse ==
  /\ In("updates")
  /\ pass' = 1
  /\ UNCHANGED <<desc_list, last_desc, point, next_to_process, treating, untreated, banned>>

LoopNext ==
  \/ NoConnection
  \/ Treat \/ Processed \/ Fails \/ do_wizlock \/ EndPass \/ EndPulse
  \/ \E d \in Fd : new_descriptor(d) \/ unfriendly_domain(d) \/ Closes(d) \/ Extracted(d)

LoopSpec == LoopInit /\ [][LoopNext]_loop_vars

-----------------------------------------------------------------------------
(* Properties. *)

(* A pass treats every connection that was there when it started, and is   *)
(* still there, exactly once, whoever is closed by whom on the way: the    *)
(* ones it has to treat are those from the next one on.                    *)
PassCovers ==
  LET here == IF treating THEN next_to_process ELSE point
      rest == {e \in Connected : here # NoFd /\
                 \E i, j \in DOMAIN desc_list : desc_list[i] = here /\ desc_list[j] = e /\ i <= j}
  IN 1 < pass /\ pass < Len(Passes) => untreated = rest /\ (here # NoFd => here \in Connected)

(* select looks at every connection, and at the mother socket. *)
SelectSeesAll == \A d \in Connected \cup {s} : d <= last_desc

(* "Sorry.. The game is full..." (sockets.c:394) tells a new player that   *)
(* there are others.                                                       *)
FullHasPlayers == Full => desc_list # <<>>
=============================================================================
