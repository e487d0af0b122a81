------------------------------ MODULE Sessions ------------------------------
(***************************************************************************)
(* The life of a connection and of the character behind it: sockets.c      *)
(* (new_descriptor, close_socket), nanny.c (the login dialogue), main.c    *)
(* (input, network errors), transfer.c (char_from_world), update.c         *)
(* (update_tick, check_idling), fight.c (kill_char, the divine rescue) and *)
(* the commands that end or watch a session (quit, rent, purge, police,    *)
(* snoop).                                                                 *)
(*                                                                         *)
(* The server is one process: a handler is one action.  The one loop over  *)
(* all players, update_tick, is a pass (ticking) no handler interrupts.    *)
(* Rooms are abstracted to the room one was in ("home") and the two rooms  *)
(* the game itself moves players to, fights to the choice of who is hit or *)
(* dies.                                                                   *)
(***************************************************************************)
EXTENDS Naturals, FiniteSets

CONSTANTS
  Desc,      (* the descriptor records                                     *)
  Char,      (* the character records                                      *)
  Name,      (* the names players choose                                   *)
  Level,     (* the level of the player of a name                          *)
  IMO,       (* the lowest level of a wizard (macros.h OMNI)               *)
  IdleVoid,  (* ticks a player may idle before the void takes him: 20      *)
  IdleOut,   (* ticks after which he is extracted: 40                      *)
  NULL       (* no descriptor, no character, no name, no room (NOWHERE)    *)

ASSUME DataAssumption ==
  /\ \A n \in Name : Level[n] \in Nat
  /\ IMO \in Nat
  /\ IdleVoid \in Nat /\ IdleOut \in Nat /\ IdleVoid < IdleOut
  /\ NULL \notin Desc \cup Char \cup Name \cup {"home", "limbo", "void"}

VARIABLES
  connected,     (* [Desc] the CON_ state, "CLOSED" when not in desc_list  *)
  character,     (* [Desc] descriptorType.character                        *)
  snoop_who,     (* [Desc] descriptorType.snoop.who                        *)
  snoop_by,      (* [Desc] descriptorType.snoop.by                         *)
  str,           (* [Desc] descriptorType.str is set: a text is typed in   *)
  nr,            (* [Char] charType.nr: NEW -3, MENU -2, WORLD -1, or FREE *)
  name,          (* [Char] charType.name                                   *)
  desc,          (* [Char] charType.desc                                   *)
  in_room,       (* [Char] charType.in_room                                *)
  was_in_room,   (* [Char] charType.was_in_room                            *)
  timer,         (* [Char] charType.timer                                  *)
  player_list,   (* the characters in the world                            *)
  player_table,  (* the names that have a record in the player file        *)
  ticking,       (* the players the running update_tick has yet to treat   *)
  fatal          (* the server stopped itself (FATAL, errhandler.c)        *)

snoops == <<snoop_who, snoop_by>>
rooms  == <<in_room, was_in_room>>
ids    == <<nr, name>>
vars   == <<connected, character, snoops, str, ids, desc, rooms, timer,
            player_list, player_table, ticking, fatal>>

Creating == {"NMECNF", "PWDGET", "PWDCNF", "QSEX", "QCLASS", "CONFROLL"}
Menu     == {"RMOTD", "SLCT", "EXDSCR", "PWDNEW", "PWDNCNF", "DEL_PWD", "DEL_CONF"}
State    == {"CLOSED", "NME", "PWDNRM", "PLYNG"} \cup Creating \cup Menu
Room     == {"home", "limbo", "void"}

(* The types, and the one bound the code does not state: the timer of a    *)
(* player never passes IdleOut, since who is silent for IdleVoid ticks is  *)
(* taken to limbo, whoever comes back from there has typed a line, and who *)
(* does not is extracted.                                                  *)
TypeOK ==
  /\ connected \in [Desc -> State]
  /\ character \in [Desc -> Char \cup {NULL}]
  /\ snoop_who \in [Desc -> Char \cup {NULL}]
  /\ snoop_by \in [Desc -> Char \cup {NULL}]
  /\ str \in [Desc -> BOOLEAN]
  /\ nr \in [Char -> {"FREE", "NEW", "MENU", "WORLD"}]
  /\ name \in [Char -> Name \cup {NULL}]
  /\ desc \in [Char -> Desc \cup {NULL}]
  /\ in_room \in [Char -> Room \cup {NULL}]
  /\ was_in_room \in [Char -> Room \cup {NULL}]
  /\ timer \in [Char -> 0 .. IdleOut]
  /\ player_list \subseteq Char
  /\ player_table \subseteq Name
  /\ ticking \subseteq Char
  /\ fatal \in BOOLEAN

desc_list == {d \in Desc : connected[d] # "CLOSED"}
OMNI(c)   == name[c] # NULL /\ Level[name[c]] >= IMO
Linkdead(c) == c \in player_list /\ desc[c] = NULL

(* After a boot the player file holds any set of records, nobody is on. *)
Init ==
  /\ connected = [d \in Desc |-> "CLOSED"]
  /\ character = [d \in Desc |-> NULL]
  /\ snoop_who = [d \in Desc |-> NULL]
  /\ snoop_by = [d \in Desc |-> NULL]
  /\ str = [d \in Desc |-> FALSE]
  /\ nr = [c \in Char |-> "FREE"]
  /\ name = [c \in Char |-> NULL]
  /\ desc = [c \in Char |-> NULL]
  /\ in_room = [c \in Char |-> NULL]
  /\ was_in_room = [c \in Char |-> NULL]
  /\ timer = [c \in Char |-> 0]
  /\ player_list = {}
  /\ player_table \in SUBSET Name
  /\ ticking = {}
  /\ fatal = FALSE

-----------------------------------------------------------------------------
(* What the shared routines do to each piece of the state. *)

(* No handler runs inside an update_tick, none after FATAL. *)
Running == ticking = {} /\ ~fatal

(* Both ends of the snoops a closing or dying session takes part in.       *)
(* Mutant: only the closing end is cleared.                                *)
UnsnoopedHere(d, f, g) == [f EXCEPT ![d] = NULL]
Unsnooped(d, f, g) ==
  [e \in Desc |-> IF e = d \/ (g[d] # NULL /\ desc[g[d]] = e) THEN NULL ELSE f[e]]
Unsnoop(d) ==
  /\ snoop_who' = Unsnooped(d, snoop_who, snoop_by)
  /\ snoop_by' = Unsnooped(d, snoop_by, snoop_who)

(* free_a_char: the record goes back to the pool; alloc_char clears it.    *)
(* t, i and w are the timers and rooms the handler has set before.         *)
free_a_char(c, t, i, w) ==
  /\ nr' = [nr EXCEPT ![c] = "FREE"]
  /\ name' = [name EXCEPT ![c] = NULL]
  /\ desc' = [desc EXCEPT ![c] = NULL]
  /\ timer' = [t EXCEPT ![c] = 0]
  /\ in_room' = [i EXCEPT ![c] = NULL]
  /\ was_in_room' = [w EXCEPT ![c] = NULL]

(* free_desc: unlinked from desc_list and back to the pool. *)
free_desc(d) ==
  /\ connected' = [connected EXCEPT ![d] = "CLOSED"]
  /\ character' = [character EXCEPT ![d] = NULL]
  /\ str' = [str EXCEPT ![d] = FALSE]

(* A player in the game stays in it, linkdead; any other record is freed.  *)
(* Mutant: the pointer of the player who stays is left.                    *)
StaysLinked(c) == desc
Unlinked(c) == [b \in Char |-> IF b = c THEN NULL ELSE desc[b]]

close_socket(d, t, i, w) ==
  LET c == character[d] IN
  /\ Unsnoop(d)
  /\ free_desc(d)
  /\ IF c # NULL /\ connected[d] # "PLYNG"
     THEN free_a_char(c, t, i, w)
     ELSE /\ desc' = Unlinked(c)
          /\ timer' = t /\ in_room' = i /\ was_in_room' = w
          /\ UNCHANGED ids
  /\ UNCHANGED <<player_list, player_table, ticking, fatal>>

(* Every line of input clears the idle timer of whoever sent it.           *)
(* Mutant: it does not, and who is back in his room is still long silent.  *)
TypedNot(d) == timer
Typed(d) ==
  IF character[d] = NULL THEN timer ELSE [timer EXCEPT ![character[d]] = 0]

(* A line from a player in the game first brings him back to where he was. *)
(* Mutant: without the test of was_in_room.                                *)
AlwaysAway(d) == connected[d] = "PLYNG"
Away(d) == connected[d] = "PLYNG" /\ was_in_room[character[d]] # NULL
RoomOnInput(d) ==
  IF Away(d) THEN [in_room EXCEPT ![character[d]] = was_in_room[character[d]]] ELSE in_room
WasOnInput(d) ==
  IF Away(d) THEN [was_in_room EXCEPT ![character[d]] = NULL] ELSE was_in_room

(* Mutant: the connection of a player who leaves the world plays on.       *)
StaysPlaying(d) == connected
ToMenu(d) == [connected EXCEPT ![d] = "SLCT"]

(* char_from_world takes a player out of the world, and stops the server   *)
(* when he stands nowhere: a player with a link is left at the menu.       *)
char_from_world(c, i, w) ==
  LET d == desc[c] IN
  /\ fatal' = (i[c] = NULL)
  /\ player_list' = player_list \ {c}
  /\ IF d # NULL
     THEN /\ Unsnoop(d)
          /\ connected' = ToMenu(d)
          /\ nr' = [nr EXCEPT ![c] = "MENU"]
          /\ in_room' = [i EXCEPT ![c] = NULL]
          /\ was_in_room' = w
          /\ UNCHANGED <<character, str, name, desc>>
     ELSE UNCHANGED <<connected, snoops, character, str>>

(* extract_char: the link is cut first, the character leaves and is freed. *)
extract_char(c, t, i, w) ==
  /\ fatal' = (i[c] = NULL)
  /\ player_list' = player_list \ {c}
  /\ IF desc[c] # NULL
     THEN Unsnoop(desc[c]) /\ free_desc(desc[c])
     ELSE UNCHANGED <<connected, snoops, character, str>>
  /\ free_a_char(c, t, i, w)
  /\ UNCHANGED player_table

-----------------------------------------------------------------------------
(* The network. *)

new_descriptor(d) ==
  /\ Running
  /\ connected[d] = "CLOSED"
  /\ connected' = [connected EXCEPT ![d] = "NME"]
  /\ UNCHANGED <<character, snoops, str, ids, desc, rooms, timer,
                 player_list, player_table, ticking, fatal>>

(* An exception, a failed read or a failed write on the socket. *)
LoseLink(d) ==
  /\ Running
  /\ d \in desc_list
  /\ close_socket(d, timer, in_room, was_in_room)

-----------------------------------------------------------------------------
(* nanny: the dialogue before the game.  What a line says is chosen freely *)
(* among the answers the handler tells apart; wrong answers stay.          *)

NannyGets(d, s) == Running /\ connected[d] = s /\ ~str[d]

Goto(d, s) ==
  /\ connected' = [connected EXCEPT ![d] = s]
  /\ timer' = Typed(d)
  /\ UNCHANGED <<character, snoops, str, ids, desc, rooms,
                 player_list, player_table, ticking, fatal>>

Hangup(d) == close_socket(d, Typed(d), in_room, was_in_room)

(* Two answers close the connection and lack a return: the handler goes on *)
(* to queue a line in the record it has freed and to set its password and  *)
(* its state there.  The record is in no list any more, and alloc_unit     *)
(* clears it before it is used again: the line is lost memory, and nothing *)
(* that is written there is ever read.                                     *)
HangupNoReturn(d) == Hangup(d)

(* CON_NME: the first line allocates the character, whatever it holds. *)
Allocates(d, c) ==
  /\ IF character[d] = NULL THEN nr[c] = "FREE" ELSE c = character[d]
  /\ character' = [character EXCEPT ![d] = c]
  /\ desc' = [desc EXCEPT ![c] = d]
  /\ timer' = Typed(d)
  /\ UNCHANGED <<snoops, str, rooms, player_list, player_table, ticking, fatal>>

Taken(d, n) == \E k \in desc_list \ {d} : character[k] # NULL /\ name[character[k]] = n

(* "who", an illegal name, or the name of somebody already connected. *)
NameRefused(d, c) ==
  /\ NannyGets(d, "NME")
  /\ Allocates(d, c)
  /\ nr' = [nr EXCEPT ![c] = "NEW"]
  /\ UNCHANGED <<connected, name>>

(* A name of the player file: its record is loaded now, before the password. *)
NameKnown(d, c, n) ==
  /\ NannyGets(d, "NME")
  /\ ~Taken(d, n) /\ n \in player_table
  /\ Allocates(d, c)
  /\ nr' = [nr EXCEPT ![c] = "MENU"]
  /\ name' = [name EXCEPT ![c] = n]
  /\ connected' = [connected EXCEPT ![d] = "PWDNRM"]

NameNew(d, c, n) ==
  /\ NannyGets(d, "NME")
  /\ ~Taken(d, n) /\ n \notin player_table
  /\ Allocates(d, c)
  /\ nr' = [nr EXCEPT ![c] = "NEW"]
  /\ name' = [name EXCEPT ![c] = n]
  /\ connected' = [connected EXCEPT ![d] = "NMECNF"]

(* An empty line, or nologin for a new or a lower player. *)
NameHangup(d) == NannyGets(d, "NME") /\ Hangup(d)

nan_conf_name(d) ==
  /\ NannyGets(d, "NMECNF")
  /\ \/ Goto(d, "PWDGET")
     \/ Goto(d, "NMECNF")
     \/ HangupNoReturn(d)                           \* yes, under nonewplayers
     \/ /\ connected' = [connected EXCEPT ![d] = "NME"]
        /\ name' = [name EXCEPT ![character[d]] = NULL]
        /\ timer' = Typed(d)
        /\ UNCHANGED <<character, snoops, str, nr, desc, rooms,
                       player_list, player_table, ticking, fatal>>

(* The right password finds a linkdead player of that name, or the menu.   *)
(* Mutants: the search is left out; the search does not look at the name.  *)
NoGhosts(d) == {}
AnyGhost(d) == {c \in player_list : desc[c] = NULL}
Ghosts(d) == {c \in player_list : name[c] = name[character[d]] /\ desc[c] = NULL}

Reconnect(d, c) ==
  LET mine == character[d] IN
  /\ NannyGets(d, "PWDNRM")
  /\ c \in Ghosts(d)
  /\ connected' = [connected EXCEPT ![d] = "PLYNG"]
  /\ character' = [character EXCEPT ![d] = c]
  /\ nr' = [nr EXCEPT ![mine] = "FREE"]
  /\ name' = [name EXCEPT ![mine] = NULL]
  /\ desc' = [desc EXCEPT ![mine] = NULL, ![c] = d]
  /\ timer' = [timer EXCEPT ![mine] = 0, ![c] = 0]
  /\ in_room' = [in_room EXCEPT ![mine] = NULL]
  /\ was_in_room' = [was_in_room EXCEPT ![mine] = NULL]
  /\ UNCHANGED <<snoops, str, player_list, player_table, ticking, fatal>>

nan_conf_known_passwd(d) ==
  /\ NannyGets(d, "PWDNRM")
  /\ \/ Hangup(d)
     \/ Goto(d, "PWDNRM")
     \/ Ghosts(d) = {} /\ Goto(d, "RMOTD")

(* An empty line hangs up, a long one is asked for again. *)
nan_get_new_passwd(d, s, next) ==
  /\ NannyGets(d, s)
  /\ HangupNoReturn(d) \/ Goto(d, s) \/ Goto(d, next)

nan_conf_new_passwd(d, s, again, next) ==
  /\ NannyGets(d, s)
  /\ Goto(d, s) \/ Goto(d, again) \/ Goto(d, next)

nan_get_sex(d) == NannyGets(d, "QSEX") /\ (Goto(d, "QSEX") \/ Goto(d, "QCLASS"))

nan_get_class(d) == NannyGets(d, "QCLASS") /\ (Goto(d, "QCLASS") \/ Goto(d, "CONFROLL"))

(* Accepting the roll makes the record of the new player.                  *)
(* Mutant: it is not made.                                                 *)
NoEntry(n) == player_table
create_entry(n) == player_table \cup {n}

nan_conf_reroll(d) ==
  /\ NannyGets(d, "CONFROLL")
  /\ \/ Goto(d, "CONFROLL")
     \/ /\ connected' = [connected EXCEPT ![d] = "RMOTD"]
        /\ player_table' = create_entry(name[character[d]])
        /\ timer' = Typed(d)
        /\ UNCHANGED <<character, snoops, str, ids, desc, rooms,
                       player_list, ticking, fatal>>

nanny_RMOTD(d) == NannyGets(d, "RMOTD") /\ Goto(d, "SLCT")

nanny_SLCT(d) ==
  /\ NannyGets(d, "SLCT")
  /\ Hangup(d) \/ Goto(d, "SLCT") \/ Goto(d, "PWDNEW") \/ Goto(d, "DEL_PWD")

(* 2: the description is typed in as a text, not as lines for nanny. *)
EnterDescription(d) ==
  /\ NannyGets(d, "SLCT")
  /\ connected' = [connected EXCEPT ![d] = "EXDSCR"]
  /\ str' = [str EXCEPT ![d] = TRUE]
  /\ timer' = Typed(d)
  /\ UNCHANGED <<character, snoops, ids, desc, rooms,
                 player_list, player_table, ticking, fatal>>

(* 1: into the world.  was_in_room is what it was before. *)
nan_enter_game(d) ==
  LET c == character[d] IN
  /\ NannyGets(d, "SLCT")
  /\ connected' = [connected EXCEPT ![d] = "PLYNG"]
  /\ nr' = [nr EXCEPT ![c] = "WORLD"]
  /\ player_list' = player_list \cup {c}
  /\ in_room' = [in_room EXCEPT ![c] = "home"]
  /\ timer' = Typed(d)
  /\ UNCHANGED <<character, snoops, str, name, desc, was_in_room,
                 player_table, ticking, fatal>>

nanny_DEL_PWD(d) == NannyGets(d, "DEL_PWD") /\ (Goto(d, "SLCT") \/ Goto(d, "DEL_CONF"))

delete_char(d) ==
  LET c == character[d] IN
  /\ NannyGets(d, "DEL_CONF")
  /\ player_table' = player_table \ {name[c]}
  /\ Unsnoop(d)
  /\ free_desc(d)
  /\ free_a_char(c, timer, in_room, was_in_room)
  /\ UNCHANGED <<player_list, ticking, fatal>>

nanny_DEL_CONF(d) == NannyGets(d, "DEL_CONF") /\ Goto(d, "SLCT")

(* Mutant: the connection stays in CON_EXDSCR when the text ends.          *)
StaysInText(d) == connected
AfterText(d) == [connected EXCEPT ![d] = IF @ = "EXDSCR" THEN "SLCT" ELSE @]

(* A line of a text: the last one ends it, and the menu follows.  The      *)
(* line of a player in the game has brought him back already.              *)
string_add(d) ==
  /\ Running
  /\ str[d]
  /\ timer' = Typed(d)
  /\ in_room' = RoomOnInput(d) /\ was_in_room' = WasOnInput(d)
  /\ \/ UNCHANGED <<str, connected>>
     \/ /\ str' = [str EXCEPT ![d] = FALSE]
        /\ connected' = AfterText(d)
  /\ UNCHANGED <<character, snoops, ids, desc, player_list, player_table, ticking, fatal>>

-----------------------------------------------------------------------------
(* Commands of a player in the game. *)

Commands(d) == Running /\ connected[d] = "PLYNG" /\ ~str[d]

(* Any other command; writing on paper opens a text. *)
interpreter(d) ==
  /\ Commands(d)
  /\ timer' = Typed(d)
  /\ in_room' = RoomOnInput(d) /\ was_in_room' = WasOnInput(d)
  /\ \E writes \in BOOLEAN : str' = [str EXCEPT ![d] = writes]
  /\ UNCHANGED <<connected, character, snoops, ids, desc,
                 player_list, player_table, ticking, fatal>>

(* quit only cuts the link: the player stays in the world until he idles out. *)
do_quit(d) == Commands(d) /\ close_socket(d, Typed(d), RoomOnInput(d), WasOnInput(d))

do_rent(d) ==
  LET c == character[d] IN
  /\ Commands(d)
  /\ timer' = Typed(d)
  /\ fatal' = (RoomOnInput(d)[c] = NULL)
  /\ player_list' = player_list \ {c}
  /\ Unsnoop(d)
  /\ connected' = ToMenu(d)
  /\ nr' = [nr EXCEPT ![c] = "MENU"]
  /\ in_room' = [RoomOnInput(d) EXCEPT ![c] = "home"]
  /\ was_in_room' = WasOnInput(d)
  /\ UNCHANGED <<character, str, name, desc, player_table, ticking>>

(* A wizard watches what a lower player sees. *)
do_snoop(d, v) ==
  LET me == character[d]  w == desc[v] IN
  /\ Commands(d)
  /\ OMNI(me)
  /\ v \in player_list \ {me} /\ w # NULL
  /\ snoop_by[w] = NULL
  /\ Level[name[me]] > Level[name[v]]
  /\ snoop_who' = [snoop_who EXCEPT ![d] = v]
  /\ snoop_by' = [e \in Desc |-> IF e = w THEN me
                    ELSE IF snoop_who[d] # NULL /\ desc[snoop_who[d]] = e THEN NULL
                    ELSE snoop_by[e]]
  /\ timer' = Typed(d)
  /\ in_room' = RoomOnInput(d) /\ was_in_room' = WasOnInput(d)
  /\ UNCHANGED <<connected, character, str, ids, desc, player_list, player_table,
                 ticking, fatal>>

(* Snooping oneself ends the snoop. *)
StopSnoop(d) ==
  /\ Commands(d)
  /\ OMNI(character[d])
  /\ snoop_who' = [snoop_who EXCEPT ![d] = NULL]
  /\ snoop_by' = [e \in Desc |-> IF snoop_who[d] # NULL /\ desc[snoop_who[d]] = e
                                 THEN NULL ELSE snoop_by[e]]
  /\ timer' = Typed(d)
  /\ in_room' = RoomOnInput(d) /\ was_in_room' = WasOnInput(d)
  /\ UNCHANGED <<connected, character, str, ids, desc, player_list, player_table,
                 ticking, fatal>>

(* A wizard extracts a player in his room who is not above him. *)
do_purge(d, v) ==
  LET me == character[d] IN
  /\ Commands(d)
  /\ OMNI(me)
  /\ v \in player_list
  /\ RoomOnInput(d)[v] = RoomOnInput(d)[me]
  /\ Level[name[me]] >= Level[name[v]]
  /\ extract_char(v, Typed(d), RoomOnInput(d), WasOnInput(d))
  /\ UNCHANGED ticking

(* A wizard closes connection e: a lower player is extracted with it. *)
do_police(d, e) ==
  LET v == character[e] IN
  /\ Commands(d)
  /\ OMNI(character[d])
  /\ e \in desc_list
  /\ IF connected[e] = "PLYNG" /\ Level[name[v]] < Level[name[character[d]]]
     THEN /\ extract_char(v, Typed(d), RoomOnInput(d), WasOnInput(d))
          /\ UNCHANGED ticking
     ELSE close_socket(e, Typed(d), RoomOnInput(d), WasOnInput(d))

-----------------------------------------------------------------------------
(* The world. *)

(* kill_char: a fight, a spell or a wizard's blow; a ghost is freed. *)
kill_char(c) ==
  /\ Running
  /\ c \in player_list
  /\ char_from_world(c, in_room, was_in_room)
  /\ IF desc[c] = NULL THEN free_a_char(c, timer, in_room, was_in_room)
                       ELSE UNCHANGED timer
  /\ UNCHANGED <<player_table, ticking>>

(* damage: a ghost who is hit and does not fight is taken to the void. *)
RoomOfRescued(c) == [in_room EXCEPT ![c] = "void"]
WasOfRescued(c)  == [was_in_room EXCEPT ![c] = in_room[c]]

damage(c) ==
  /\ Running
  /\ Linkdead(c) /\ ~OMNI(c)
  /\ in_room' = RoomOfRescued(c) /\ was_in_room' = WasOfRescued(c)
  /\ UNCHANGED <<connected, character, snoops, str, ids, desc, timer,
                 player_list, player_table, ticking, fatal>>

(* update_tick starts: every player of the list gets his turn. *)
update_tick ==
  /\ Running
  /\ player_list # {}
  /\ ticking' = player_list
  /\ UNCHANGED <<connected, character, snoops, str, ids, desc, rooms, timer,
                 player_list, player_table, fatal>>

(* check_idling: the first long silence takes a player, in room i[c] and   *)
(* last in w[c], to limbo; the second extracts him.  Wizards may idle: no  *)
(* handler reads the timer of a wizard, which is not counted here beyond   *)
(* IdleOut.  A player's is counted on; that it stops there is a property.  *)
(* Mutant: the timer stands still.                                         *)
IdleStuck(c) == timer[c]
Idle(c) == IF OMNI(c) /\ timer[c] = IdleOut THEN IdleOut ELSE timer[c] + 1

check_idling(c, i, w) ==
  LET late    == ~OMNI(c) /\ Idle(c) > IdleVoid
      present == w[c] = NULL /\ i[c] # NULL
  IN
  IF late /\ ~present /\ Idle(c) >= IdleOut
  THEN extract_char(c, timer, i, w)
  ELSE /\ timer' = [timer EXCEPT ![c] = Idle(c)]
       /\ IF late /\ present
          THEN /\ in_room' = [i EXCEPT ![c] = "limbo"]
               /\ was_in_room' = [w EXCEPT ![c] = i[c]]
          ELSE in_room' = i /\ was_in_room' = w
       /\ UNCHANGED <<connected, character, snoops, str, ids, desc,
                      player_list, player_table, fatal>>

(* The blood and the poison of a tick are damage(ch, ch, ...), which       *)
(* is_allow_kill refuses: nobody dies in his turn.  Mutant: they kill, and *)
(* check_idling, called next, extracts the long silent a second time.      *)
TickBleeds(c) ==
  /\ c \in ticking /\ ~fatal
  /\ ticking' = ticking \ {c}
  /\ LET dead == ~OMNI(c) /\ Idle(c) >= IdleOut
     IN  check_idling(c, IF dead THEN [in_room EXCEPT ![c] = NULL] ELSE in_room, was_in_room)

TickPlayer(c) ==
  /\ c \in ticking /\ ~fatal
  /\ ticking' = ticking \ {c}
  /\ check_idling(c, in_room, was_in_room)

-----------------------------------------------------------------------------
Nanny(d) ==
  \/ \E c \in Char : NameRefused(d, c)
  \/ \E c \in Char, n \in Name : NameKnown(d, c, n)
  \/ \E c \in Char, n \in Name : NameNew(d, c, n)
  \/ NameHangup(d)
  \/ nan_conf_name(d)
  \/ nan_conf_known_passwd(d)
  \/ \E c \in Char : Reconnect(d, c)
  \/ nan_get_new_passwd(d, "PWDGET", "PWDCNF")
  \/ nan_get_new_passwd(d, "PWDNEW", "PWDNCNF")
  \/ nan_conf_new_passwd(d, "PWDCNF", "PWDGET", "QSEX")
  \/ nan_conf_new_passwd(d, "PWDNCNF", "PWDNEW", "SLCT")
  \/ nan_get_sex(d)
  \/ nan_get_class(d)
  \/ nan_conf_reroll(d)
  \/ nanny_RMOTD(d)
  \/ nanny_SLCT(d)
  \/ EnterDescription(d)
  \/ nan_enter_game(d)
  \/ nanny_DEL_PWD(d)
  \/ delete_char(d)
  \/ nanny_DEL_CONF(d)

Command(d) ==
  \/ interpreter(d)
  \/ do_quit(d)
  \/ do_rent(d)
  \/ \E v \in Char : do_snoop(d, v)
  \/ StopSnoop(d)
  \/ \E v \in Char : do_purge(d, v)
  \/ \E e \in Desc : do_police(d, e)

Tick == update_tick \/ \E c \in Char : TickPlayer(c)

Next ==
  \/ \E d \in Desc : new_descriptor(d) \/ LoseLink(d) \/ Nanny(d) \/ string_add(d) \/ Command(d)
  \/ \E c \in Char : kill_char(c) \/ damage(c)
  \/ Tick

(* The main loop calls update_tick every few pulses, whatever the players do. *)
Spec == Init /\ [][Next]_vars /\ WF_vars(Tick)

-----------------------------------------------------------------------------
(* Properties. *)

(* Descriptor and character point at each other: no handler that frees one *)
(* of them (close_socket, free_a_char, Reconnecting, extract_char) leaves  *)
(* the other pointing at it, and a character without a link is a player    *)
(* still in the world, never a lost record.                                *)
LinksMatch ==
  /\ \A d \in Desc : character[d] # NULL =>
        nr[character[d]] # "FREE" /\ desc[character[d]] = d
  /\ \A c \in Char : desc[c] # NULL => character[desc[c]] = c
  /\ \A c \in Char : nr[c] # "FREE" /\ desc[c] = NULL => c \in player_list

(* A connection is in CON_PLYNG exactly while its character is in the      *)
(* world, and only then is the character's nr -1: death, rent and the idle *)
(* extraction put the connection back to the menu, and the way a socket is *)
(* closed, which looks at connected only, is right for the character.      *)
(* While a description is typed in at the menu its text is open: nanny is  *)
(* never called in CON_EXDSCR, a state it does not know and dies of.       *)
StateMatchesWorld ==
  /\ \A c \in Char : c \in player_list <=> nr[c] = "WORLD"
  /\ \A d \in desc_list :
        connected[d] = "PLYNG" <=> character[d] \in player_list
  /\ \A d \in desc_list : connected[d] = "EXDSCR" => str[d]

(* Nobody is in the world twice under one name, however logins, link       *)
(* losses, reconnections and deletions interleave (the name is checked     *)
(* when it is typed, the linkdead only when the password is right), and    *)
(* whoever is in the world has a record: save_char of a linkdead player,   *)
(* who is looked up by name, never returns without writing.                *)
OneBodyPerName ==
  /\ \A b, c \in player_list : name[b] = name[c] => b = c
  /\ \A c \in player_list : name[c] \in player_table

(* A snoop is known at both ends, between two players in the game: what    *)
(* close_socket, char_from_world and do_snoop follow without a check       *)
(* (snoop.who->desc->snoop.by) is never a null or a freed descriptor.      *)
SnoopsMatch ==
  \A d \in Desc :
    /\ snoop_who[d] # NULL =>
         /\ connected[d] = "PLYNG"
         /\ snoop_who[d] \in player_list /\ desc[snoop_who[d]] # NULL
         /\ snoop_by[desc[snoop_who[d]]] = character[d]
    /\ snoop_by[d] # NULL =>
         /\ connected[d] = "PLYNG"
         /\ snoop_by[d] \in player_list /\ desc[snoop_by[d]] # NULL
         /\ snoop_who[desc[snoop_by[d]]] = character[d]

(* A body that lost its link is only taken over by the one who gave the    *)
(* password of its name.                                                   *)
OnlyOwnerReconnects ==
  [][\A c \in Char : Linkdead(c) /\ desc'[c] # NULL =>
       /\ connected[desc'[c]] = "PWDNRM"
       /\ name[character[desc'[c]]] = name[c]]_vars

(* A ghost does not stay for ever: he is reconnected, or killed, or the    *)
(* idle timer extracts him; wizards may stay.                              *)
GhostsLeave ==
  \A c \in Char : Linkdead(c) /\ ~OMNI(c) ~> ~Linkdead(c)

(* char_from_world's own assertion, which stops the server: nobody is      *)
(* taken from the world who is in no room (transfer.c:115), neither by two *)
(* handlers one after the other nor twice by one of them: everybody in the *)
(* world stands in a room.                                                 *)
NeverInNowhere == ~fatal /\ \A c \in player_list : in_room[c] # NULL
=============================================================================
