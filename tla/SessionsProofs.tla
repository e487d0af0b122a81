--------------------------- MODULE SessionsProofs ---------------------------
(***************************************************************************)
(* The session invariants of Sessions.tla, for any number of connections,  *)
(* characters and names.                                                   *)
(***************************************************************************)
EXTENDS Sessions, TLAPS

(* The invariant, stronger than the properties it proves.  A connection    *)
(* past CON_NME has a named character; pointers match both ways; no        *)
(* character is lost; nr, connected and player_list agree.                 *)
DescLinks ==
  \A d \in Desc : character[d] # NULL =>
    /\ connected[d] # "CLOSED"
    /\ desc[character[d]] = d
    /\ nr[character[d]] # "FREE"
    /\ connected[d] = "PLYNG" <=> character[d] \in player_list
Seated ==
  \A d \in Desc : connected[d] \notin {"CLOSED", "NME"} =>
    character[d] # NULL /\ name[character[d]] # NULL
CharLinks  == \A c \in Char : desc[c] # NULL => character[desc[c]] = c
NoneLost   ==
  \A c \in Char :
    /\ nr[c] # "FREE" /\ desc[c] = NULL => c \in player_list
    /\ nr[c] = "FREE" => name[c] = NULL
WorldIsNr  == \A c \in Char : c \in player_list <=> nr[c] = "WORLD"
WorldStands == \A c \in player_list : name[c] # NULL /\ in_room[c] # NULL
LinkInv ==
  /\ DescLinks /\ Seated /\ CharLinks /\ NoneLost /\ WorldIsNr /\ WorldStands
  /\ ticking \subseteq player_list

(* TypeOK without the bound of the timers, which is proved on its own.     *)
Types ==
  /\ connected \in [Desc -> State]
  /\ character \in [Desc -> Char \cup {NULL}]
  /\ snoop_who \in [Desc -> Char \cup {NULL}]
  /\ snoop_by \in [Desc -> Char \cup {NULL}]
  /\ str \in [Desc -> BOOLEAN]
  /\ nr \in [Char -> {"FREE", "NEW", "MENU", "WORLD"}]
  /\ name \in [Char -> Name \cup {NULL}]
  /\ desc \in [Char -> Desc \cup {NULL}]
  /\ in_room \in [Char -> Room \cup {NULL}]
  /\ was_in_room \in [Char -> Room \cup {NULL}]
  /\ timer \in [Char -> Nat]
  /\ player_list \subseteq Char
  /\ player_table \subseteq Name
  /\ ticking \subseteq Char
  /\ fatal \in BOOLEAN

Inv == Types /\ LinkInv

LEMMA InitInv == Init => Inv
<1> SUFFICES ASSUME Init PROVE Inv
  OBVIOUS
<1>1. Types
  BY DEF Init, Types, State
<1>2. LinkInv
  BY DEF Init, LinkInv, DescLinks, Seated, CharLinks, NoneLost, WorldIsNr, WorldStands
<1> QED
  BY <1>1, <1>2 DEF Inv

(* The timers and rooms a handler may leave behind: everybody in the world *)
(* still stands somewhere.                                                 *)
Bodies(t, i, w) ==
  /\ t \in [Char -> Nat]
  /\ i \in [Char -> Room \cup {NULL}] /\ w \in [Char -> Room \cup {NULL}]
  /\ \A c \in player_list : i[c] # NULL

LEMMA OwnBodies == Inv => Bodies(timer, in_room, was_in_room)
BY DEF Inv, Types, LinkInv, WorldStands, Bodies

(* What an input does first keeps the bodies in order. *)
LEMMA InputBodies ==
  ASSUME Inv, NEW d \in Desc
  PROVE  Bodies(Typed(d), RoomOnInput(d), WasOnInput(d))
<1> USE DEF Inv, Types, LinkInv, WorldStands, Bodies
<1>1. Typed(d) \in [Char -> Nat]
  BY DEF Typed
<1>2. RoomOnInput(d) \in [Char -> Room \cup {NULL}]
  BY DEF RoomOnInput, Away
<1>3. WasOnInput(d) \in [Char -> Room \cup {NULL}]
  BY DEF WasOnInput, Away
<1>4. \A c \in player_list : RoomOnInput(d)[c] # NULL
  BY DEF RoomOnInput, Away
<1> QED
  BY <1>1, <1>2, <1>3, <1>4

LEMMA TypedBodies ==
  ASSUME Inv, NEW d \in Desc
  PROVE  Bodies(Typed(d), in_room, was_in_room)
BY InputBodies, OwnBodies DEF Bodies

(* The types of what the shared routines leave. *)
LEMMA UnsnoopType ==
  ASSUME Types, NEW STATE d, Unsnoop(d)
  PROVE  /\ snoop_who' \in [Desc -> Char \cup {NULL}]
         /\ snoop_by' \in [Desc -> Char \cup {NULL}]
BY DEF Types, Unsnoop, Unsnooped

LEMMA FreeDescType ==
  ASSUME Types, NEW STATE d, free_desc(d)
  PROVE  /\ connected' \in [Desc -> State]
         /\ character' \in [Desc -> Char \cup {NULL}]
         /\ str' \in [Desc -> BOOLEAN]
BY DEF Types, free_desc, State

LEMMA FreeCharType ==
  ASSUME Types, NEW STATE c, NEW STATE t, NEW STATE i, NEW STATE w,
         Bodies(t, i, w), free_a_char(c, t, i, w)
  PROVE  /\ nr' \in [Char -> {"FREE", "NEW", "MENU", "WORLD"}]
         /\ name' \in [Char -> Name \cup {NULL}]
         /\ desc' \in [Char -> Desc \cup {NULL}]
         /\ timer' \in [Char -> Nat]
         /\ in_room' \in [Char -> Room \cup {NULL}]
         /\ was_in_room' \in [Char -> Room \cup {NULL}]
BY DEF Types, free_a_char, Bodies

LEMMA CloseType ==
  ASSUME Types, NEW STATE d,
         NEW STATE t, NEW STATE i, NEW STATE w, Bodies(t, i, w),
         close_socket(d, t, i, w)
  PROVE  Types'
<1>1. CASE character[d] # NULL /\ connected[d] # "PLYNG"
  BY <1>1, UnsnoopType, FreeDescType, FreeCharType DEF close_socket, Unlinked, Types
<1>2. CASE ~(character[d] # NULL /\ connected[d] # "PLYNG")
  <2>1. desc' \in [Char -> Desc \cup {NULL}]
    BY <1>2 DEF close_socket, Unlinked, Types
  <2> QED
    BY <1>2, <2>1, UnsnoopType, FreeDescType DEF close_socket, Unlinked, Types, Bodies, ids
<1> QED
  BY <1>1, <1>2

LEMMA ExtractType ==
  ASSUME Types, NEW STATE c, ticking' \subseteq ticking,
         NEW STATE t, NEW STATE i, NEW STATE w, Bodies(t, i, w),
         extract_char(c, t, i, w)
  PROVE  Types'
<1>1. CASE desc[c] # NULL
  BY <1>1, UnsnoopType, FreeDescType, FreeCharType DEF extract_char, Types
<1>2. CASE desc[c] = NULL
  BY <1>2, FreeCharType DEF extract_char, Types, snoops
<1> QED
  BY <1>1, <1>2

(* close_socket keeps the invariant, in whatever state the session is. *)
LEMMA CloseInv ==
  ASSUME Inv, NEW d \in Desc, d \in desc_list,
         NEW STATE t, NEW STATE i, NEW STATE w, Bodies(t, i, w),
         close_socket(d, t, i, w)
  PROVE  Inv'
<1>1. Types'
  BY CloseType DEF Inv
<1>2. LinkInv'
  BY DataAssumption DEF DataAssumption, Inv, Types, LinkInv, DescLinks, Seated, CharLinks,
     NoneLost, WorldIsNr, WorldStands, ids, desc_list, close_socket, Unlinked, free_desc, free_a_char, Bodies
<1> QED
  BY <1>1, <1>2 DEF Inv

(* So does extract_char. *)
LEMMA ExtractInv ==
  ASSUME Inv, NEW c \in player_list, ticking' \subseteq ticking \ {c},
         NEW STATE t, NEW STATE i, NEW STATE w, Bodies(t, i, w),
         extract_char(c, t, i, w)
  PROVE  Inv'
<1>1. Types'
  BY ExtractType DEF Inv
<1>2. LinkInv'
  BY DataAssumption DEF DataAssumption, Inv, Types, LinkInv, DescLinks, Seated, CharLinks,
     NoneLost, WorldIsNr, WorldStands, snoops, extract_char, free_desc, free_a_char, Bodies
<1> QED
  BY <1>1, <1>2 DEF Inv

(* A line for nanny that closes the connection, or only moves it on. *)
LEMMA HangupInv ==
  ASSUME Inv, NEW d \in Desc, connected[d] # "CLOSED", Hangup(d)
  PROVE  Inv'
BY CloseInv, TypedBodies DEF Hangup, desc_list

LEMMA GotoInv ==
  ASSUME Inv, NEW d \in Desc, connected[d] \notin {"CLOSED", "NME", "PLYNG"},
         NEW s \in State \ {"CLOSED", "NME", "PLYNG"}, Goto(d, s)
  PROVE  Inv'
<1>1. Types'
  BY TypedBodies DEF Inv, Types, Goto, Bodies, snoops, rooms, ids
<1>2. LinkInv'
  BY DEF Inv, Types, Goto, snoops, rooms, ids, LinkInv, DescLinks, Seated, CharLinks,
     NoneLost, WorldIsNr, WorldStands
<1> QED
  BY <1>1, <1>2 DEF Inv

LEMMA NannyInv == ASSUME Inv, NEW d \in Desc, Nanny(d) PROVE Inv'
<1> USE DEF NannyGets
<1> DEFINE Past == State \ {"CLOSED", "NME", "PLYNG"}
<1>0. /\ "NMECNF" \in Past /\ "PWDGET" \in Past /\ "PWDCNF" \in Past /\ "QSEX" \in Past
      /\ "QCLASS" \in Past /\ "CONFROLL" \in Past /\ "RMOTD" \in Past /\ "SLCT" \in Past
      /\ "PWDNRM" \in Past /\ "EXDSCR" \in Past /\ "PWDNEW" \in Past /\ "PWDNCNF" \in Past
      /\ "DEL_PWD" \in Past /\ "DEL_CONF" \in Past
  BY DEF State, Creating, Menu
<1>1. ASSUME NEW c \in Char, NameRefused(d, c) PROVE Inv'
  <2>1. Types'
    BY <1>1, TypedBodies DEF NameRefused, Allocates, Inv, Types, Bodies, snoops, rooms
  <2>2. LinkInv'
    BY <1>1, DataAssumption DEF DataAssumption, NameRefused, Allocates, Inv, Types, snoops, rooms, LinkInv, DescLinks, Seated, CharLinks,
     NoneLost, WorldIsNr, WorldStands
  <2> QED
    BY <2>1, <2>2 DEF Inv
<1>2. ASSUME NEW c \in Char, NEW n \in Name, NameKnown(d, c, n) PROVE Inv'
  <2>1. Types'
    BY <1>0, <1>2, TypedBodies DEF NameKnown, Allocates, Inv, Types, Bodies, snoops, rooms
  <2>2. LinkInv'
    BY <1>2, DataAssumption DEF DataAssumption, NameKnown, Allocates, Inv, Types, snoops, rooms, LinkInv, DescLinks, Seated, CharLinks,
     NoneLost, WorldIsNr, WorldStands
  <2> QED
    BY <2>1, <2>2 DEF Inv
<1>3. ASSUME NEW c \in Char, NEW n \in Name, NameNew(d, c, n) PROVE Inv'
  <2>1. Types'
    BY <1>0, <1>3, TypedBodies DEF NameNew, Allocates, Inv, Types, Bodies, snoops, rooms
  <2>2. LinkInv'
    BY <1>3, DataAssumption DEF DataAssumption, NameNew, Allocates, Inv, Types, snoops, rooms, LinkInv, DescLinks, Seated, CharLinks,
     NoneLost, WorldIsNr, WorldStands
  <2> QED
    BY <2>1, <2>2 DEF Inv
<1>4. ASSUME NameHangup(d) PROVE Inv'
  BY <1>4, HangupInv DEF NameHangup
<1>5. ASSUME nan_conf_name(d) PROVE Inv'
  <2>1. CASE Goto(d, "PWDGET") \/ Goto(d, "NMECNF")
    BY <1>0, <1>5, <2>1, GotoInv DEF nan_conf_name
  <2>2. CASE Hangup(d)
    BY <1>5, <2>2, HangupInv DEF nan_conf_name, HangupNoReturn
  <2>3. CASE /\ connected' = [connected EXCEPT ![d] = "NME"]
             /\ name' = [name EXCEPT ![character[d]] = NULL]
             /\ timer' = Typed(d)
             /\ UNCHANGED <<character, snoops, str, nr, desc, rooms,
                            player_list, player_table, ticking, fatal>>
    <3>1. Types'
      BY <2>3, TypedBodies DEF Inv, Types, State, Bodies, snoops, rooms
    <3>2. LinkInv'
      BY <1>5, <2>3 DEF nan_conf_name, Inv, Types, snoops, rooms, LinkInv, DescLinks, Seated, CharLinks,
     NoneLost, WorldIsNr, WorldStands
    <3> QED
      BY <3>1, <3>2 DEF Inv
  <2> QED
    BY <1>5, <2>1, <2>2, <2>3 DEF nan_conf_name, HangupNoReturn
<1>6. ASSUME nan_conf_known_passwd(d) PROVE Inv'
  BY <1>0, <1>6, HangupInv, GotoInv DEF nan_conf_known_passwd
<1>7. ASSUME NEW c \in Char, Reconnect(d, c) PROVE Inv'
  <2>1. Types'
    BY <1>7 DEF Reconnect, State, Inv, Types, snoops
  <2>2. LinkInv'
    BY <1>7, DataAssumption DEF DataAssumption, Reconnect, Ghosts, Inv, Types, snoops, LinkInv, DescLinks, Seated, CharLinks,
     NoneLost, WorldIsNr, WorldStands
  <2> QED
    BY <2>1, <2>2 DEF Inv
<1>8. ASSUME nan_get_new_passwd(d, "PWDGET", "PWDCNF") \/ nan_get_new_passwd(d, "PWDNEW", "PWDNCNF")
      PROVE Inv'
  BY <1>0, <1>8, HangupInv, GotoInv DEF nan_get_new_passwd, HangupNoReturn
<1>9. ASSUME \/ nan_conf_new_passwd(d, "PWDCNF", "PWDGET", "QSEX")
             \/ nan_conf_new_passwd(d, "PWDNCNF", "PWDNEW", "SLCT")
      PROVE Inv'
  BY <1>0, <1>9, GotoInv DEF nan_conf_new_passwd
<1>10. ASSUME nan_get_sex(d) \/ nan_get_class(d) PROVE Inv'
  BY <1>0, <1>10, GotoInv DEF nan_get_sex, nan_get_class
<1>11. ASSUME nan_conf_reroll(d) PROVE Inv'
  <2>1. CASE Goto(d, "CONFROLL")
    BY <1>0, <1>11, <2>1, GotoInv DEF nan_conf_reroll, create_entry
  <2>2. CASE /\ connected' = [connected EXCEPT ![d] = "RMOTD"]
             /\ player_table' = create_entry(name[character[d]])
             /\ timer' = Typed(d)
             /\ UNCHANGED <<character, snoops, str, ids, desc, rooms,
                            player_list, ticking, fatal>>
    <3>1. name[character[d]] \in Name
      BY <1>11 DEF nan_conf_reroll, create_entry, Inv, Types, LinkInv, Seated
    <3>2. Types'
      BY <1>0, <2>2, <3>1, TypedBodies DEF create_entry, Inv, Types, Bodies, snoops, rooms, ids
    <3>3. LinkInv'
      BY <1>11, <2>2 DEF nan_conf_reroll, create_entry, Inv, Types, snoops, rooms, ids, LinkInv, DescLinks, Seated, CharLinks,
     NoneLost, WorldIsNr, WorldStands
    <3> QED
      BY <3>2, <3>3 DEF Inv
  <2> QED
    BY <1>11, <2>1, <2>2 DEF nan_conf_reroll, create_entry
<1>12. ASSUME nanny_RMOTD(d) \/ nanny_SLCT(d) \/ nanny_DEL_PWD(d) \/ nanny_DEL_CONF(d) PROVE Inv'
  BY <1>0, <1>12, HangupInv, GotoInv DEF nanny_RMOTD, nanny_SLCT, nanny_DEL_PWD, nanny_DEL_CONF
<1>13. ASSUME EnterDescription(d) PROVE Inv'
  <2>1. Types'
    BY <1>0, <1>13, TypedBodies DEF EnterDescription, Inv, Types, Bodies, snoops, rooms, ids
  <2>2. LinkInv'
    BY <1>13 DEF EnterDescription, Inv, Types, snoops, rooms, ids, LinkInv, DescLinks, Seated, CharLinks,
     NoneLost, WorldIsNr, WorldStands
  <2> QED
    BY <2>1, <2>2 DEF Inv
<1>14. ASSUME nan_enter_game(d) PROVE Inv'
  <2>1. Types'
    BY <1>14, TypedBodies DEF nan_enter_game, Inv, Types, State, Room, Bodies, snoops, LinkInv, Seated
  <2>2. LinkInv'
    BY <1>14, DataAssumption DEF DataAssumption, nan_enter_game, Inv, Types, snoops, LinkInv, DescLinks, Seated, CharLinks,
     NoneLost, WorldIsNr, WorldStands
  <2> QED
    BY <2>1, <2>2 DEF Inv
<1>15. ASSUME delete_char(d) PROVE Inv'
  <2>1. Types'
    BY <1>15, OwnBodies, UnsnoopType, FreeDescType, FreeCharType DEF delete_char, Inv, Types
  <2>2. LinkInv'
    BY <1>15, DataAssumption DEF DataAssumption, delete_char, free_desc, free_a_char, Inv, Types, LinkInv, DescLinks, Seated, CharLinks,
     NoneLost, WorldIsNr, WorldStands
  <2> QED
    BY <2>1, <2>2 DEF Inv
<1> QED
  BY <1>1, <1>2, <1>3, <1>4, <1>5, <1>6, <1>7, <1>8, <1>9, <1>10, <1>11, <1>12, <1>13, <1>14, <1>15
  DEF Nanny

(* What the input itself does, before the text or the command. *)
LEMMA StringInv == ASSUME Inv, NEW d \in Desc, string_add(d) PROVE Inv'
<1>1. Types'
  BY InputBodies, ZenonT(30) DEF string_add, AfterText, Inv, Types, Bodies, State, Menu, snoops, ids
<1>2. LinkInv'
  <2>1. \A e \in Desc : connected'[e] # connected[e] => connected[e] = "EXDSCR" /\ connected'[e] = "SLCT"
    BY DEF string_add, AfterText, Inv, Types
  <2>2. DescLinks' /\ Seated'
    BY <2>1 DEF string_add, AfterText, ids, Inv, LinkInv, DescLinks, Seated
  <2>3. CharLinks' /\ NoneLost' /\ WorldIsNr' /\ WorldStands' /\ (ticking \subseteq player_list)'
    BY InputBodies DEF string_add, AfterText, Bodies, ids, Inv, LinkInv, CharLinks, NoneLost, WorldIsNr, WorldStands
  <2> QED
    BY <2>2, <2>3 DEF LinkInv
<1> QED
  BY <1>1, <1>2 DEF Inv

LEMMA CommandInv == ASSUME Inv, NEW d \in Desc, Command(d) PROVE Inv'
<1>0. Bodies(Typed(d), RoomOnInput(d), WasOnInput(d))
  BY InputBodies
<1>1. ASSUME interpreter(d) PROVE Inv'
  <2>1. Types'
    BY <1>1, <1>0 DEF interpreter, Inv, Types, Bodies, snoops, ids
  <2>2. LinkInv'
    BY <1>1, <1>0 DEF interpreter, Bodies, Inv, Types, snoops, ids, LinkInv, DescLinks, Seated, CharLinks,
     NoneLost, WorldIsNr, WorldStands
  <2> QED
    BY <2>1, <2>2 DEF Inv
<1>2. ASSUME do_quit(d) PROVE Inv'
  BY <1>0, <1>2, CloseInv DEF do_quit, Commands, desc_list
<1>3. ASSUME do_rent(d) PROVE Inv'
  <2>1. Types'
    BY <1>3, <1>0, UnsnoopType DEF do_rent, ToMenu, Inv, Types, Bodies, State, Menu, Room
  <2>2. LinkInv'
    BY <1>3, <1>0, DataAssumption DEF DataAssumption, Commands, Running, do_rent, ToMenu, Bodies, Inv, Types, LinkInv, DescLinks, Seated, CharLinks,
     NoneLost, WorldIsNr, WorldStands
  <2> QED
    BY <2>1, <2>2 DEF Inv
<1>4. ASSUME NEW v \in Char, do_snoop(d, v) PROVE Inv'
  <2>1. Types'
    BY <1>4, <1>0 DEF do_snoop, Commands, Inv, Types, LinkInv, Seated, Bodies, ids
  <2>2. LinkInv'
    BY <1>4, <1>0 DEF do_snoop, Bodies, Inv, Types, snoops, ids, LinkInv, DescLinks, Seated, CharLinks,
     NoneLost, WorldIsNr, WorldStands
  <2> QED
    BY <2>1, <2>2 DEF Inv
<1>5. ASSUME StopSnoop(d) PROVE Inv'
  <2>1. Types'
    BY <1>5, <1>0 DEF StopSnoop, Inv, Types, Bodies, ids
  <2>2. LinkInv'
    BY <1>5, <1>0 DEF StopSnoop, Bodies, Inv, Types, ids, LinkInv, DescLinks, Seated, CharLinks,
     NoneLost, WorldIsNr, WorldStands
  <2> QED
    BY <2>1, <2>2 DEF Inv
<1>6. ASSUME NEW v \in Char, do_purge(d, v) PROVE Inv'
  BY <1>0, <1>6, ExtractInv DEF do_purge, Commands, Running
<1>7. ASSUME NEW e \in Desc, do_police(d, e) PROVE Inv'
  <2>1. CASE connected[e] = "PLYNG" /\ Level[name[character[e]]] < Level[name[character[d]]]
    <3>1. character[e] \in player_list
      BY <2>1 DEF Inv, Types, LinkInv, Seated, DescLinks
    <3>2. ticking' \subseteq ticking \ {character[e]}
      BY <1>7, <2>1 DEF do_police, Commands, Running
    <3>3. extract_char(character[e], Typed(d), RoomOnInput(d), WasOnInput(d))
      BY <1>7, <2>1 DEF do_police
    <3> QED
      BY <1>0, <3>1, <3>2, <3>3, ExtractInv
  <2>2. CASE ~(connected[e] = "PLYNG" /\ Level[name[character[e]]] < Level[name[character[d]]])
    BY <1>0, <1>7, <2>2, CloseInv DEF do_police
  <2> QED
    BY <2>1, <2>2
<1> QED
  BY <1>1, <1>2, <1>3, <1>4, <1>5, <1>6, <1>7 DEF Command

LEMMA RescuedBodies ==
  ASSUME Inv, NEW c \in player_list
  PROVE  Bodies(timer, RoomOfRescued(c), WasOfRescued(c))
BY DataAssumption DEF DataAssumption, Inv, Types, LinkInv, WorldStands, Bodies, RoomOfRescued,
   WasOfRescued, Room

(* A death: a player with a link goes back to the menu, a ghost is freed. *)
LEMMA DeathInv ==
  ASSUME Inv, NEW c \in player_list,
         NEW STATE t, t \in Nat,
         char_from_world(c, in_room, was_in_room),
         IF desc[c] = NULL THEN free_a_char(c, timer, in_room, was_in_room)
                           ELSE timer' = [timer EXCEPT ![c] = t],
         UNCHANGED player_table, ticking' \subseteq ticking \ {c}
  PROVE  Inv'
<1>1. CASE desc[c] = NULL
  <2>1. Types'
    BY <1>1, OwnBodies, FreeCharType DEF char_from_world, ToMenu, Inv, Types, snoops
  <2>2. LinkInv'
    BY <1>1, DataAssumption DEF DataAssumption, char_from_world, ToMenu, free_a_char, snoops, Inv, Types, LinkInv, DescLinks, Seated, CharLinks,
     NoneLost, WorldIsNr, WorldStands
  <2> QED
    BY <2>1, <2>2 DEF Inv
<1>2. CASE desc[c] # NULL
  <2>1. Types'
    BY <1>2, UnsnoopType DEF char_from_world, ToMenu, Inv, Types, State, Menu, snoops
  <2>2. LinkInv'
    BY <1>2, DataAssumption DEF DataAssumption, char_from_world, ToMenu, Inv, Types, LinkInv, DescLinks, Seated, CharLinks,
     NoneLost, WorldIsNr, WorldStands
  <2> QED
    BY <2>1, <2>2 DEF Inv
<1> QED
  BY <1>1, <1>2

LEMMA IdleType == ASSUME Types, NEW c \in Char PROVE Idle(c) \in Nat
BY DataAssumption DEF DataAssumption, Types, Idle

LEMMA CheckIdlingInv ==
  ASSUME Inv, NEW c \in player_list, ticking' = ticking \ {c},
         NEW STATE i, NEW STATE w, Bodies(timer, i, w), check_idling(c, i, w)
  PROVE  Inv'
<1> DEFINE late    == ~OMNI(c) /\ Idle(c) > IdleVoid
           present == w[c] = NULL /\ i[c] # NULL
<1>1. CASE late /\ ~present /\ Idle(c) >= IdleOut
  BY <1>1, ExtractInv DEF check_idling
<1>2. CASE ~(late /\ ~present /\ Idle(c) >= IdleOut)
  <2>1. /\ timer' \in [Char -> Nat]
        /\ in_room' \in [Char -> Room \cup {NULL}]
        /\ was_in_room' \in [Char -> Room \cup {NULL}]
        /\ \A b \in player_list : in_room'[b] # NULL
    BY <1>2, IdleType, DataAssumption DEF DataAssumption, check_idling, Bodies, Inv, Types, Room
  <2>2. Types'
    BY <1>2, <2>1 DEF check_idling, Inv, Types, snoops, ids
  <2>3. LinkInv'
    BY <1>2, <2>1 DEF check_idling, snoops, ids, Inv, Types, LinkInv, DescLinks, Seated, CharLinks,
     NoneLost, WorldIsNr, WorldStands
  <2> QED
    BY <2>2, <2>3 DEF Inv
<1> QED
  BY <1>1, <1>2

LEMMA TickInv == ASSUME Inv, Tick PROVE Inv'
<1>1. CASE update_tick
  BY <1>1 DEF update_tick, snoops, rooms, ids, Inv, Types, LinkInv, DescLinks, Seated, CharLinks,
     NoneLost, WorldIsNr, WorldStands
<1>2. ASSUME NEW c \in Char, TickPlayer(c) PROVE Inv'
  <2>1. c \in player_list
    BY <1>2 DEF TickPlayer, Inv, LinkInv
  <2> QED
    BY <1>2, <2>1, OwnBodies, CheckIdlingInv DEF TickPlayer
<1> QED
  BY <1>1, <1>2 DEF Tick

LEMMA NextInv == Inv /\ [Next]_vars => Inv'
<1> SUFFICES ASSUME Inv, [Next]_vars PROVE Inv'
  OBVIOUS
<1>1. ASSUME NEW d \in Desc, new_descriptor(d) PROVE Inv'
  <2>1. Types'
    BY <1>1 DEF new_descriptor, Inv, Types, State, snoops, rooms, ids
  <2>2. LinkInv'
    BY <1>1 DEF new_descriptor, Inv, Types, snoops, rooms, ids, LinkInv, DescLinks, Seated, CharLinks,
     NoneLost, WorldIsNr, WorldStands
  <2> QED
    BY <2>1, <2>2 DEF Inv
<1>2. ASSUME NEW d \in Desc, LoseLink(d) PROVE Inv'
  BY <1>2, CloseInv, OwnBodies DEF LoseLink
<1>3. ASSUME NEW c \in Char, kill_char(c) PROVE Inv'
  <2>1. timer' = [timer EXCEPT ![c] = timer[c]] \/ desc[c] = NULL
    BY <1>3 DEF kill_char, Inv, Types
  <2>2. timer[c] \in Nat /\ c \in player_list
    BY <1>3 DEF kill_char, Inv, Types
  <2>3. ticking' \subseteq ticking \ {c}
    BY <1>3 DEF kill_char, Running
  <2> QED
    BY <1>3, <2>1, <2>2, <2>3, DeathInv DEF kill_char
<1>4. ASSUME NEW c \in Char, damage(c) PROVE Inv'
  <2>1. c \in player_list /\ Bodies(timer, RoomOfRescued(c), WasOfRescued(c))
    BY <1>4, RescuedBodies DEF damage, Linkdead
  <2>2. Types'
    BY <1>4, <2>1 DEF damage, Bodies, Inv, Types, snoops, ids
  <2>3. LinkInv'
    BY <1>4, <2>1 DEF damage, Bodies, Inv, Types, snoops, ids, LinkInv, DescLinks, Seated, CharLinks,
     NoneLost, WorldIsNr, WorldStands
  <2> QED
    BY <2>2, <2>3 DEF Inv
<1>5. CASE UNCHANGED vars
  BY <1>5 DEF vars, snoops, rooms, ids, Inv, Types, LinkInv, DescLinks, Seated, CharLinks,
     NoneLost, WorldIsNr, WorldStands
<1> QED
  BY <1>1, <1>2, <1>3, <1>4, <1>5, NannyInv, StringInv, CommandInv, TickInv DEF Next

(* The idle timers.  A player (not a wizard) who is in the world and has   *)
(* been silent for longer than IdleVoid has been taken to the void.        *)
IdleInv ==
  /\ \A b \in Char : timer[b] <= IdleOut
  /\ \A b \in player_list : timer[b] > IdleVoid => OMNI(b) \/ was_in_room[b] # NULL

(* What every handler but check_idling does to each character: his timer   *)
(* is cleared, or he keeps it, and then his name and the room he is away   *)
(* from too.                                                               *)
Settled(b) ==
  \/ timer'[b] = 0
  \/ /\ timer'[b] = timer[b]
     /\ b \in player_list' => /\ b \in player_list /\ name'[b] = name[b]
                              /\ was_in_room'[b] = was_in_room[b] \/ was_in_room'[b] # NULL
Settles == \A b \in Char : Settled(b)

(* The same of the timers and rooms a handler hands on. *)
Calm(t, w) == \A b \in Char : t[b] = 0 \/ (t[b] = timer[b] /\ w[b] = was_in_room[b])

LEMMA SettledIdle == ASSUME Inv, Inv', IdleInv, Settles PROVE IdleInv'
<1>1. ASSUME NEW b \in Char PROVE timer'[b] <= IdleOut
  BY <1>1, DataAssumption DEF DataAssumption, Settles, Settled, IdleInv
<1>2. ASSUME NEW b \in player_list', timer'[b] > IdleVoid
      PROVE  OMNI(b)' \/ was_in_room'[b] # NULL
  <2>1. b \in Char /\ timer'[b] # 0
    BY <1>2, DataAssumption DEF DataAssumption, Inv, Types
  <2>2. /\ timer'[b] = timer[b] /\ b \in player_list /\ name'[b] = name[b]
        /\ was_in_room'[b] = was_in_room[b] \/ was_in_room'[b] # NULL
    BY <1>2, <2>1 DEF Settles, Settled
  <2>3. OMNI(b)' = OMNI(b)
    BY <2>2 DEF OMNI
  <2> QED
    BY <1>2, <2>2, <2>3 DEF IdleInv
<1> QED
  BY <1>1, <1>2 DEF IdleInv

LEMMA OwnCalm == Calm(timer, was_in_room)
BY DEF Calm

LEMMA InputCalm == ASSUME Inv, NEW d \in Desc PROVE Calm(Typed(d), WasOnInput(d))
<1>1. Away(d) => character[d] # NULL
  BY DEF Away, Inv, Types, LinkInv, Seated
<1> QED
  BY <1>1 DEF Calm, Typed, WasOnInput, Inv, Types

LEMMA TypedCalm == ASSUME Inv, NEW d \in Desc PROVE Calm(Typed(d), was_in_room)
BY DEF Calm, Typed, Inv, Types

LEMMA FreeSettles ==
  ASSUME Inv, NEW c, NEW STATE t, NEW STATE i, NEW STATE w,
         Bodies(t, i, w), Calm(t, w), player_list' \subseteq player_list,
         free_a_char(c, t, i, w)
  PROVE  Settles
BY DEF Settles, Settled, Calm, Bodies, free_a_char, Inv, Types

LEMMA CloseSettles ==
  ASSUME Inv, NEW d \in Desc, NEW STATE t, NEW STATE i, NEW STATE w,
         Bodies(t, i, w), Calm(t, w), close_socket(d, t, i, w)
  PROVE  Settles
<1>1. CASE character[d] # NULL /\ connected[d] # "PLYNG"
  BY <1>1, FreeSettles DEF close_socket
<1>2. CASE ~(character[d] # NULL /\ connected[d] # "PLYNG")
  BY <1>2 DEF close_socket, ids, Settles, Settled, Calm
<1> QED
  BY <1>1, <1>2

LEMMA ExtractSettles ==
  ASSUME Inv, NEW c, NEW STATE t, NEW STATE i, NEW STATE w,
         Bodies(t, i, w), Calm(t, w), extract_char(c, t, i, w)
  PROVE  Settles
BY FreeSettles DEF extract_char

LEMMA NannySettles == ASSUME Inv, NEW d \in Desc, Nanny(d) PROVE Settles
<1>1. CASE Hangup(d)
  BY <1>1, TypedBodies, TypedCalm, CloseSettles DEF Hangup
<1>2. CASE delete_char(d)
  BY <1>2, OwnBodies, OwnCalm, FreeSettles DEF delete_char
<1>3. CASE nan_enter_game(d)
  <2>1. character[d] \in Char /\ timer'[character[d]] = 0
    BY <1>3 DEF nan_enter_game, NannyGets, Typed, Inv, Types, LinkInv, Seated
  <2>2. \A b \in Char : timer'[b] = 0 \/ timer'[b] = timer[b]
    BY <1>3 DEF nan_enter_game, Typed, Inv, Types
  <2>3. \A b \in player_list' : b \in player_list \/ b = character[d]
    BY <1>3 DEF nan_enter_game
  <2>4. UNCHANGED <<name, was_in_room>>
    BY <1>3 DEF nan_enter_game
  <2> QED
    BY <2>1, <2>2, <2>3, <2>4 DEF Settles, Settled
<1>4. ASSUME NEW c \in Char, Reconnect(d, c) PROVE Settles
  BY <1>4 DEF Reconnect, Settles, Settled, Inv, Types
<1>5. CASE /\ timer' = Typed(d)
           /\ UNCHANGED <<name, was_in_room, player_list>>
  BY <1>5 DEF Typed, Settles, Settled, Inv, Types
<1>6. ASSUME NEW c \in Char, NEW n, Allocates(d, c), connected[d] = "NME",
             name' = name \/ name' = [name EXCEPT ![c] = n]
      PROVE  Settles
  <2>1. c \notin player_list /\ character[d] \in {c, NULL}
    BY <1>6, DataAssumption DEF DataAssumption, Allocates, Inv, Types, LinkInv, DescLinks, WorldIsNr
  <2> QED
    BY <1>6, <2>1 DEF Allocates, rooms, Typed, Settles, Settled, Inv, Types
<1>7. ASSUME nan_conf_name(d) PROVE Settles
  <2>1. CASE /\ connected[d] = "NMECNF"
             /\ name' = [name EXCEPT ![character[d]] = NULL]
             /\ timer' = Typed(d)
             /\ UNCHANGED <<was_in_room, player_list>>
    <3>1. character[d] \in Char /\ character[d] # NULL
      BY <2>1 DEF Inv, Types, LinkInv, Seated
    <3> QED
      BY <2>1, <3>1 DEF Typed, Settles, Settled, Inv, Types
  <2> QED
    BY <1>1, <1>5, <1>7, <2>1 DEF nan_conf_name, HangupNoReturn, NannyGets, Goto, rooms, ids
<1>8. ASSUME \/ nan_get_new_passwd(d, "PWDGET", "PWDCNF") \/ nan_get_new_passwd(d, "PWDNEW", "PWDNCNF")
             \/ nan_conf_new_passwd(d, "PWDCNF", "PWDGET", "QSEX")
             \/ nan_conf_new_passwd(d, "PWDNCNF", "PWDNEW", "SLCT")
             \/ nan_conf_known_passwd(d) \/ NameHangup(d)
      PROVE Settles
  BY <1>1, <1>5, <1>8 DEF nan_get_new_passwd, HangupNoReturn, nan_conf_new_passwd, nan_conf_known_passwd,
     NameHangup, Goto, rooms, ids
<1>9. ASSUME \/ nan_get_sex(d) \/ nan_get_class(d) \/ nan_conf_reroll(d) \/ nanny_RMOTD(d)
             \/ nanny_SLCT(d) \/ EnterDescription(d) \/ nanny_DEL_PWD(d) \/ nanny_DEL_CONF(d)
      PROVE Settles
  BY <1>1, <1>5, <1>9 DEF nan_get_sex, nan_get_class, nan_conf_reroll, nanny_RMOTD, nanny_SLCT,
     EnterDescription, nanny_DEL_PWD, nanny_DEL_CONF, Goto, rooms, ids
<1>10. ASSUME NEW c \in Char, NameRefused(d, c) PROVE Settles
  BY <1>6, <1>10 DEF NameRefused, NannyGets
<1>11. ASSUME NEW c \in Char, NEW n \in Name, NameKnown(d, c, n) \/ NameNew(d, c, n) PROVE Settles
  BY <1>6, <1>11 DEF NameKnown, NameNew, NannyGets
<1> QED
  BY <1>2, <1>3, <1>4, <1>7, <1>8, <1>9, <1>10, <1>11 DEF Nanny

LEMMA CommandSettles == ASSUME Inv, NEW d \in Desc, Command(d) PROVE Settles
<1>1. Bodies(Typed(d), RoomOnInput(d), WasOnInput(d)) /\ Calm(Typed(d), WasOnInput(d))
  BY InputBodies, InputCalm
<1>2. CASE /\ timer' = Typed(d) /\ was_in_room' = WasOnInput(d)
           /\ UNCHANGED name /\ player_list' \subseteq player_list
  BY <1>1, <1>2 DEF Calm, Settles, Settled
<1>3. ASSUME NEW c, extract_char(c, Typed(d), RoomOnInput(d), WasOnInput(d)) PROVE Settles
  BY <1>1, <1>3, ExtractSettles
<1>4. ASSUME NEW e \in Desc, close_socket(e, Typed(d), RoomOnInput(d), WasOnInput(d)) PROVE Settles
  BY <1>1, <1>4, CloseSettles
<1>5. ASSUME NEW v \in Char, do_purge(d, v) PROVE Settles
  BY <1>3, <1>5 DEF do_purge
<1>6. ASSUME NEW e \in Desc, do_police(d, e) PROVE Settles
  BY <1>3, <1>4, <1>6 DEF do_police
<1>7. ASSUME do_quit(d) PROVE Settles
  BY <1>4, <1>7 DEF do_quit
<1>8. ASSUME NEW v \in Char, do_snoop(d, v) PROVE Settles
  BY <1>2, <1>8 DEF do_snoop, ids
<1>9. ASSUME interpreter(d) \/ do_rent(d) \/ StopSnoop(d) PROVE Settles
  BY <1>2, <1>9 DEF interpreter, do_rent, StopSnoop, ids
<1> QED
  BY <1>5, <1>6, <1>7, <1>8, <1>9 DEF Command

(* check_idling: a player over IdleVoid is away when the tick is over, or  *)
(* he was away before and is below IdleOut, or he is extracted.            *)
LEMMA CheckIdlingIdle ==
  ASSUME Inv, Inv', IdleInv, NEW c \in player_list, check_idling(c, in_room, was_in_room)
  PROVE  IdleInv'
<1> DEFINE late    == ~OMNI(c) /\ Idle(c) > IdleVoid
           present == was_in_room[c] = NULL /\ in_room[c] # NULL
<1>0. /\ c \in Char /\ in_room[c] # NULL /\ timer[c] \in Nat /\ timer[c] <= IdleOut
      /\ IdleVoid \in Nat /\ IdleOut \in Nat /\ IdleVoid < IdleOut
  BY DataAssumption DEF DataAssumption, Inv, Types, LinkInv, WorldStands, IdleInv
<1>1. CASE late /\ ~present /\ Idle(c) >= IdleOut
  <2>1. Settles
    BY <1>1, OwnBodies, OwnCalm, ExtractSettles DEF check_idling
  <2> QED
    BY <2>1, SettledIdle
<1>2. CASE ~(late /\ ~present /\ Idle(c) >= IdleOut)
  <2>1. timer' = [timer EXCEPT ![c] = Idle(c)] /\ UNCHANGED <<name, player_list>>
    BY <1>2 DEF check_idling, ids
  <2>2. \A b \in Char \ {c} : timer'[b] = timer[b] /\ was_in_room'[b] = was_in_room[b]
    BY <1>2, <2>1 DEF check_idling, Inv, Types
  <2>3. timer'[c] = Idle(c)
    BY <1>0, <2>1 DEF Inv, Types
  <2>4. \A b \in Char : OMNI(b)' = OMNI(b)
    BY <2>1 DEF OMNI
  <2>5. Idle(c) <= IdleOut
    <3>1. CASE OMNI(c)
      BY <1>0, <3>1 DEF Idle
    <3>2. CASE ~OMNI(c) /\ ~late
      BY <1>0, <3>2 DEF Idle
    <3>3. CASE ~OMNI(c) /\ late /\ present
      BY <1>0, <3>3 DEF Idle, IdleInv
    <3>4. CASE ~OMNI(c) /\ late /\ ~present
      BY <1>0, <1>2, <3>4 DEF Idle
    <3> QED
      BY <3>1, <3>2, <3>3, <3>4
  <2>6. late => was_in_room'[c] # NULL
    BY <1>0, <1>2 DEF check_idling, Inv, Types
  <2>7. \A b \in Char : timer'[b] <= IdleOut
    BY <2>2, <2>3, <2>5 DEF IdleInv
  <2>8. ASSUME NEW b \in player_list', timer'[b] > IdleVoid PROVE OMNI(b)' \/ was_in_room'[b] # NULL
    BY <2>1, <2>2, <2>3, <2>4, <2>6, <2>8 DEF IdleInv, Inv, Types
  <2> QED
    BY <2>7, <2>8 DEF IdleInv
<1> QED
  BY <1>1, <1>2

LEMMA NextIdle == Inv /\ IdleInv /\ [Next]_vars => IdleInv'
<1> SUFFICES ASSUME Inv, IdleInv, [Next]_vars PROVE IdleInv'
  OBVIOUS
<1>0. Inv'
  BY NextInv
<1>1. ASSUME NEW d \in Desc, new_descriptor(d) PROVE Settles
  BY <1>1 DEF new_descriptor, rooms, ids, Settles, Settled
<1>2. ASSUME NEW d \in Desc, LoseLink(d) PROVE Settles
  BY <1>2, OwnBodies, OwnCalm, CloseSettles DEF LoseLink
<1>3. ASSUME NEW d \in Desc, string_add(d) PROVE Settles
  BY <1>3, InputCalm DEF string_add, ids, Calm, Settles, Settled
<1>4. ASSUME NEW c \in Char, kill_char(c) PROVE Settles
  <2>1. CASE desc[c] = NULL
    BY <1>4, <2>1, OwnBodies, OwnCalm, FreeSettles DEF kill_char, char_from_world
  <2>2. CASE desc[c] # NULL
    BY <1>4, <2>2 DEF kill_char, char_from_world, Settles, Settled
  <2> QED
    BY <2>1, <2>2
<1>5. ASSUME NEW c \in Char, damage(c) PROVE Settles
  BY <1>5 DEF damage, Linkdead, WasOfRescued, ids, Settles, Settled, Inv, Types, LinkInv, WorldStands
<1>6. ASSUME UNCHANGED vars PROVE Settles
  BY <1>6 DEF vars, rooms, ids, Settles, Settled
<1>7. ASSUME update_tick PROVE Settles
  BY <1>7 DEF update_tick, rooms, ids, Settles, Settled
<1>8. ASSUME NEW c \in Char, TickPlayer(c) PROVE IdleInv'
  <2>1. c \in player_list
    BY <1>8 DEF TickPlayer, Inv, LinkInv
  <2> QED
    BY <1>0, <1>8, <2>1, CheckIdlingIdle DEF TickPlayer
<1>9. CASE Settles
  BY <1>0, <1>9, SettledIdle
<1> QED
  BY <1>1, <1>2, <1>3, <1>4, <1>5, <1>6, <1>7, <1>8, <1>9, NannySettles, CommandSettles DEF Next, Tick

(* Whatever the players, the network and the world do, the state of the    *)
(* sessions keeps its types, and no player stays who has been silent for   *)
(* IdleOut ticks.                                                          *)
THEOREM TypeCorrect == Spec => []TypeOK
<1>1. Init => IdleInv
  BY DataAssumption DEF DataAssumption, Init, IdleInv
<1>2. Inv /\ IdleInv => TypeOK
  BY DataAssumption DEF DataAssumption, Inv, Types, IdleInv, TypeOK
<1> QED
  BY InitInv, NextInv, NextIdle, <1>1, <1>2, PTL DEF Spec

(* Descriptors and characters point at each other, and no character is     *)
(* lost, on any number of connections.                                     *)
THEOREM LinksAlwaysMatch == Spec => []LinksMatch
<1>1. Inv => LinksMatch
  BY DEF Inv, LinkInv, DescLinks, CharLinks, NoneLost, LinksMatch
<1> QED
  BY InitInv, NextInv, <1>1, PTL DEF Spec

(* A description that is typed in has its text open. *)
Text == \A d \in Desc : connected[d] = "EXDSCR" => str[d]

LEMMA TextNext == Inv /\ Text /\ [Next]_vars => Text'
<1> SUFFICES ASSUME Inv, Text, [Next]_vars PROVE Text'
  OBVIOUS
<1> USE DEF Inv, Types, Text
<1>1. ASSUME NEW d \in Desc, NEW t, NEW i, NEW w, close_socket(d, t, i, w) PROVE Text'
  BY <1>1 DEF close_socket, free_desc
<1>2. ASSUME NEW c \in Char, NEW t, NEW i, NEW w, extract_char(c, t, i, w) PROVE Text'
  BY <1>2 DEF extract_char, free_desc
<1>3. ASSUME NEW c \in Char, NEW i, NEW w, char_from_world(c, i, w) PROVE Text'
  BY <1>3 DEF char_from_world, ToMenu
<1>4. ASSUME NEW d \in Desc, Command(d) PROVE Text'
  <2>1. CASE interpreter(d)
    BY <2>1 DEF interpreter, Commands
  <2>2. CASE do_quit(d)
    BY <1>1, <2>2 DEF do_quit
  <2>3. CASE do_rent(d)
    BY <2>3 DEF do_rent, ToMenu
  <2>4. ASSUME NEW v \in Char, do_purge(d, v) PROVE Text'
    BY <1>2, <2>4 DEF do_purge
  <2>5. ASSUME NEW e \in Desc, do_police(d, e) PROVE Text'
    <3>1. CASE connected[e] = "PLYNG" /\ Level[name[character[e]]] < Level[name[character[d]]]
      <4>1. character[e] \in Char
        BY <2>5, <3>1 DEF do_police, desc_list, LinkInv, DescLinks, Seated
      <4> QED
        BY <1>2, <2>5, <3>1, <4>1 DEF do_police
    <3> QED
      BY <1>1, <2>5, <3>1 DEF do_police
  <2> QED
    BY <1>4, <2>1, <2>2, <2>3, <2>4, <2>5 DEF Command, do_snoop, StopSnoop
<1>5. ASSUME NEW d \in Desc, Nanny(d) PROVE Text'
  <2>1. CASE NameHangup(d) \/ delete_char(d)
    BY <1>1, <2>1 DEF NameHangup, Hangup, delete_char, free_desc
  <2>2. CASE nan_conf_name(d) \/ nan_conf_known_passwd(d) \/ nanny_SLCT(d)
    BY <1>1, <2>2 DEF nan_conf_name, HangupNoReturn, nan_conf_known_passwd, nanny_SLCT, Hangup, Goto
  <2>3. CASE nan_get_new_passwd(d, "PWDGET", "PWDCNF") \/ nan_get_new_passwd(d, "PWDNEW", "PWDNCNF")
    BY <1>1, <2>3 DEF nan_get_new_passwd, HangupNoReturn, Hangup, Goto
  <2> QED
    BY <1>5, <2>1, <2>2, <2>3
    DEF Nanny, NameRefused, NameKnown, NameNew, Allocates, Reconnect, nan_conf_new_passwd, nan_get_sex,
        nan_get_class, nan_conf_reroll, nanny_RMOTD, EnterDescription, nan_enter_game, nanny_DEL_PWD,
        nanny_DEL_CONF, Goto
<1>6. ASSUME NEW d \in Desc, string_add(d) PROVE Text'
  BY <1>6 DEF string_add, AfterText
<1>7. ASSUME NEW c \in Char, TickPlayer(c) PROVE Text'
  BY <1>2, <1>7 DEF TickPlayer, check_idling
<1>8. ASSUME NEW c \in Char, kill_char(c) PROVE Text'
  BY <1>3, <1>8 DEF kill_char
<1>9. CASE UNCHANGED vars
  BY <1>9 DEF vars
<1> QED
  BY <1>1, <1>4, <1>5, <1>6, <1>7, <1>8, <1>9
  DEF Next, new_descriptor, LoseLink, desc_list, damage, Tick, update_tick

(* CON_PLYNG, nr and player_list agree on who is in the world, and nanny   *)
(* is never called while a description is typed in.                        *)
THEOREM StateAlwaysMatches == Spec => []StateMatchesWorld
<1>1. Inv /\ Text => StateMatchesWorld
  BY DataAssumption DEF DataAssumption, Inv, Types, LinkInv, DescLinks, Seated, WorldIsNr,
     StateMatchesWorld, desc_list, Text
<1>2. Init => Text
  BY DEF Init, Text
<1> QED
  BY InitInv, NextInv, <1>1, <1>2, TextNext, PTL DEF Spec

(* No step takes one from the world who is nowhere. *)
LEMMA FatalNext == Inv /\ ~fatal /\ [Next]_vars => ~fatal'
<1> SUFFICES ASSUME Inv, ~fatal, [Next]_vars PROVE ~fatal'
  OBVIOUS
<1>1. ASSUME NEW d \in Desc, Command(d) PROVE ~fatal'
  <2>1. Bodies(Typed(d), RoomOnInput(d), WasOnInput(d))
    BY <1>1, InputBodies
  <2>2. CASE do_rent(d)
    BY <2>1, <2>2 DEF do_rent, Commands, Bodies, Inv, Types, LinkInv, DescLinks, Seated
  <2>3. ASSUME NEW v \in Char, do_purge(d, v) PROVE ~fatal'
    BY <2>1, <2>3 DEF do_purge, extract_char, Bodies
  <2>4. ASSUME NEW e \in Desc, do_police(d, e) PROVE ~fatal'
    <3>1. CASE connected[e] = "PLYNG" /\ Level[name[character[e]]] < Level[name[character[d]]]
      <4>1. character[e] \in player_list
        BY <2>4, <3>1 DEF do_police, desc_list, Inv, LinkInv, DescLinks, Seated
      <4>2. extract_char(character[e], Typed(d), RoomOnInput(d), WasOnInput(d))
        BY <2>4, <3>1 DEF do_police
      <4> QED
        BY <2>1, <4>1, <4>2 DEF extract_char, Bodies
    <3> QED
      BY <2>4, <3>1 DEF do_police, close_socket
  <2> QED
    BY <1>1, <2>2, <2>3, <2>4
    DEF Command, interpreter, do_quit, close_socket, do_snoop, StopSnoop
<1>2. ASSUME NEW c \in Char, TickPlayer(c) PROVE ~fatal'
  <2>1. c \in player_list
    BY <1>2 DEF TickPlayer, Inv, LinkInv
  <2>2. check_idling(c, in_room, was_in_room) /\ Bodies(timer, in_room, was_in_room)
    BY <1>2, OwnBodies DEF TickPlayer
  <2>3. extract_char(c, timer, in_room, was_in_room) \/ UNCHANGED fatal
    BY <2>2 DEF check_idling
  <2> QED
    BY <2>1, <2>2, <2>3 DEF extract_char, Bodies
<1>3. ASSUME NEW c \in Char, kill_char(c) PROVE ~fatal'
  BY <1>3, OwnBodies DEF kill_char, char_from_world, Bodies
<1>4. ASSUME NEW d \in Desc, Nanny(d) PROVE ~fatal'
  BY <1>4
  DEF Nanny, NameRefused, NameKnown, NameNew, Allocates, NameHangup, Hangup, Goto, close_socket,
      nan_conf_name, HangupNoReturn, nan_conf_known_passwd, Reconnect, nan_get_new_passwd, nan_conf_new_passwd,
      nan_get_sex, nan_get_class, nan_conf_reroll, nanny_RMOTD, nanny_SLCT, EnterDescription,
      nan_enter_game, nanny_DEL_PWD, delete_char, nanny_DEL_CONF
<1> QED
  BY <1>1, <1>2, <1>3, <1>4
  DEF Next, vars, new_descriptor, LoseLink, close_socket, string_add, damage, Tick, update_tick

(* Nobody is ever taken from the world twice: the FATAL of char_from_world *)
(* is not reached, on any number of connections, and everybody in the      *)
(* world stands in a room.                                                 *)
THEOREM NobodyLeavesTwice == Spec => []NeverInNowhere
<1>1. Init => ~fatal
  BY DEF Init
<1>2. Inv /\ ~fatal => NeverInNowhere
  BY DEF Inv, LinkInv, WorldStands, NeverInNowhere
<1> QED
  BY InitInv, NextInv, <1>1, <1>2, FatalNext, PTL DEF Spec

-----------------------------------------------------------------------------
(* Names.  Two connections never have characters of one name, nor two      *)
(* ghosts; a connection has the name of a ghost only while it is asked for *)
(* the password; a name being made has no record, a used one has.          *)
DescNames ==
  \A d, e \in Desc :
    /\ character[d] # NULL /\ character[e] # NULL
    /\ name[character[d]] # NULL /\ name[character[d]] = name[character[e]]
    => d = e
GhostNames ==
  \A b, c \in Char : Linkdead(b) /\ Linkdead(c) /\ name[b] = name[c] => b = c
GhostAtPassword ==
  \A d \in Desc, c \in Char :
    character[d] # NULL /\ Linkdead(c) /\ name[character[d]] = name[c]
    => connected[d] = "PWDNRM"
Records ==
  /\ \A d \in Desc : character[d] # NULL =>
       /\ connected[d] \in Creating => name[character[d]] \notin player_table
       /\ connected[d] \in Menu \cup {"PWDNRM", "PLYNG"} => name[character[d]] \in player_table
       /\ connected[d] = "NME" => name[character[d]] = NULL
  /\ \A c \in player_list : name[c] \in player_table
NamesInv == DescNames /\ GhostNames /\ GhostAtPassword /\ Records

(* What a closed connection, and an extracted character, leave behind. *)
Closed(d) ==
  /\ \A e \in Desc : character'[e] = IF e = d THEN NULL ELSE character[e]
  /\ \A e \in Desc \ {d} : connected'[e] = connected[e]
  /\ \A b \in Char : b # character[d] => name'[b] = name[b] /\ desc'[b] = desc[b]

LEMMA CloseNames ==
  ASSUME Inv, NamesInv, NEW d \in Desc, d \in desc_list,
         NEW STATE t, NEW STATE i, NEW STATE w, close_socket(d, t, i, w)
  PROVE  NamesInv'
<1> DEFINE c == character[d]
<1>1. Closed(d) /\ player_list' = player_list /\ player_table' = player_table
  BY DEF Closed, close_socket, Unlinked, free_desc, free_a_char, ids, Inv, Types
<1>2. \A b \in Char : b = c => desc'[b] = NULL /\ (connected[d] = "PLYNG" => name'[b] = name[b])
  BY DataAssumption DEF DataAssumption, close_socket, Unlinked, free_a_char, ids, Inv, Types
<1>3. c \in player_list <=> connected[d] = "PLYNG" /\ c \in Char
  BY DataAssumption DEF DataAssumption, Inv, Types, LinkInv, DescLinks, Seated, WorldIsNr, desc_list
<1>4. \A b \in Char : Linkdead(b)' => b \in player_list /\ name'[b] = name[b] /\ (b = c \/ Linkdead(b))
  BY <1>1, <1>2, <1>3 DEF Closed, Linkdead, Inv, Types
<1>5. \A e \in Desc : e # d /\ character[e] # NULL =>
          character[e] # c /\ name'[character[e]] = name[character[e]] /\ character'[e] = character[e]
  BY <1>1 DEF Closed, Inv, Types, LinkInv, DescLinks
<1>6. DescNames'
  BY <1>1, <1>5 DEF Closed, NamesInv, DescNames
<1>7. \A b \in Char : Linkdead(b) => name[b] \in player_table /\ name[b] # NULL
  BY DataAssumption DEF DataAssumption, NamesInv, Records, Linkdead, Inv, Types
<1>8. c \in player_list => name[c] # NULL /\ ~Linkdead(c) /\ \A b \in Char : Linkdead(b) => name[b] # name[c]
  BY <1>3, DataAssumption DEF DataAssumption, NamesInv, GhostAtPassword, Records, Linkdead, Inv, Types, LinkInv, DescLinks
<1>9. GhostNames'
  BY <1>4, <1>8 DEF NamesInv, GhostNames
<1>10. GhostAtPassword'
  <2> SUFFICES ASSUME NEW e \in Desc, NEW b \in Char, character'[e] # NULL, Linkdead(b)',
                      name'[character'[e]] = name'[b]
               PROVE  connected'[e] = "PWDNRM"
    BY DEF GhostAtPassword
  <2>1. e # d /\ character'[e] = character[e] /\ character[e] # NULL /\ name[character[e]] = name[b]
        /\ connected'[e] = connected[e]
    BY <1>1, <1>4, <1>5 DEF Closed
  <2>2. CASE b = c
    BY <2>1, <2>2, <1>3, <1>4, <1>8, DataAssumption DEF DataAssumption, NamesInv, DescNames
  <2>3. CASE Linkdead(b)
    BY <2>1, <2>3 DEF NamesInv, GhostAtPassword
  <2> QED
    BY <2>2, <2>3, <1>4
<1>11. Records'
  <2>1. \A b \in player_list : name'[b] \in player_table
    BY <1>1, <1>2, <1>3 DEF Closed, NamesInv, Records, Inv, Types
  <2> QED
    BY <1>1, <1>5, <2>1 DEF Closed, NamesInv, Records
<1> QED
  BY <1>6, <1>9, <1>10, <1>11 DEF NamesInv

LEMMA ExtractNames ==
  ASSUME Inv, NamesInv, NEW c \in player_list,
         NEW STATE t, NEW STATE i, NEW STATE w, extract_char(c, t, i, w)
  PROVE  NamesInv'
<1>1. /\ \A b \in Char \ {c} : name'[b] = name[b] /\ desc'[b] = desc[b]
      /\ player_list' = player_list \ {c} /\ player_table' = player_table
  BY DEF extract_char, free_a_char, Inv, Types
<1>2. \A e \in Desc : character'[e] # NULL =>
          character'[e] = character[e] /\ character[e] # c /\ connected'[e] = connected[e]
  BY DataAssumption DEF DataAssumption, extract_char, free_desc, snoops, Inv, Types, LinkInv, DescLinks
<1>3. \A b \in Char : Linkdead(b)' => Linkdead(b) /\ name'[b] = name[b]
  BY <1>1 DEF Linkdead
<1>4. \A e \in Desc : character'[e] # NULL => name'[character'[e]] = name[character[e]]
  BY <1>1, <1>2 DEF Inv, Types
<1>5. DescNames' /\ GhostNames' /\ GhostAtPassword'
  BY <1>2, <1>3, <1>4 DEF NamesInv, DescNames, GhostNames, GhostAtPassword
<1>6. Records'
  <2>1. \A b \in player_list \ {c} : name'[b] \in player_table
    BY <1>1 DEF NamesInv, Records, Inv, Types
  <2> QED
    BY <1>1, <1>2, <1>4, <2>1 DEF NamesInv, Records
<1> QED
  BY <1>5, <1>6 DEF NamesInv

(* A step that gives nobody a name or a record, and moves connections only *)
(* within the dialogue of new players or among the menu and the world.     *)
MovesNobody ==
  /\ UNCHANGED <<character, name, desc, player_table>>
  /\ \A c \in player_list' \ player_list : desc[c] # NULL /\ name[c] \in player_table
  /\ \A e \in Desc : character[e] # NULL =>
       \/ connected'[e] = connected[e]
       \/ connected[e] \in Creating /\ connected'[e] \in Creating
       \/ connected[e] \in Menu \cup {"PLYNG"} /\ connected'[e] \in Menu \cup {"PLYNG"}
       \/ connected[e] = "PWDNRM" /\ connected'[e] \in Menu /\ Ghosts(e) = {}

LEMMA SameNames == ASSUME Inv, NamesInv, MovesNobody PROVE NamesInv'
<1>1. UNCHANGED <<character, name, desc, player_table>>
  BY DEF MovesNobody
<1>2. \A c \in Char : Linkdead(c)' => Linkdead(c)
  BY DEF MovesNobody, Linkdead
<1>3. DescNames' /\ GhostNames'
  BY <1>1, <1>2 DEF NamesInv, DescNames, GhostNames
<1>4. GhostAtPassword'
  <2> SUFFICES ASSUME NEW e \in Desc, NEW b \in Char, character[e] # NULL, Linkdead(b),
                      name[character[e]] = name[b]
               PROVE  connected'[e] = "PWDNRM"
    BY <1>1, <1>2 DEF GhostAtPassword
  <2>1. connected[e] = "PWDNRM" /\ Ghosts(e) # {}
    BY DEF NamesInv, GhostAtPassword, Ghosts, Linkdead
  <2> QED
    BY <2>1 DEF MovesNobody, Creating, Menu
<1>5. Records'
  BY DEF MovesNobody, NamesInv, Records, Creating, Menu
<1> QED
  BY <1>3, <1>4, <1>5 DEF NamesInv

LEMMA GotoNames ==
  ASSUME Inv, NamesInv, NEW d \in Desc, NEW s, Goto(d, s),
         \/ s = connected[d]
         \/ connected[d] \in Creating /\ s \in Creating
         \/ connected[d] \in Menu /\ s \in Menu
         \/ connected[d] = "PWDNRM" /\ s \in Menu /\ Ghosts(d) = {}
  PROVE  NamesInv'
<1>1. MovesNobody
  BY DEF Goto, MovesNobody, ids, Inv, Types
<1> QED
  BY <1>1, SameNames

LEMMA HangupNames == ASSUME Inv, NamesInv, NEW d \in Desc, NEW s \in State \ {"CLOSED"},
                            NannyGets(d, s), Hangup(d) PROVE NamesInv'
BY CloseNames DEF NannyGets, Hangup, desc_list

(* A connection gets a name no other connection has. *)
Renames(d, c, n) ==
  /\ Allocates(d, c)
  /\ connected[d] = "NME"
  /\ name' = [name EXCEPT ![c] = n]
  /\ ~Taken(d, n)

LEMMA FreshName ==
  ASSUME Inv, NamesInv, NEW d \in Desc, NEW c \in Char, NEW n \in Name, Renames(d, c, n),
         \/ n \in player_table /\ connected' = [connected EXCEPT ![d] = "PWDNRM"]
         \/ n \notin player_table /\ connected' = [connected EXCEPT ![d] = "NMECNF"]
  PROVE  NamesInv'
<1>1. /\ character' = [character EXCEPT ![d] = c] /\ name' = [name EXCEPT ![c] = n]
      /\ desc' = [desc EXCEPT ![c] = d] /\ UNCHANGED <<player_list, player_table>>
      /\ \A e \in Desc \ {d} : connected'[e] = connected[e]
  BY DEF Renames, Allocates, Inv, Types
<1>2. c \notin player_list /\ \A e \in Desc \ {d} : character[e] # c
  BY DataAssumption DEF DataAssumption, Renames, Allocates, Inv, Types, LinkInv, DescLinks, Seated, WorldIsNr
<1>3. \A e \in Desc \ {d} : character'[e] = character[e] /\ name'[character[e]] = name[character[e]]
  BY <1>1, <1>2, DataAssumption DEF DataAssumption, Inv, Types
<1>4. /\ character'[d] = c /\ name'[c] = n
      /\ IF n \in player_table THEN connected'[d] = "PWDNRM" ELSE connected'[d] = "NMECNF"
  BY <1>1 DEF Inv, Types
<1>5. \A e \in Desc \ {d} : character[e] # NULL => name[character[e]] # n
  BY DataAssumption DEF DataAssumption, Renames, Taken, desc_list, Inv, Types, LinkInv, Seated, DescLinks
<1>6. \A b \in Char : Linkdead(b)' => b # c /\ Linkdead(b) /\ name'[b] = name[b]
  BY <1>1, <1>2 DEF Linkdead
<1>7. DescNames'
  BY <1>3, <1>4, <1>5 DEF NamesInv, DescNames
<1>8. GhostNames'
  BY <1>6 DEF NamesInv, GhostNames
<1>9. GhostAtPassword'
  <2> SUFFICES ASSUME NEW e \in Desc, NEW b \in Char, character'[e] # NULL, Linkdead(b)',
                      name'[character'[e]] = name'[b]
               PROVE  connected'[e] = "PWDNRM"
    BY DEF GhostAtPassword
  <2>1. CASE e = d
    BY <1>4, <1>6, <2>1 DEF NamesInv, Records, Linkdead
  <2>2. CASE e # d
    BY <1>1, <1>3, <1>6, <2>2 DEF NamesInv, GhostAtPassword
  <2> QED
    BY <2>1, <2>2
<1>10. Records'
  <2>1. \A b \in player_list : name'[b] \in player_table
    BY <1>1, <1>2 DEF NamesInv, Records, Inv, Types
  <2> QED
    BY <1>1, <1>3, <1>4, <2>1 DEF NamesInv, Records, Creating, Menu
<1> QED
  BY <1>7, <1>8, <1>9, <1>10 DEF NamesInv

LEMMA NannyNames == ASSUME Inv, NamesInv, NEW d \in Desc, Nanny(d) PROVE NamesInv'
<1>1. ASSUME NEW c \in Char, NameRefused(d, c) PROVE NamesInv'
  <2>1. c \notin player_list /\ name[c] = NULL /\ \A e \in Desc \ {d} : character[e] # c
    <3>1. CASE character[d] = NULL
      BY <1>1, <3>1, DataAssumption DEF DataAssumption, NameRefused, NannyGets, Allocates, Inv, Types,
         LinkInv, DescLinks, Seated, CharLinks, NoneLost, WorldIsNr
    <3>2. CASE character[d] # NULL
      BY <1>1, <3>2, DataAssumption DEF DataAssumption, NameRefused, NannyGets, Allocates, NamesInv, Records,
         Inv, Types, LinkInv, DescLinks, Seated, WorldIsNr
    <3> QED
      BY <3>1, <3>2
  <2>2. /\ character' = [character EXCEPT ![d] = c] /\ desc' = [desc EXCEPT ![c] = d]
        /\ UNCHANGED <<name, connected, player_list, player_table>>
    BY <1>1 DEF NameRefused, Allocates
  <2>3. \A b \in Char : Linkdead(b)' => Linkdead(b)
    BY <2>1, <2>2 DEF Linkdead
  <2>4. \A e \in Desc : character'[e] # NULL =>
          (e = d /\ name[character'[e]] = NULL) \/ character'[e] = character[e]
    BY <2>1, <2>2 DEF Inv, Types
  <2>5. \A b \in Char : Linkdead(b) => name[b] # NULL
    BY DataAssumption DEF DataAssumption, NamesInv, Records, Linkdead, Inv, Types
  <2>6. DescNames' /\ GhostNames'
    BY <2>2, <2>3, <2>4 DEF NamesInv, DescNames, GhostNames
  <2>7. GhostAtPassword'
    BY <2>2, <2>3, <2>4, <2>5 DEF NamesInv, GhostAtPassword
  <2>8. Records'
    BY <1>1, <2>2, <2>4 DEF NameRefused, NannyGets, NamesInv, Records, Creating, Menu
  <2> QED
    BY <2>6, <2>7, <2>8 DEF NamesInv
<1>2. ASSUME NEW c \in Char, NEW n \in Name, NameKnown(d, c, n) PROVE NamesInv'
  BY <1>2, FreshName DEF NameKnown, NannyGets, Renames
<1>3. ASSUME NEW c \in Char, NEW n \in Name, NameNew(d, c, n) PROVE NamesInv'
  BY <1>3, FreshName DEF NameNew, NannyGets, Renames
<1>4. ASSUME NameHangup(d) PROVE NamesInv'
  BY <1>4, HangupNames DEF NameHangup, State
<1>5. ASSUME nan_conf_name(d) PROVE NamesInv'
  <2>1. CASE Goto(d, "PWDGET") \/ Goto(d, "NMECNF")
    BY <1>5, <2>1, GotoNames DEF nan_conf_name, HangupNoReturn, NannyGets, Creating
  <2>2. CASE Hangup(d)
    BY <1>5, <2>2, HangupNames DEF nan_conf_name, HangupNoReturn, State, Creating
  <2>3. CASE /\ connected' = [connected EXCEPT ![d] = "NME"]
             /\ name' = [name EXCEPT ![character[d]] = NULL]
             /\ UNCHANGED <<character, snoops, str, nr, desc, rooms,
                            player_list, player_table, ticking, fatal>>
    <3> DEFINE c == character[d]
    <3>1. c \in Char /\ c \notin player_list /\ \A e \in Desc \ {d} : character[e] # c
      BY <1>5, DataAssumption DEF DataAssumption, nan_conf_name, NannyGets, Creating, Inv, Types, LinkInv,
         DescLinks, Seated, WorldIsNr
    <3>2. name'[c] = NULL /\ (\A b \in Char \ {c} : name'[b] = name[b])
      BY <2>3, <3>1 DEF Inv, Types
    <3>3. \A b \in Char : Linkdead(b)' => b # c /\ Linkdead(b) /\ name'[b] = name[b] /\ name[b] # NULL
      BY <2>3, <3>1, <3>2, DataAssumption DEF DataAssumption, NamesInv, Records, Linkdead, Inv, Types
    <3>4. \A e \in Desc : character'[e] # NULL => e = d \/ name'[character'[e]] = name[character[e]]
      BY <2>3, <3>1, <3>2 DEF Inv, Types
    <3>5. DescNames' /\ GhostNames'
      BY <2>3, <3>2, <3>3, <3>4 DEF NamesInv, DescNames, GhostNames
    <3>6. GhostAtPassword'
      BY <2>3, <3>2, <3>3, <3>4 DEF NamesInv, GhostAtPassword, Inv, Types
    <3>7. Records'
      BY <2>3, <3>1, <3>2, <3>4 DEF NamesInv, Records, Creating, Menu, Inv, Types
    <3> QED
      BY <3>5, <3>6, <3>7 DEF NamesInv
  <2> QED
    BY <1>5, <2>1, <2>2, <2>3 DEF nan_conf_name, HangupNoReturn
<1>6. ASSUME nan_conf_known_passwd(d) PROVE NamesInv'
  BY <1>6, HangupNames, GotoNames DEF nan_conf_known_passwd, NannyGets, State, Menu
<1>7. ASSUME NEW c \in Char, Reconnect(d, c) PROVE NamesInv'
  <2> DEFINE mine == character[d]
  <2>1. /\ mine \in Char /\ mine # c /\ Linkdead(c) /\ name[c] = name[mine] /\ mine \notin player_list
        /\ \A e \in Desc : character[e] # c
        /\ \A e \in Desc \ {d} : character[e] # mine
    BY <1>7, DataAssumption DEF DataAssumption, Reconnect, Ghosts, NannyGets, Linkdead, Inv, Types, LinkInv,
       DescLinks, Seated, WorldIsNr
  <2>2. /\ character' = [character EXCEPT ![d] = c] /\ connected' = [connected EXCEPT ![d] = "PLYNG"]
        /\ name' = [name EXCEPT ![mine] = NULL] /\ desc' = [desc EXCEPT ![mine] = NULL, ![c] = d]
        /\ UNCHANGED <<player_list, player_table>>
    BY <1>7 DEF Reconnect
  <2>3. \A b \in Char : Linkdead(b)' => b # c /\ Linkdead(b) /\ name'[b] = name[b]
    BY <2>1, <2>2, DataAssumption DEF DataAssumption, Linkdead, Inv, Types
  <2>4. \A e \in Desc \ {d} : character[e] # NULL =>
          /\ character'[e] = character[e] /\ connected'[e] = connected[e]
          /\ name'[character[e]] = name[character[e]]
    BY <2>1, <2>2 DEF Inv, Types
  <2>5. \A e \in Desc \ {d} : character'[e] = character[e] /\ connected'[e] = connected[e]
    BY <2>2 DEF Inv, Types
  <2>6. character'[d] = c /\ name'[c] = name[mine] /\ connected'[d] = "PLYNG"
    BY <2>1, <2>2 DEF Inv, Types
  <2>7. name[mine] # NULL /\ name[c] \in player_table
    BY <2>1, DataAssumption DEF DataAssumption, NamesInv, Records, Linkdead, Inv, Types
  <2>8. DescNames'
    BY <2>1, <2>4, <2>5, <2>6, <2>7, DataAssumption DEF DataAssumption, NamesInv, DescNames
  <2>9. GhostNames'
    BY <2>3 DEF NamesInv, GhostNames
  <2>10. GhostAtPassword'
    <3> SUFFICES ASSUME NEW e \in Desc, NEW b \in Char, character'[e] # NULL, Linkdead(b)',
                        name'[character'[e]] = name'[b]
                 PROVE  connected'[e] = "PWDNRM"
      BY DEF GhostAtPassword
    <3>1. CASE e = d
      BY <2>1, <2>3, <2>6, <3>1 DEF NamesInv, GhostNames
    <3>2. CASE e # d
      BY <2>3, <2>4, <2>5, <3>2 DEF NamesInv, GhostAtPassword
    <3> QED
      BY <3>1, <3>2
  <2>11. Records'
    <3>1. \A b \in player_list : name'[b] \in player_table
      BY <2>1, <2>2 DEF NamesInv, Records, Inv, Types
    <3> QED
      BY <2>1, <2>2, <2>4, <2>5, <2>6, <2>7, <3>1 DEF NamesInv, Records, Creating
  <2> QED
    BY <2>8, <2>9, <2>10, <2>11 DEF NamesInv
<1>8. ASSUME nan_get_new_passwd(d, "PWDGET", "PWDCNF") \/ nan_get_new_passwd(d, "PWDNEW", "PWDNCNF")
      PROVE NamesInv'
  BY <1>8, HangupNames, GotoNames DEF nan_get_new_passwd, HangupNoReturn, NannyGets, State, Menu, Creating
<1>9. ASSUME \/ nan_conf_new_passwd(d, "PWDCNF", "PWDGET", "QSEX")
             \/ nan_conf_new_passwd(d, "PWDNCNF", "PWDNEW", "SLCT")
      PROVE NamesInv'
  BY <1>9, GotoNames DEF nan_conf_new_passwd, NannyGets, Menu, Creating
<1>10. ASSUME nan_get_sex(d) \/ nan_get_class(d) PROVE NamesInv'
  BY <1>10, GotoNames DEF nan_get_sex, nan_get_class, NannyGets, Creating
<1>11. ASSUME nan_conf_reroll(d) PROVE NamesInv'
  <2>1. CASE Goto(d, "CONFROLL")
    BY <1>11, <2>1, GotoNames DEF nan_conf_reroll, create_entry, NannyGets
  <2>2. CASE /\ connected' = [connected EXCEPT ![d] = "RMOTD"]
             /\ player_table' = create_entry(name[character[d]])
             /\ UNCHANGED <<character, snoops, str, ids, desc, rooms,
                            player_list, ticking, fatal>>
    <3>1. character[d] # NULL /\ name[character[d]] # NULL
      BY <1>11, DataAssumption DEF DataAssumption, nan_conf_reroll, create_entry, NannyGets, Inv, Types, LinkInv, Seated
    <3>2. DescNames' /\ GhostNames'
      BY <2>2 DEF ids, NamesInv, DescNames, GhostNames, Linkdead
    <3>3. \A b \in Char : Linkdead(b) => name[b] # name[character[d]]
      BY <1>11, <3>1 DEF nan_conf_reroll, create_entry, NannyGets, NamesInv, GhostAtPassword
    <3>4. GhostAtPassword'
      BY <2>2, <3>3 DEF ids, NamesInv, GhostAtPassword, Linkdead, Inv, Types
    <3>5. Records'
      BY <2>2, <3>1 DEF create_entry, ids, NamesInv, Records, DescNames, Creating, Menu, Inv, Types
    <3> QED
      BY <3>2, <3>4, <3>5 DEF NamesInv
  <2> QED
    BY <1>11, <2>1, <2>2 DEF nan_conf_reroll, create_entry
<1>12. ASSUME nanny_RMOTD(d) \/ nanny_SLCT(d) \/ nanny_DEL_PWD(d) \/ nanny_DEL_CONF(d) PROVE NamesInv'
  BY <1>12, HangupNames, GotoNames
  DEF nanny_RMOTD, nanny_SLCT, nanny_DEL_PWD, nanny_DEL_CONF, NannyGets, State, Menu
<1>13. ASSUME EnterDescription(d) PROVE NamesInv'
  BY <1>13, SameNames DEF EnterDescription, NannyGets, MovesNobody, Menu, ids, Inv, Types
<1>14. ASSUME nan_enter_game(d) PROVE NamesInv'
  BY <1>14, SameNames, DataAssumption DEF DataAssumption, nan_enter_game, NannyGets, MovesNobody, Menu,
     NamesInv, Records, Inv, Types, LinkInv, DescLinks, Seated
<1>15. ASSUME delete_char(d) PROVE NamesInv'
  <2> DEFINE c == character[d]
  <2>1. c \in Char /\ c \notin player_list /\ c # NULL
    BY <1>15, DataAssumption DEF DataAssumption, delete_char, NannyGets, Menu, Inv, Types, LinkInv, Seated, DescLinks, WorldIsNr
  <2>2. /\ \A b \in Char \ {c} : name'[b] = name[b] /\ desc'[b] = desc[b]
        /\ UNCHANGED player_list /\ player_table' = player_table \ {name[c]}
    BY <1>15 DEF delete_char, free_a_char, Inv, Types
  <2>3. \A e \in Desc : character'[e] # NULL =>
            character'[e] = character[e] /\ e # d /\ character[e] # c /\ connected'[e] = connected[e]
    BY <1>15, <2>1, DataAssumption DEF DataAssumption, delete_char, free_desc, Inv, Types, LinkInv, DescLinks
  <2>4. \A b \in Char : Linkdead(b)' => Linkdead(b) /\ name'[b] = name[b]
    BY <2>1, <2>2 DEF Linkdead
  <2>5. \A e \in Desc : character'[e] # NULL => name'[character'[e]] = name[character[e]]
    BY <2>2, <2>3 DEF Inv, Types
  <2>6. DescNames' /\ GhostNames' /\ GhostAtPassword'
    BY <2>3, <2>4, <2>5 DEF NamesInv, DescNames, GhostNames, GhostAtPassword
  <2>7. \A b \in player_list : name'[b] \in player_table'
    <3> SUFFICES ASSUME NEW b \in player_list PROVE name[b] # name[c]
      BY <2>1, <2>2 DEF NamesInv, Records, Inv, Types
    <3>1. CASE Linkdead(b)
      BY <1>15, <2>1, <3>1 DEF delete_char, NannyGets, NamesInv, GhostAtPassword, Inv, Types
    <3>2. CASE ~Linkdead(b)
      <4>1. desc[b] \in Desc /\ character[desc[b]] = b /\ b \in Char
        BY <3>2 DEF Linkdead, Inv, Types, LinkInv, CharLinks
      <4>2. name[b] # NULL /\ b # NULL
        BY <4>1, DataAssumption DEF DataAssumption, NamesInv, Records, Inv, Types
      <4> QED
        BY <2>1, <4>1, <4>2 DEF NamesInv, DescNames
    <3> QED
      BY <3>1, <3>2
  <2>8. \A e \in Desc : character'[e] # NULL /\ name[character[e]] \in player_table =>
            name[character[e]] \in player_table'
    BY <2>1, <2>2, <2>3, DataAssumption DEF DataAssumption, NamesInv, DescNames, Inv, Types
  <2>9. Records'
    BY <2>2, <2>3, <2>5, <2>7, <2>8 DEF NamesInv, Records
  <2> QED
    BY <2>6, <2>9 DEF NamesInv
<1> QED
  BY <1>1, <1>2, <1>3, <1>4, <1>5, <1>6, <1>7, <1>8, <1>9, <1>10, <1>11, <1>12, <1>13, <1>14, <1>15
  DEF Nanny

LEMMA CommandNames == ASSUME Inv, NamesInv, NEW d \in Desc, Command(d) PROVE NamesInv'
<1>0. Commands(d) => character[d] \in player_list /\ desc[character[d]] = d /\ d \in desc_list
  BY DEF Commands, Inv, Types, LinkInv, DescLinks, Seated, desc_list
<1>1. ASSUME interpreter(d) PROVE NamesInv'
  BY <1>1, SameNames DEF interpreter, MovesNobody, ids
<1>2. ASSUME do_quit(d) PROVE NamesInv'
  BY <1>0, <1>2, CloseNames DEF do_quit
<1>3. ASSUME do_rent(d) PROVE NamesInv'
  BY <1>3, SameNames DEF do_rent, ToMenu, Commands, MovesNobody, Menu, Inv, Types
<1>4. ASSUME NEW v \in Char, do_snoop(d, v) PROVE NamesInv'
  BY <1>4, SameNames DEF do_snoop, MovesNobody, ids
<1>5. ASSUME StopSnoop(d) PROVE NamesInv'
  BY <1>5, SameNames DEF StopSnoop, MovesNobody, ids
<1>6. ASSUME NEW v \in Char, do_purge(d, v) PROVE NamesInv'
  BY <1>6, ExtractNames DEF do_purge
<1>7. ASSUME NEW e \in Desc, do_police(d, e) PROVE NamesInv'
  <2> DEFINE v == character[e]
  <2>1. CASE /\ connected[e] = "PLYNG"
             /\ extract_char(v, Typed(d), RoomOnInput(d), WasOnInput(d))
    <3>1. v \in player_list
      BY <2>1 DEF Inv, Types, LinkInv, DescLinks, Seated
    <3> QED
      BY <2>1, <3>1, ExtractNames
  <2>2. CASE e \in desc_list /\ close_socket(e, Typed(d), RoomOnInput(d), WasOnInput(d))
    BY <2>2, CloseNames
  <2> QED
    BY <1>7, <2>1, <2>2 DEF do_police
<1> QED
  BY <1>1, <1>2, <1>3, <1>4, <1>5, <1>6, <1>7 DEF Command

(* Death: the record of a ghost is freed as by extract_char, a player with *)
(* a link goes to the menu.                                                *)
LEMMA DeathNames ==
  ASSUME Inv, NamesInv, NEW c \in player_list, UNCHANGED player_table,
         char_from_world(c, in_room, was_in_room),
         desc[c] = NULL => free_a_char(c, timer, in_room, was_in_room)
  PROVE  NamesInv'
<1>1. CASE desc[c] = NULL
  <2>1. extract_char(c, timer, in_room, was_in_room)
    BY <1>1 DEF char_from_world, ToMenu, extract_char
  <2> QED
    BY <2>1, ExtractNames
<1>2. CASE desc[c] # NULL
  <2>1. connected[desc[c]] = "PLYNG"
    BY <1>2, DataAssumption DEF DataAssumption, Inv, Types, LinkInv, DescLinks, CharLinks
  <2>2. MovesNobody
    BY <1>2, <2>1 DEF char_from_world, ToMenu, MovesNobody, Menu, Inv, Types
  <2> QED
    BY <2>2, SameNames
<1> QED
  BY <1>1, <1>2

LEMMA CheckIdlingNames ==
  ASSUME Inv, NamesInv, NEW c \in player_list, NEW STATE i, NEW STATE w, check_idling(c, i, w)
  PROVE  NamesInv'
<1>1. CASE extract_char(c, timer, i, w)
  BY <1>1, ExtractNames
<1>2. CASE UNCHANGED <<connected, character, snoops, str, ids, desc, player_list, player_table, fatal>>
  BY <1>2, SameNames DEF MovesNobody, ids
<1> QED
  BY <1>1, <1>2 DEF check_idling

LEMMA TickNames == ASSUME Inv, NamesInv, Tick PROVE NamesInv'
<1>1. ASSUME update_tick PROVE NamesInv'
  BY <1>1, SameNames DEF update_tick, MovesNobody, ids
<1>2. ASSUME NEW c \in Char, TickPlayer(c) PROVE NamesInv'
  <2>1. c \in player_list
    BY <1>2 DEF TickPlayer, Inv, LinkInv
  <2> QED
    BY <1>2, <2>1, CheckIdlingNames DEF TickPlayer
<1> QED
  BY <1>1, <1>2 DEF Tick

LEMMA NextNames == Inv /\ NamesInv /\ [Next]_vars => NamesInv'
<1> SUFFICES ASSUME Inv, NamesInv, [Next]_vars PROVE NamesInv'
  OBVIOUS
<1>1. ASSUME NEW d \in Desc, new_descriptor(d) PROVE NamesInv'
  <2>1. character[d] = NULL
    BY <1>1 DEF new_descriptor, Inv, LinkInv, DescLinks
  <2> QED
    BY <1>1, <2>1, SameNames DEF new_descriptor, MovesNobody, ids, Inv, Types
<1>2. ASSUME NEW d \in Desc, LoseLink(d) PROVE NamesInv'
  BY <1>2, CloseNames DEF LoseLink
<1>3. ASSUME NEW d \in Desc, string_add(d) PROVE NamesInv'
  BY <1>3, SameNames DEF string_add, AfterText, MovesNobody, ids, Menu, Inv, Types
<1>4. ASSUME NEW c \in Char, kill_char(c) PROVE NamesInv'
  BY <1>4, DeathNames DEF kill_char
<1>5. ASSUME NEW c \in Char, damage(c) PROVE NamesInv'
  BY <1>5, SameNames DEF damage, MovesNobody, ids
<1>6. CASE UNCHANGED vars
  BY <1>6, SameNames DEF vars, MovesNobody, ids
<1> QED
  BY <1>1, <1>2, <1>3, <1>4, <1>5, <1>6, NannyNames, CommandNames, TickNames DEF Next

LEMMA InitNames == Init => NamesInv
BY DEF Init, NamesInv, DescNames, GhostNames, GhostAtPassword, Records, Linkdead

(* Nobody is in the world twice, for any number of players, and whoever is *)
(* in the world has a record.                                              *)
THEOREM OneBodyAlways == Spec => []OneBodyPerName
<1>1. Inv /\ NamesInv => OneBodyPerName
  <2> SUFFICES ASSUME Inv, NamesInv, NEW b \in player_list, NEW c \in player_list, name[b] = name[c]
               PROVE  b = c
    BY DEF NamesInv, Records, OneBodyPerName
  <2>0. b \in Char /\ c \in Char /\ name[b] # NULL /\ b # NULL /\ c # NULL
    BY DataAssumption DEF DataAssumption, NamesInv, Records, Inv, Types
  <2>1. \A a \in Char : a \in player_list /\ ~Linkdead(a) =>
            desc[a] \in Desc /\ character[desc[a]] = a /\ connected[desc[a]] = "PLYNG"
    BY DataAssumption DEF DataAssumption, Linkdead, Inv, Types, LinkInv, CharLinks, DescLinks
  <2>2. CASE Linkdead(b) /\ Linkdead(c)
    BY <2>0, <2>2 DEF NamesInv, GhostNames
  <2>3. CASE ~Linkdead(b) /\ ~Linkdead(c)
    BY <2>0, <2>1, <2>3 DEF NamesInv, DescNames
  <2>4. CASE Linkdead(b) /\ ~Linkdead(c)
    BY <2>0, <2>1, <2>4 DEF NamesInv, GhostAtPassword
  <2>5. CASE ~Linkdead(b) /\ Linkdead(c)
    BY <2>0, <2>1, <2>5 DEF NamesInv, GhostAtPassword
  <2> QED
    BY <2>2, <2>3, <2>4, <2>5
<1> QED
  BY InitInv, NextInv, InitNames, NextNames, <1>1, PTL DEF Spec

-----------------------------------------------------------------------------
(* Snoops.  SnoopsMatch is inductive with Inv: either a step leaves the    *)
(* sessions in the game alone, or it ends the session of one connection    *)
(* and cuts both its snoops.                                               *)
LeavesSessions ==
  /\ UNCHANGED snoops
  /\ \A e \in Desc : connected[e] = "PLYNG" => connected'[e] = "PLYNG" /\ character'[e] = character[e]
  /\ \A c \in player_list : desc[c] # NULL => desc'[c] = desc[c] /\ c \in player_list'

LEMMA KeptSnoops == ASSUME Inv, SnoopsMatch, LeavesSessions PROVE SnoopsMatch'
<1> SUFFICES ASSUME NEW d \in Desc
             PROVE  /\ snoop_who[d] # NULL =>
                         /\ connected'[d] = "PLYNG"
                         /\ snoop_who[d] \in player_list' /\ desc'[snoop_who[d]] # NULL
                         /\ snoop_by[desc'[snoop_who[d]]] = character'[d]
                    /\ snoop_by[d] # NULL =>
                         /\ connected'[d] = "PLYNG"
                         /\ snoop_by[d] \in player_list' /\ desc'[snoop_by[d]] # NULL
                         /\ snoop_who[desc'[snoop_by[d]]] = character'[d]
  BY DEF SnoopsMatch, LeavesSessions, snoops
<1> QED
  BY DEF SnoopsMatch, LeavesSessions

(* The session of d ends: its character, if any, may stay or go. *)
EndsSession(d) ==
  /\ Unsnoop(d)
  /\ \A e \in Desc \ {d} : connected'[e] = connected[e] /\ character'[e] = character[e]
  /\ \A c \in player_list \ {character[d]} : desc'[c] = desc[c] /\ c \in player_list'

LEMMA CutSnoops == ASSUME Inv, SnoopsMatch, NEW d \in Desc, EndsSession(d) PROVE SnoopsMatch'
<1>1. snoop_who'[d] = NULL /\ snoop_by'[d] = NULL
  BY DEF EndsSession, Unsnoop, Unsnooped
<1>2. ASSUME NEW e \in Desc, e # d, snoop_who'[e] # NULL
      PROVE  /\ connected'[e] = "PLYNG"
             /\ snoop_who'[e] \in player_list' /\ desc'[snoop_who'[e]] # NULL
             /\ snoop_by'[desc'[snoop_who'[e]]] = character'[e]
  <2> DEFINE v == snoop_who[e]
  <2>1. snoop_who'[e] = v /\ v # NULL /\ ~(snoop_by[d] # NULL /\ desc[snoop_by[d]] = e)
    BY <1>2 DEF EndsSession, Unsnoop, Unsnooped
  <2>2. /\ connected[e] = "PLYNG" /\ v \in player_list /\ desc[v] \in Desc /\ desc[v] # NULL
        /\ snoop_by[desc[v]] = character[e] /\ character[desc[v]] = v
    BY <2>1 DEF SnoopsMatch, Inv, Types, LinkInv, CharLinks
  <2>3. character[e] # NULL /\ desc[character[e]] = e
    BY <2>2 DEF Inv, Types, LinkInv, Seated, DescLinks
  <2>4. desc[v] # d
    BY <2>1, <2>2, <2>3
  <2>5. v # character[d]
    BY <2>2, <2>4, DataAssumption DEF DataAssumption, Inv, Types, LinkInv, DescLinks
  <2>6. ~(snoop_who[d] # NULL /\ desc[snoop_who[d]] = desc[v])
    <3> SUFFICES ASSUME snoop_who[d] # NULL, desc[snoop_who[d]] = desc[v] PROVE FALSE
      OBVIOUS
    <3>1. snoop_by[desc[v]] = character[d] /\ character[d] # NULL /\ desc[character[d]] = d
      BY DEF SnoopsMatch, Inv, Types, LinkInv, Seated, DescLinks
    <3> QED
      BY <1>2, <2>2, <2>3, <3>1
  <2>7. snoop_by'[desc[v]] = snoop_by[desc[v]]
    BY <2>2, <2>4, <2>6 DEF EndsSession, Unsnoop, Unsnooped
  <2> QED
    BY <1>2, <2>1, <2>2, <2>5, <2>7 DEF EndsSession, Inv, Types
<1>3. ASSUME NEW e \in Desc, e # d, snoop_by'[e] # NULL
      PROVE  /\ connected'[e] = "PLYNG"
             /\ snoop_by'[e] \in player_list' /\ desc'[snoop_by'[e]] # NULL
             /\ snoop_who'[desc'[snoop_by'[e]]] = character'[e]
  <2> DEFINE v == snoop_by[e]
  <2>1. snoop_by'[e] = v /\ v # NULL /\ ~(snoop_who[d] # NULL /\ desc[snoop_who[d]] = e)
    BY <1>3 DEF EndsSession, Unsnoop, Unsnooped
  <2>2. /\ connected[e] = "PLYNG" /\ v \in player_list /\ desc[v] \in Desc /\ desc[v] # NULL
        /\ snoop_who[desc[v]] = character[e] /\ character[desc[v]] = v
    BY <2>1 DEF SnoopsMatch, Inv, Types, LinkInv, CharLinks
  <2>3. character[e] # NULL /\ desc[character[e]] = e
    BY <2>2 DEF Inv, Types, LinkInv, Seated, DescLinks
  <2>4. desc[v] # d
    BY <2>1, <2>2, <2>3
  <2>5. v # character[d]
    BY <2>2, <2>4, DataAssumption DEF DataAssumption, Inv, Types, LinkInv, DescLinks
  <2>6. ~(snoop_by[d] # NULL /\ desc[snoop_by[d]] = desc[v])
    <3> SUFFICES ASSUME snoop_by[d] # NULL, desc[snoop_by[d]] = desc[v] PROVE FALSE
      OBVIOUS
    <3>1. snoop_who[desc[v]] = character[d] /\ character[d] # NULL /\ desc[character[d]] = d
      BY DEF SnoopsMatch, Inv, Types, LinkInv, Seated, DescLinks
    <3> QED
      BY <1>3, <2>2, <2>3, <3>1
  <2>7. snoop_who'[desc[v]] = snoop_who[desc[v]]
    BY <2>2, <2>4, <2>6 DEF EndsSession, Unsnoop, Unsnooped
  <2> QED
    BY <1>3, <2>1, <2>2, <2>5, <2>7 DEF EndsSession, Inv, Types
<1> QED
  BY <1>1, <1>2, <1>3 DEF SnoopsMatch

LEMMA CloseSnoops ==
  ASSUME Inv, SnoopsMatch, NEW d \in Desc, d \in desc_list,
         NEW STATE t, NEW STATE i, NEW STATE w, close_socket(d, t, i, w)
  PROVE  SnoopsMatch'
<1>1. \A c \in player_list \ {character[d]} : desc'[c] = desc[c] /\ c \in player_list'
  BY DEF close_socket, Unlinked, free_a_char, Inv, Types
<1>2. EndsSession(d)
  BY <1>1 DEF EndsSession, close_socket, Unlinked, free_desc, Inv, Types
<1> QED
  BY <1>2, CutSnoops

(* A linkdead player takes part in no snoop. *)
LEMMA NotSnooping ==
  ASSUME Inv, SnoopsMatch, NEW c \in player_list, desc[c] = NULL, UNCHANGED <<connected, character, snoops>>,
         \A b \in player_list \ {c} : desc'[b] = desc[b] /\ b \in player_list'
  PROVE  SnoopsMatch'
<1>1. LeavesSessions
  BY DEF LeavesSessions
<1> QED
  BY <1>1, KeptSnoops

LEMMA ExtractSnoops ==
  ASSUME Inv, SnoopsMatch, NEW c \in player_list,
         NEW STATE t, NEW STATE i, NEW STATE w, extract_char(c, t, i, w)
  PROVE  SnoopsMatch'
<1>1. \A b \in player_list \ {c} : desc'[b] = desc[b] /\ b \in player_list'
  BY DEF extract_char, free_a_char, Inv, Types
<1>2. CASE desc[c] = NULL
  BY <1>1, <1>2, NotSnooping DEF extract_char
<1>3. CASE desc[c] # NULL
  <2>1. desc[c] \in Desc /\ character[desc[c]] = c
    BY <1>3 DEF Inv, Types, LinkInv, CharLinks
  <2>2. EndsSession(desc[c])
    BY <1>1, <1>3, <2>1 DEF EndsSession, extract_char, free_desc, Inv, Types
  <2> QED
    BY <2>1, <2>2, CutSnoops
<1> QED
  BY <1>2, <1>3

LEMMA GotoSnoops ==
  ASSUME Inv, SnoopsMatch, NEW d \in Desc, NEW s, connected[d] # "PLYNG", Goto(d, s)
  PROVE  SnoopsMatch'
<1>1. LeavesSessions
  BY DEF LeavesSessions, Goto, Inv, Types
<1> QED
  BY <1>1, KeptSnoops

LEMMA HangupSnoops ==
  ASSUME Inv, SnoopsMatch, NEW d \in Desc, connected[d] # "CLOSED", Hangup(d)
  PROVE  SnoopsMatch'
BY CloseSnoops DEF Hangup, desc_list

LEMMA NannySnoops == ASSUME Inv, SnoopsMatch, NEW d \in Desc, Nanny(d) PROVE SnoopsMatch'
<1>1. ASSUME NEW c \in Char,
             NameRefused(d, c) \/ \E n \in Name : NameKnown(d, c, n) \/ NameNew(d, c, n)
      PROVE  SnoopsMatch'
  <2>1. /\ Allocates(d, c) /\ connected[d] = "NME"
        /\ \A e \in Desc \ {d} : connected'[e] = connected[e]
    BY <1>1 DEF NameRefused, NameKnown, NameNew, NannyGets, Inv, Types
  <2>2. c \notin player_list
    BY <2>1, DataAssumption DEF DataAssumption, Allocates, Inv, Types, LinkInv, DescLinks, WorldIsNr
  <2>3. LeavesSessions
    BY <2>1, <2>2 DEF LeavesSessions, Allocates, Inv, Types
  <2> QED
    BY <2>3, KeptSnoops
<1>2. ASSUME NameHangup(d) PROVE SnoopsMatch'
  BY <1>2, HangupSnoops DEF NameHangup, NannyGets
<1>3. ASSUME nan_conf_name(d) PROVE SnoopsMatch'
  <2>1. CASE /\ connected' = [connected EXCEPT ![d] = "NME"]
             /\ UNCHANGED <<character, snoops, str, nr, desc, rooms,
                            player_list, player_table, ticking, fatal>>
    <3>1. LeavesSessions
      BY <1>3, <2>1 DEF nan_conf_name, HangupNoReturn, NannyGets, LeavesSessions, Inv, Types
    <3> QED
      BY <3>1, KeptSnoops
  <2> QED
    BY <1>3, <2>1, GotoSnoops, HangupSnoops DEF nan_conf_name, HangupNoReturn, NannyGets
<1>4. ASSUME nan_conf_known_passwd(d) PROVE SnoopsMatch'
  BY <1>4, GotoSnoops, HangupSnoops DEF nan_conf_known_passwd, NannyGets
<1>5. ASSUME NEW c \in Char, Reconnect(d, c) PROVE SnoopsMatch'
  <2>1. desc[c] = NULL /\ c \in player_list /\ character[d] \notin player_list /\ connected[d] = "PWDNRM"
    BY <1>5, DataAssumption DEF DataAssumption, Reconnect, NannyGets, Ghosts, Inv, Types, LinkInv, DescLinks, Seated
  <2>2. LeavesSessions
    BY <1>5, <2>1 DEF LeavesSessions, Reconnect, Inv, Types
  <2> QED
    BY <2>2, KeptSnoops
<1>6. ASSUME \/ nan_get_new_passwd(d, "PWDGET", "PWDCNF") \/ nan_get_new_passwd(d, "PWDNEW", "PWDNCNF")
             \/ nan_conf_new_passwd(d, "PWDCNF", "PWDGET", "QSEX")
             \/ nan_conf_new_passwd(d, "PWDNCNF", "PWDNEW", "SLCT")
             \/ nan_get_sex(d) \/ nan_get_class(d)
             \/ nanny_RMOTD(d) \/ nanny_SLCT(d) \/ nanny_DEL_PWD(d) \/ nanny_DEL_CONF(d)
      PROVE SnoopsMatch'
  BY <1>6, GotoSnoops, HangupSnoops
  DEF nan_get_new_passwd, HangupNoReturn, nan_conf_new_passwd, nan_get_sex, nan_get_class,
      nanny_RMOTD, nanny_SLCT, nanny_DEL_PWD, nanny_DEL_CONF, NannyGets
<1>7. ASSUME nan_conf_reroll(d) \/ EnterDescription(d) \/ nan_enter_game(d) PROVE SnoopsMatch'
  <2>1. CASE Goto(d, "CONFROLL") /\ NannyGets(d, "CONFROLL")
    BY <2>1, GotoSnoops DEF NannyGets
  <2>2. CASE /\ connected[d] # "PLYNG" /\ UNCHANGED <<character, snoops, desc>>
             /\ \E s \in State : connected' = [connected EXCEPT ![d] = s]
             /\ player_list \subseteq player_list'
    <3>1. LeavesSessions
      BY <2>2 DEF LeavesSessions, Inv, Types
    <3> QED
      BY <3>1, KeptSnoops
  <2> QED
    BY <1>7, <2>1, <2>2 DEF nan_conf_reroll, create_entry, EnterDescription, nan_enter_game, NannyGets, State, Menu, ids
<1>8. ASSUME delete_char(d) PROVE SnoopsMatch'
  <2>1. EndsSession(d)
    BY <1>8 DEF EndsSession, delete_char, free_desc, free_a_char, Inv, Types
  <2> QED
    BY <2>1, CutSnoops
<1> QED
  BY <1>1, <1>2, <1>3, <1>4, <1>5, <1>6, <1>7, <1>8 DEF Nanny

LEMMA CommandSnoops == ASSUME Inv, SnoopsMatch, NEW d \in Desc, Command(d) PROVE SnoopsMatch'
<1>0. Commands(d) => /\ character[d] \in player_list /\ desc[character[d]] = d /\ d \in desc_list
                     /\ connected[d] = "PLYNG" /\ character[d] # NULL
  BY DEF Commands, Inv, Types, LinkInv, DescLinks, Seated, desc_list
<1>1. ASSUME interpreter(d) PROVE SnoopsMatch'
  <2>1. LeavesSessions
    BY <1>1 DEF interpreter, LeavesSessions, ids
  <2> QED
    BY <2>1, KeptSnoops
<1>2. ASSUME do_quit(d) PROVE SnoopsMatch'
  BY <1>0, <1>2, CloseSnoops DEF do_quit
<1>3. ASSUME do_rent(d) PROVE SnoopsMatch'
  <2>1. EndsSession(d)
    BY <1>3 DEF do_rent, ToMenu, EndsSession, Inv, Types
  <2> QED
    BY <2>1, CutSnoops
<1>4. ASSUME NEW v \in Char, do_snoop(d, v) PROVE SnoopsMatch'
  <2> DEFINE me == character[d]
             w == desc[v]
  <2>1. /\ v \in player_list /\ v # me /\ w \in Desc /\ w # NULL /\ snoop_by[w] = NULL
        /\ character[w] = v /\ connected[w] = "PLYNG" /\ v # NULL
    BY <1>4, DataAssumption DEF DataAssumption, do_snoop, Inv, Types, LinkInv, CharLinks, DescLinks
  <2>2. /\ me \in player_list /\ desc[me] = d /\ me # NULL /\ connected[d] = "PLYNG" /\ w # d
    BY <1>0, <1>4, <2>1 DEF do_snoop
  <2>3. /\ UNCHANGED <<connected, character, desc, player_list>>
        /\ \A e \in Desc : snoop_who'[e] = IF e = d THEN v ELSE snoop_who[e]
        /\ \A e \in Desc : snoop_by'[e] = IF e = w THEN me
                              ELSE IF snoop_who[d] # NULL /\ desc[snoop_who[d]] = e THEN NULL ELSE snoop_by[e]
    BY <1>4 DEF do_snoop, ids, Inv, Types
  <2>4. \A e \in Desc : character[e] # NULL => desc[character[e]] = e
    BY DEF Inv, LinkInv, DescLinks
  <2>5. ASSUME NEW e \in Desc, snoop_who'[e] # NULL
        PROVE  /\ connected[e] = "PLYNG"
               /\ snoop_who'[e] \in player_list /\ desc[snoop_who'[e]] # NULL
               /\ snoop_by'[desc[snoop_who'[e]]] = character[e]
    <3>1. CASE e = d
      BY <2>1, <2>2, <2>3, <3>1
    <3>2. CASE e # d
      <4>1. /\ snoop_who'[e] = snoop_who[e] /\ connected[e] = "PLYNG" /\ snoop_who[e] \in player_list
            /\ desc[snoop_who[e]] \in Desc /\ desc[snoop_who[e]] # NULL
            /\ snoop_by[desc[snoop_who[e]]] = character[e]
            /\ character[e] # NULL /\ desc[character[e]] = e
        BY <2>3, <2>4, <2>5, <3>2 DEF SnoopsMatch, Inv, Types, LinkInv, Seated
      <4>2. ~(snoop_who[d] # NULL /\ desc[snoop_who[d]] = desc[snoop_who[e]])
        BY <2>2, <3>2, <4>1 DEF SnoopsMatch
      <4>3. desc[snoop_who[e]] # w
        BY <2>1, <4>1
      <4> QED
        BY <2>3, <4>1, <4>2, <4>3
    <3> QED
      BY <3>1, <3>2
  <2>6. ASSUME NEW e \in Desc, snoop_by'[e] # NULL
        PROVE  /\ connected[e] = "PLYNG"
               /\ snoop_by'[e] \in player_list /\ desc[snoop_by'[e]] # NULL
               /\ snoop_who'[desc[snoop_by'[e]]] = character[e]
    <3>1. CASE e = w
      BY <2>1, <2>2, <2>3, <3>1, DataAssumption DEF DataAssumption
    <3>2. CASE e # w
      <4>1. /\ snoop_by'[e] = snoop_by[e] /\ connected[e] = "PLYNG" /\ snoop_by[e] \in player_list
            /\ desc[snoop_by[e]] \in Desc /\ desc[snoop_by[e]] # NULL
            /\ snoop_who[desc[snoop_by[e]]] = character[e]
            /\ character[e] # NULL /\ desc[character[e]] = e
            /\ ~(snoop_who[d] # NULL /\ desc[snoop_who[d]] = e)
        BY <2>3, <2>4, <2>6, <3>2 DEF SnoopsMatch, Inv, Types, LinkInv, Seated
      <4>2. desc[snoop_by[e]] # d
        BY <4>1
      <4> QED
        BY <2>3, <4>1, <4>2
    <3> QED
      BY <3>1, <3>2
  <2> QED
    BY <2>3, <2>5, <2>6 DEF SnoopsMatch
<1>5. ASSUME StopSnoop(d) PROVE SnoopsMatch'
  <2>1. /\ UNCHANGED <<connected, character, desc, player_list>>
        /\ \A e \in Desc : snoop_who'[e] = IF e = d THEN NULL ELSE snoop_who[e]
        /\ \A e \in Desc : snoop_by'[e] = IF snoop_who[d] # NULL /\ desc[snoop_who[d]] = e THEN NULL ELSE snoop_by[e]
    BY <1>5 DEF StopSnoop, ids, Inv, Types
  <2>2. \A e \in Desc : character[e] # NULL => desc[character[e]] = e
    BY DEF Inv, LinkInv, DescLinks
  <2>3. \A e \in Desc : connected[e] = "PLYNG" => character[e] # NULL
    BY DEF Inv, LinkInv, Seated
  <2> QED
    BY <2>1, <2>2, <2>3 DEF SnoopsMatch, Inv, Types
<1>6. ASSUME NEW v \in Char, do_purge(d, v) PROVE SnoopsMatch'
  BY <1>6, ExtractSnoops DEF do_purge
<1>7. ASSUME NEW e \in Desc, do_police(d, e) PROVE SnoopsMatch'
  <2> DEFINE v == character[e]
  <2>1. CASE /\ connected[e] = "PLYNG"
             /\ extract_char(v, Typed(d), RoomOnInput(d), WasOnInput(d))
    <3>1. v \in player_list
      BY <2>1 DEF Inv, Types, LinkInv, DescLinks, Seated
    <3> QED
      BY <2>1, <3>1, ExtractSnoops
  <2>2. CASE e \in desc_list /\ close_socket(e, Typed(d), RoomOnInput(d), WasOnInput(d))
    BY <2>2, CloseSnoops
  <2> QED
    BY <1>7, <2>1, <2>2 DEF do_police
<1> QED
  BY <1>1, <1>2, <1>3, <1>4, <1>5, <1>6, <1>7 DEF Command

LEMMA DeathSnoops ==
  ASSUME Inv, SnoopsMatch, NEW c \in player_list,
         char_from_world(c, in_room, was_in_room),
         desc[c] = NULL => free_a_char(c, timer, in_room, was_in_room)
  PROVE  SnoopsMatch'
<1>1. CASE desc[c] = NULL
  <2>1. \A b \in player_list \ {c} : desc'[b] = desc[b] /\ b \in player_list'
    BY <1>1 DEF char_from_world, ToMenu, free_a_char, Inv, Types
  <2> QED
    BY <1>1, <2>1, NotSnooping DEF char_from_world, ToMenu
<1>2. CASE desc[c] # NULL
  <2>1. desc[c] \in Desc /\ character[desc[c]] = c
    BY <1>2 DEF Inv, Types, LinkInv, CharLinks
  <2>2. EndsSession(desc[c])
    BY <1>2, <2>1 DEF EndsSession, char_from_world, ToMenu, Inv, Types
  <2> QED
    BY <2>1, <2>2, CutSnoops
<1> QED
  BY <1>1, <1>2

LEMMA CheckIdlingSnoops ==
  ASSUME Inv, SnoopsMatch, NEW c \in player_list, NEW STATE i, NEW STATE w, check_idling(c, i, w)
  PROVE  SnoopsMatch'
<1>1. CASE extract_char(c, timer, i, w)
  BY <1>1, ExtractSnoops
<1>2. CASE UNCHANGED <<connected, character, snoops, str, ids, desc, player_list, player_table, fatal>>
  <2>1. LeavesSessions
    BY <1>2 DEF LeavesSessions
  <2> QED
    BY <2>1, KeptSnoops
<1> QED
  BY <1>1, <1>2 DEF check_idling

LEMMA TickSnoops == ASSUME Inv, SnoopsMatch, Tick PROVE SnoopsMatch'
<1>1. CASE UNCHANGED <<connected, character, snoops, desc, player_list>>
  <2>1. LeavesSessions
    BY <1>1 DEF LeavesSessions
  <2> QED
    BY <2>1, KeptSnoops
<1>2. ASSUME NEW c \in Char, TickPlayer(c) PROVE SnoopsMatch'
  <2>1. c \in player_list
    BY <1>2 DEF TickPlayer, Inv, LinkInv
  <2> QED
    BY <1>2, <2>1, CheckIdlingSnoops DEF TickPlayer
<1> QED
  BY <1>1, <1>2 DEF Tick, update_tick

LEMMA NextSnoops == Inv /\ SnoopsMatch /\ [Next]_vars => SnoopsMatch'
<1> SUFFICES ASSUME Inv, SnoopsMatch, [Next]_vars PROVE SnoopsMatch'
  OBVIOUS
<1>1. CASE LeavesSessions
  BY <1>1, KeptSnoops
<1>2. ASSUME NEW d \in Desc, new_descriptor(d) PROVE SnoopsMatch'
  BY <1>1, <1>2 DEF new_descriptor, LeavesSessions, Inv, Types
<1>3. ASSUME NEW d \in Desc, LoseLink(d) PROVE SnoopsMatch'
  BY <1>3, CloseSnoops DEF LoseLink
<1>4. ASSUME NEW d \in Desc, string_add(d) PROVE SnoopsMatch'
  BY <1>1, <1>4 DEF string_add, AfterText, LeavesSessions, Inv, Types
<1>5. ASSUME NEW c \in Char, kill_char(c) PROVE SnoopsMatch'
  BY <1>5, DeathSnoops DEF kill_char
<1>6. ASSUME NEW c \in Char, damage(c) PROVE SnoopsMatch'
  BY <1>1, <1>6 DEF damage, LeavesSessions
<1>7. CASE UNCHANGED vars
  BY <1>1, <1>7 DEF vars, LeavesSessions
<1> QED
  BY <1>2, <1>3, <1>4, <1>5, <1>6, <1>7, NannySnoops, CommandSnoops, TickSnoops DEF Next

(* Who snoops is known where he snoops, and the other way round, for any   *)
(* number of wizards and players: no pointer of a snoop ever dangles.      *)
THEOREM SnoopsAlwaysMatch == Spec => []SnoopsMatch
<1>1. Init => SnoopsMatch
  BY DEF Init, SnoopsMatch
<1> QED
  BY InitInv, NextInv, <1>1, NextSnoops, PTL DEF Spec

-----------------------------------------------------------------------------
(* Reconnecting.  No step but Reconnect gives a linkdead player a link.    *)
StaysDead == \A c \in Char : Linkdead(c) => desc'[c] = NULL

LEMMA NannyStaysDead ==
  ASSUME Inv, NEW d \in Desc, Nanny(d), \A c \in Char : ~Reconnect(d, c)
  PROVE  StaysDead
<1>1. ASSUME NEW c \in Char, Allocates(d, c), connected[d] = "NME" PROVE StaysDead
  <2>1. c \notin player_list
    BY <1>1, DataAssumption DEF DataAssumption, Allocates, Inv, Types, LinkInv, DescLinks, WorldIsNr
  <2> QED
    BY <1>1, <2>1 DEF StaysDead, Linkdead, Allocates, Inv, Types
<1>2. CASE UNCHANGED desc
  BY <1>2 DEF StaysDead, Linkdead
<1>3. CASE Hangup(d)
  BY <1>3 DEF Hangup, close_socket, Unlinked, free_a_char, StaysDead, Linkdead, Inv, Types
<1>4. CASE delete_char(d)
  BY <1>4 DEF delete_char, free_a_char, StaysDead, Linkdead, Inv, Types
<1> QED
  BY <1>1, <1>2, <1>3, <1>4
  DEF Nanny, NameRefused, NameKnown, NameNew, NameHangup, nan_conf_name, HangupNoReturn, nan_conf_known_passwd,
      nan_get_new_passwd, nan_conf_new_passwd, nan_get_sex, nan_get_class, nan_conf_reroll, create_entry,
      nanny_RMOTD, nanny_SLCT, EnterDescription, nan_enter_game, nanny_DEL_PWD, nanny_DEL_CONF,
      NannyGets, Goto

LEMMA OtherStaysDead ==
  ASSUME Inv, [Next]_vars, \A d \in Desc : ~Nanny(d)
  PROVE  StaysDead
<1>1. CASE UNCHANGED desc
  BY <1>1 DEF StaysDead, Linkdead
<1>2. ASSUME NEW d \in Desc, NEW STATE t, NEW STATE i, NEW STATE w, close_socket(d, t, i, w)
      PROVE  StaysDead
  BY <1>2 DEF close_socket, Unlinked, free_a_char, StaysDead, Linkdead, Inv, Types
<1>3. ASSUME NEW c \in Char, NEW STATE t, NEW STATE i, NEW STATE w, free_a_char(c, t, i, w)
      PROVE  StaysDead
  BY <1>3 DEF free_a_char, StaysDead, Linkdead, Inv, Types
<1>4. ASSUME NEW c \in Char, char_from_world(c, in_room, was_in_room),
             desc[c] = NULL => free_a_char(c, timer, in_room, was_in_room)
      PROVE  StaysDead
  BY <1>1, <1>3, <1>4 DEF char_from_world
<1>5. ASSUME NEW c \in Char, NEW STATE i, NEW STATE w, check_idling(c, i, w) PROVE StaysDead
  BY <1>1, <1>3, <1>5 DEF check_idling, extract_char
<1>6. ASSUME NEW d \in Desc, Command(d) PROVE StaysDead
  <2>1. ASSUME NEW e \in Desc, do_police(d, e) PROVE StaysDead
    <3>1. CASE close_socket(e, Typed(d), RoomOnInput(d), WasOnInput(d))
      BY <1>2, <3>1
    <3>2. CASE extract_char(character[e], Typed(d), RoomOnInput(d), WasOnInput(d)) /\ connected[e] = "PLYNG"
      <4>1. character[e] \in Char
        BY <3>2 DEF Inv, Types, LinkInv, Seated
      <4> QED
        BY <1>3, <3>2, <4>1 DEF extract_char
    <3> QED
      BY <2>1, <3>1, <3>2 DEF do_police
  <2>2. ASSUME NEW v \in Char, do_purge(d, v) PROVE StaysDead
    BY <1>3, <2>2 DEF do_purge, extract_char
  <2>3. ASSUME do_quit(d) PROVE StaysDead
    BY <1>2, <2>3 DEF do_quit
  <2> QED
    BY <1>1, <1>6, <2>1, <2>2, <2>3 DEF Command, interpreter, do_rent, do_snoop, StopSnoop
<1>7. ASSUME NEW c \in Char, TickPlayer(c) PROVE StaysDead
  BY <1>1, <1>4, <1>5, <1>7 DEF TickPlayer
<1> QED
  BY <1>1, <1>2, <1>4, <1>6, <1>7
  DEF Next, vars, new_descriptor, LoseLink, string_add, kill_char, damage, Tick, update_tick

(* Whatever happens to the link of a player, it is only taken up again by  *)
(* the connection that gave the password of his name.                      *)
THEOREM OwnerReconnects == Spec => OnlyOwnerReconnects
<1> DEFINE Owner == \A c \in Char : Linkdead(c) /\ desc'[c] # NULL =>
                      /\ connected[desc'[c]] = "PWDNRM"
                      /\ name[character[desc'[c]]] = name[c]
<1>1. StaysDead => Owner
  BY DEF StaysDead
<1>2. ASSUME Inv, NEW d \in Desc, NEW c \in Char, Reconnect(d, c) PROVE Owner
  <2>1. character[d] # c /\ desc' = [desc EXCEPT ![character[d]] = NULL, ![c] = d]
        /\ connected[d] = "PWDNRM" /\ name[character[d]] = name[c]
    BY <1>2, DataAssumption DEF DataAssumption, Reconnect, NannyGets, Ghosts, Inv, Types, LinkInv, DescLinks, Seated
  <2> QED
    BY <1>2, <2>1 DEF Linkdead, Inv, Types
<1>3. Inv /\ [Next]_vars => [Owner]_vars
  BY <1>1, <1>2, NannyStaysDead, OtherStaysDead
<1> QED
  BY InitInv, NextInv, <1>3, PTL DEF Spec, OnlyOwnerReconnects

=============================================================================
