------------------------------- MODULE Pager -------------------------------
(***************************************************************************)
(* Texts longer than a screen (page.c).  A text is cut into pages and kept *)
(* as a unit, under the name of who asked for it; as long as his page flag *)
(* is set, what he types turns the pages instead of being a command.  The  *)
(* unit is found by his name, and a wizard may force a second text on a    *)
(* reader.  One such text is an entry of the help table, which do_help     *)
(* finds by a prefix (act.help.c).                                         *)
(***************************************************************************)
EXTENDS Integers, SequencesExt

CONSTANTS
  Reader,
  Screens,          (* the numbers of lines a screen may have              *)
  MaxLines,         (* bound: lines of a text                              *)
  MaxUnits,         (* bound: units in the list                            *)
  Words,            (* keywords of the help table: sequences of letters    *)
  MaxHelp           (* bound: keywords in the table                        *)

(* A letter is a number, as strncasecmp compares them.                     *)
ASSUME PagerAssumption ==
  /\ Words \subseteq Seq(Nat)
  /\ MaxLines \in Nat /\ MaxUnits \in Nat /\ MaxHelp \in Nat
  /\ Screens \subseteq Nat \ {0}

VARIABLES
  here,             (* readers in the world                                *)
  units,            (* the list pages, the newest first                    *)
  page,             (* whose page flag is set                              *)
  screen,           (* reader -> lines of his screen                       *)
  found             (* what the last search of do_help came to             *)

page_vars == <<here, units, page, screen, found>>

(* `nr' orders the units of one reader by the time they were made. *)
PageUnit == [who : Reader, pages : 2 .. MaxLines, curr : 1 .. MaxLines, nr : 1 .. MaxUnits]

PageTypeOK ==
  /\ here \in SUBSET Reader
  /\ units \in Seq(PageUnit) /\ Len(units) <= MaxUnits
  /\ \A k \in DOMAIN units : units[k].curr <= units[k].pages
  /\ page \in SUBSET here
  /\ screen \in [Reader -> Screens]
  /\ found \in {"nothing", "right", "wrong"}

PageInit ==
  /\ here = Reader /\ units = <<>> /\ page = {}
  /\ screen \in [Reader -> Screens] /\ found = "nothing"

-----------------------------------------------------------------------------
His(p) == {k \in DOMAIN units : units[k].who = p}

(* find_pageunit: the first of his name, 0 if there is none. *)
find_pageunit(p) == IF His(p) = {} THEN 0 ELSE Min(His(p))

(* Mutant: a new unit goes to the end of the list. *)
new_at_end(u) == Append(units, u)
new_pageunit(u) == <<u>> \o units

del_pageunit(k) == units' = RemoveAt(units, k)

(* The pages of so many lines, on the screen of the reader. *)
add_oneline(p, lines) == (lines + screen[p] - 1) \div screen[p]

(* show_page: the unit is kept only when there is another page.            *)
show_page(p, pages) == IF pages > 1 THEN page \cup {p} ELSE page

(* print_page, and the lists that build a unit of their own: a reader types*)
(* a command, or a wizard forces him to at any time.                       *)
print_page(p, lines) ==
  LET pages == add_oneline(p, lines)
      u == [who |-> p, pages |-> pages, curr |-> 1,
            nr |-> Max({0} \cup {units[k].nr : k \in His(p)}) + 1]
  IN /\ p \in here
     /\ Len(units) < MaxUnits /\ u.nr <= MaxUnits
     /\ units' = IF pages > 1 THEN new_pageunit(u) ELSE units
     /\ page' = show_page(p, pages)
     /\ UNCHANGED <<here, screen, found>>

(* page_interpreter.  Enter on the last page leaves, as q does; on another *)
(* it is n.  A reader without a unit loses his flag.                       *)
Leaves(p) ==
  LET k == find_pageunit(p)
  IN IF k = 0 THEN UNCHANGED units ELSE del_pageunit(k)

(* Mutant: there is a page after the last. *)
AtLastOver(u) == u.curr > u.pages
AtLast(u) == u.curr = u.pages

Typed(p, key) ==
  LET k == find_pageunit(p)
      u == units[k]
  IN /\ p \in page
     /\ IF k = 0 \/ key = "q" \/ (key = "Enter" /\ AtLast(u))
        THEN Leaves(p) /\ page' = page \ {p}
        ELSE /\ units' = [units EXCEPT ![k].curr =
                            CASE key \in {"Enter", "n"} /\ ~AtLast(u) -> u.curr + 1
                              [] key = "p" /\ u.curr > 1 -> u.curr - 1
                              [] OTHER -> u.curr]
             /\ UNCHANGED page
     /\ UNCHANGED <<here, screen, found>>

page_interpreter(p) == \E key \in {"Enter", "n", "p", "r", "q"} : Typed(p, key)

(* char_from_world takes one unit of his name along; he may come back.     *)
char_leaves(p) ==
  /\ p \in here
  /\ here' = here \ {p} /\ page' = page \ {p}
  /\ Leaves(p)
  /\ UNCHANGED <<screen, found>>

Enter_world(p) ==
  /\ p \notin here
  /\ here' = here \cup {p}
  /\ UNCHANGED <<units, page, screen, found>>

(* do_screen: the units in the list keep the number they were cut by. *)
do_screen(p, n) ==
  /\ p \in here \ page
  /\ screen' = [screen EXCEPT ![p] = n]
  /\ UNCHANGED <<here, units, page, found>>

-----------------------------------------------------------------------------
(* strncasecmp(word, keyword, strlen(word)): -1, 0 or 1. *)
Compare(word, key) ==
  LET d == {i \in DOMAIN word : i > Len(key) \/ word[i] # key[i]}
      i == Min(d)
  IN IF d = {} THEN 0
     ELSE IF i <= Len(key) /\ word[i] < key[i] THEN -1 ELSE 1

(* build_help_index swaps neighbours until none is greater than the next.  *)
Sorted(list) == \A i \in 1 .. Len(list) - 1 : Compare(list[i], list[i + 1]) <= 0
build_help_index == UNION {{list \in [1 .. n -> Words] : Sorted(list)} : n \in 1 .. MaxHelp}

(* The search of do_help: between bot and top, both of them included.  mid *)
(* is rounded towards zero.                                                *)
Mid(bot, top) == IF bot + top < 0 THEN 0 ELSE (bot + top) \div 2

(* Mutant: the last but one keyword is not looked at. *)
LastEarly(bot, top) == bot + 1 >= top
Last_look(bot, top) == bot >= top

(* The place of an entry, from 0 on; -1: none. *)
Search(list, word) ==
  LET seek[r \in [bot : 0 .. Len(list), top : -1 .. Len(list) - 1]] ==
        LET mid == Mid(r.bot, r.top)
            chk == Compare(word, list[mid + 1])
        IN IF chk = 0 THEN mid
           ELSE IF Last_look(r.bot, r.top) THEN -1
           ELSE IF chk > 0 THEN seek[[bot |-> mid + 1, top |-> r.top]]
           ELSE seek[[bot |-> r.bot, top |-> mid - 1]]
  IN seek[[bot |-> 0, top |-> Len(list) - 1]]

(* do_help asks for the entry of a word, in some help table (bound: asked  *)
(* once, while nobody reads).                                              *)
do_help(p, word, list) ==
  LET at == Search(list, word)
      there == \E k \in DOMAIN list : IsPrefix(word, list[k])
  IN /\ p \in here /\ units = <<>> /\ found = "nothing"
     /\ found' = IF at = -1 THEN (IF there THEN "wrong" ELSE "right")
                 ELSE IF at + 1 \in DOMAIN list /\ IsPrefix(word, list[at + 1]) THEN "right" ELSE "wrong"
     /\ UNCHANGED <<here, units, page, screen>>

PageNext ==
  \E p \in Reader :
    \/ \E lines \in 1 .. MaxLines : print_page(p, lines)
    \/ page_interpreter(p)
    \/ char_leaves(p)
    \/ Enter_world(p)
    \/ \E n \in Screens : do_screen(p, n)
    \/ \E list \in build_help_index, word \in Words : do_help(p, word, list)

PageSpec == PageInit /\ [][PageNext]_page_vars

-----------------------------------------------------------------------------
(* Who turns pages has a unit, and what he turns is the text he was shown  *)
(* last, even if others that were forced on him have been left behind in   *)
(* the list (page.c:251 and 257 say only DEBUG when there is none).        *)
TurnsLatest ==
  \A p \in page : /\ find_pageunit(p) # 0
                  /\ \A k \in His(p) : units[k].nr <= units[find_pageunit(p)].nr

(* The binary search of do_help finds an entry for a word if and only if   *)
(* the word begins a keyword, whatever the table and wherever it stands.   *)
HelpFinds == found # "wrong"
=============================================================================
