# A TLA+ model of SobackMUD

`src/` is SobackMUD, a multi-player game server of the DikuMUD family in C.
One process plays for everybody: `main.c:game_loop` runs ten pulses a second,
each of which accepts connections, reads, lets one command of every player run,
writes, and calls the periodic updates.  Nothing is preempted; what is hard is
that handlers run while loops over global linked lists are under way, that
records are freed and reused by an allocator, that each piece of state has
several owners (a connection and a character point at each other, an affect is
in two lists, a name is in an index, a file and a body), and that links are
lost, players idle, die and come back in any order.

## 1. The parts of the system

| part | state | operations | what makes it correct | module |
|---|---|---|---|---|
| sessions (`sockets.c nanny.c update.c transfer.c fight.c act.rent.c act.wizard.c`) | `desc_list`, `connected`, `character`/`desc`, `snoop`, `player_list`, `in_room`, `was_in_room`, `timer`, `player_table` | login dialogue, reconnection, link loss, quit, rent, purge, police, snoop, death, idling, deletion | links agree on both sides; one body per name; nobody lost; ghosts leave | `Sessions` |
| output queue (`sockets.c act.comm.c character.c`) | ring, `head`, `tail`, `used`, `qSize` | put, get, flush, scroll | the latest strings in order, each owned once | `OutQueue`, `ScrollQueue` |
| descriptor list (`main.c sockets.c`) | `desc_list`, `next_to_process`, `last_desc` | accept, the four passes, close | each pass treats each connection once; select sees all | `DescLoop` |
| allocator (`allocate.c`) | table, index array, `nextfree`, `used`, `max` | alloc, free, expand | no record handed out twice, none lost | `AllocTable`, `UnitPool` |
| affects per round and second (`affect.c update.c`) | `roundAffs`, `next_roundAffs`, each owner's list | give, remove, the walks, death | the two lists agree; each walk treats each affect once | `RoundAffects` |
| combat (`fight.c act.offensive.c update.c`) | `combat_list`, `combat_next_dude`, `fight`, `position`, `hit`, `hunt`, `master` | set/stop fighting, damage, hit, kill, flee, rescue, bash, the round | whoever fights is in the list; no fight outlives its fighters; one turn each; who is hurt recovers or dies | `Combat`, `RoundOnce` |
| objects (`transfer.c object.c act.get.c act.wear.c act.use.c update.c mobile.action.c`) | contents of rooms, hands, containers, equipment; `in_room`, `carried_by`, `in_obj`, `equiped_by`; `carry_items` | get, put, give, drop, wear, eat, decay, corpses, extraction | an object is in one place, which it knows | `Belongings` |
| stash (`stash.c act.rent.c locker.c insurance.c pawn.c`) | hands, lockers, pawn list, insurance board, and their files | rent, save, quit, die, crash, lock away, pawn, insure, get back | no object doubled by a legal sequence; what is insured comes back | `Stash` |
| followers (`act.group.c act.movement.c magic.other.c fight.c`) | `master`, `followers`, `AFF_GROUP`, `AFF_CHARM`, `in_room`, `position` | follow, group, charm, buy, order, move, leave the world | links agree, no loops, nobody stays in a group he left | `Followers` |
| timed affects (`affect.c magic.affect.c character.c`) | a player's numbers and abilities, what is on him, what he wears, his record | cast, end, wear, save, rent, die, read | numbers and abilities are those that something gives him, in memory and in the file | `Affects` |
| zones and doors (`zone.c act.movement.c`) | exits, `closed`, `locked`, the age of each zone | open, close, lock, pick, bash, resets, mazes | both sides of a door agree; every zone is reset | `Zones` |
| reboot (`act.wizard.c spec.reboot.c main.c`) | the clock, two mobs, one counter | shutdown, stop, pull | left alone, the game goes down | `Reboot` |
| money (`bank.c shop.c act.give.c`) | purses, bank, shared accounts and their file, keeper and goods | deposit, withdraw, buy, sell, split | nobody makes coins; a reboot takes nothing from an account | `Money` |
| boards and mailboxes (`board.c mail.c`) | heads, texts or objects, their files | post, remove, get, reboot | a head stands beside its own text | `Letters` |
| pager and help (`page.c act.help.c`) | units by name, flag; sorted keywords | show, turn, force; search | who turns pages turns the latest text; the search finds what is there | `Pager` |
| editors (`edit.c iedit.c medit.c redit.c zedit.c`) | units, stages `sub_1` to `sub_3`, tables | every question and letter, save, quit, go on | no two edit one entry; who asks to leave gets out | `Editors` |
| player file, formulas, interpreter, channels, single scripts, weather, path finding | | | | not modelled, see 6 |

The parts meet in few places.  A pulse (`DescLoop`) calls the handlers of
`Sessions`; these put strings into the queue of `OutQueue`, which the output
pass empties.  Leaving the world (`char_from_world`, `extract_char`,
`free_a_char`) ends a session, takes the affects off (`RoundAffects`) and gives
records back (`AllocTable`, which `RoundAffects` runs on), unlinks followers
(`Followers`), and takes objects off (`Belongings`) or writes them to the file
(`Stash`).  What one of these parts reads of another is in its module as a
choice: who dies in a walk, whom a command closes, whether a door lets one
through.
`PROJECT.json` lists, under "hazards", the line of the code where each of these
interactions can go wrong, and the property that would show it.

## 2. The modules

**Sessions.**  A variable per field of the descriptor and of the character that
a session depends on; the comment at each names it.  An action is a handler
with everything it calls: `LoseLink` is `close_socket` with the end of the
snoops, the unlinking of the body that stays or the freeing of the one that
does not.  A line of input first clears the idle timer and brings a player back
to `was_in_room` (`main.c:384-392`); every command action does this too.  What a
line says is chosen freely among the answers its handler tells apart.  Rooms
are three values: where one was, the limbo of the idle and the void of the
rescued.  `update_tick` is a pass over the players that no handler interrupts
(`ticking`).  Nobody dies in it: the damage of a tick is `damage(ch, ch, ...)`,
which `is_allow_kill` refuses, and the pass goes straight on to `check_idling`.
The other commands of the game are the action `interpreter`, which
clears the timer and returns the player.  The counter of a player goes up without
a cap, as in `update.c:62`; that it stays at most `IdleOut` is part of `TypeOK` and
follows from what resets it (only a wizard's is not counted beyond, as nothing reads
it).  Two answers to `nanny.c` hang up without a return (`HangupNoReturn`): what the
handler still writes goes to a record that is in no list any more and is cleared
before it is used again, so nothing of it is modelled.

**OutQueue** is one connection's ring with its cursors exactly as the code
moves them (the ring of `qSize + 1` slots in an array of `MAX_OUTQUE`), through
`put_to_output`, `get_from_output`, `flush_ouqueue`, the scroll command, the
limit read from the player's record at the name prompt, and the newline that
`main.c:380` writes for the global `no_echo`.  **ScrollQueue** is what it
promises: the latest strings in order, up to the limit.  `OutQueue` implements
it under the mapping `q <- [k \in 1..used |-> queue[SlotAt(k)]]`.

**AllocTable** has the array of indices that threads the free records and
grows; **UnitPool** only says that a record handed out is in nobody's hands and
that the table grows when all of it is.  `IsPool` is the refinement.

**RoundAffects** has the two linked lists record by record, the global cursor
`next_roundAffs`, and the walks as steps: come to an affect, treat it (its
owner or somebody else may die, whose affects go one by one; others may be
given new ones), go on.  Its records come from `AllocTable`
(`RoundAffects` extends it), so a record removed and handed out again in
one walk is the same record.

**Combat** gathers the fields of the characters in one record, `world`, because
its handlers call each other: a blow frightens, a flight ends fights, the end of
a fight moves the cursor of the round, a death ends every fight against the
dead.  Each handler is an operator from a world to the set of worlds it may
leave, with the random numbers, amounts and skills as choices.  What is kept of
`hit` is the class `update_pos` looks at (`Wounds`).  `perform_violence` is one
step for every fighter's look and every blow (`turn`, `blows`), and nothing else
happens until the list has been walked.  Commands have the position their row in
the table of commands asks for; mobs act when they are awake, which covers
their special procedures, ambushes and orders of a master.  Commands that differ
only in their numbers share an action: `do_kick` stands for the punches, kicks,
shots, throws and the spells of damage.  When a character leaves the world its
fields are set as `reset_char` will set them, so that its record may come back as
a new one.  **RoundOnce** is what a round promises: a turn for each who fights
when it begins and still fights when his turn comes, two for nobody.  It lets one
fighter an act lose his turn: a mob that strikes a charmed one may stop, turn on
the master and join again at the head of the list (`fight.c:685`).  Who may strike whom is
`is_allow_kill`: never oneself, and where a player is involved it may be refused (his
group, a wizard, the flag against killing), which is left open.

**DescLoop** has the list of connections by file descriptor, `last_desc`,
the passes of a pulse and the global `next_to_process`.  What the handlers do is
only which connection they close.

**Belongings** keeps the lists and the pointers of the objects in one record,
`w`, and the primitives of `transfer.c` (`obj_to_char`, `unequip`,
`extract_obj`, ...) as operators from such records to such records.  A handler
is a composition of them, in the order of the code: `do_get` from a corpse,
eating, burning, merged coins, deaths with their corpses, decay, wanderers that
pick things up.  Lists are sets, and a primitive takes a set of objects where the code
goes through a list of them.  `extract_obj`, which calls itself for what is in an
object, takes all that is inside it at any depth (`Inside`); coins that meet become
one new object.

**Followers** (with its constants in `Company`) has masters and lists, groups,
charms by spell and by purchase, the train of followers that `do_move` takes
along, orders, and what a blow inside a group, a lost link or a death does to
them.

**Affects** has one of the numbers that the player's file keeps (`num`) and what
it would be with nothing on him (`base`, which the code keeps nowhere): affects
come, join, end, are taken off before a record is written and put on after; the
record in the file is `saved`.  Joining adds the numbers, and adds or averages the
durations (`Joined`), as `affect_join` does.  What a set of things adds up to is `Total` of
`Sums`, which `Money` uses as well.
Equipping can go wrong half way: an object may zap its wearer to the
ground while `char_to_store` puts his equipment on again.

**Stash** has, for each player, what he carries, his locker, the pawn shop and
the insurance board in memory, and the four kinds of files on disk.  A crash
takes the memory and leaves the files.  Places are sets, so that one object in two
of them is two copies.  `get 0 locker` and `retrieve 0` are there as well: the
first goes through NULL, the second reads the entry before the board and, if that is
taken for one, writes outside of it; both may stop the server, which loses the memory
as any crash does.

**Money** has words of `W` values, so that sums overflow as the code's unsigned
ones do: customers with purses and banks, accounts with members of every rank and
their file, a keeper with goods.  **Letters** is a board and the two mailboxes, with texts, heads and
the files written each time.  **Pager** is the list of texts read page by page
and the binary search of `do_help`, a recursive function on the spans of any sorted
table of help.  **Editors** has the four editors as
automata over the stages of their questions (`EmptyLine` and `Answer` are what may be
typed at one); the fields are one value, except for the type of an object, which
decides what is asked.  **Zones** has exits, sides of
doors, mazes, and `update_zones` with its ages and its early return; a zone of mode -1
is never reset (`zone.c:114`), not even at the boot.  **Reboot**
has `auto_reboot` and `do_shutdown` with the one counter that both delays use.

### Parts side by side

`MCServices` and `MCWorld` run several modules in one instance each.  The
modules of each of them share no state, so their steps commute and a product would
only repeat every state of one part beside every state of the others.  A
behaviour therefore picks one `part` and runs it; the others stay in their
initial state, and the run has the sum of the parts' states.  `MCServices` has
the editors, letters, pager, money, stash, zones and reboot; `MCWorld` has
`DescLoop`, `RoundAffects` with its allocator, `Belongings`, `Followers` and
`Affects`.  `MCServices` extends `Letters`, `Zones`, `Money`, `Pager`, `Editors`
and `Stash`, and `MCWorld` extends `RoundAffects`, `DescLoop`, `Belongings`, `Followers`
and `Affects`: their names differ, and their properties are checked as the modules
state them.  `Reboot` is an instance, `Down`.  The types of every part are one
invariant, `TypesOK`, in all behaviours; a property of liveness whose fairness only one
part has is checked as `part = ... => ...`.  Three parts run the same module,
`Editors`: two immortals at the zones, one at every kind, one at objects of every
type.  Which entries there are and who edits is a condition on states, `Setting`, that
their steps keep.  The stash has four parts, one for each of the files the server may
start on (`Starting`; `StartingAssumption` says that they are such files).  The
other `MC` modules extend one module and give its constants values.

That a behaviour of the whole is one of every part, the reason why the sum is enough,
is no convention but part of what is proved: `WorldParts` and `ServicesParts` (see 4).

## 3. The runs

| run | instance | shows |
|---|---|---|
| `sessions` | 3 connections, 4 characters, a mortal and a wizard, idle limits 1 and 3 | links, states, names, records, snoops and rooms stay consistent; only the owner reconnects; nobody leaves the world twice |
| `sessions_live` | 1 connection, 2 characters | a linkdead mortal leaves |
| `outqueue` | ring of 5 slots, limits 2 to 4, slow sockets, others at their password, records with the default limit | ownership, refinement of `ScrollQueue` |
| `outqueue_shrink` (violated) | the same, records with any limit | the size of a non-empty ring changes |
| `combat_duel` | a player and a mob, two rooms, healthy or dead, links lost, void, sleep, charm | the list, ghosts, positions, fights across rooms |
| `combat_melee` | a player and two mobs in one room, all linked, nobody asleep, sitting or resting | the turns with three fighters: `RoundOnce` |
| `combat_bleeds` (violated) | a player and a mob, one room, also incapacitated | who bleeds neither recovers nor dies |
| `world` | the parts of `MCWorld`: 5 players on 6 descriptors; 3 owners and 3 affects; 3 objects, a player and a mob; 3 who follow each other; spells on one player | the passes of a pulse, both lists of affects, `UnitPool`, places of objects, followers and groups, numbers and abilities |
| `services` | the parts of `MCServices`, with 1 or 2 people each | editors, letters, pages, coins, stashes, doors, zones and the shutdown; three properties are of liveness |
| `descloop_banned` (violated) | 6 file descriptors, a banned site | the empty game is full |
| `editors_stuck` (violated) | one editor, firearms | a question without a handler |
| `light_leaks` (violated) | a player with a light, two rooms | the light of a room is not the number of its lights |

Why these bounds suffice to meet the interesting cases.

* *Sessions*: two names with three connections allow a login while the body of
  that name is linkdead and another connection is being refused; the fourth
  character is the body a third connection allocates while two are in the world
  and one is a ghost; of the two idle limits only the order matters, and one tick
  lies between them.  Descriptors and characters are interchangeable (symmetry);
  names are not, they have levels.  A chain of snoops needs a third level, which
  the run leaves to the theorem `SnoopsAlwaysMatch`.
* *OutQueue*: with five slots and limits from 2 to 4 the ring wraps, is full, and
  is both longer and shorter after a scroll; two strings tell order.  Records
  with other limits, loaded while no other connection is at its password, are left
  to the theorems.
* *RoundAffects*: three affects are a first, a middle and a last one, with any
  owners; the third record is found only by growing the table during a walk, and
  records come back in every order.
* *DescLoop*: five players, so that the one in treatment, the next one, one
  before and one after can each be closed.  Behaviours also start with two
  connections at the end of a pulse (`TwoConnected`, for a mother socket on
  descriptor 1), which is only a shorter way to reachable states; `TwoStart` proves
  that the invariant holds there.
* *Combat*: with one blow a turn and two or three fighters, the one at the
  cursor, before it and behind it can stop, die and be drawn in; more blows only
  repeat that.  Two classes of wounds, well and dead, give every blow that
  matters to the list; being stunned comes from bashes and spells as well.  Only
  `combat_bleeds` needs a third, and it stops at the first violation.  The melee
  leaves to the duel what two can do (lost links, sleep and rest, several charms),
  with the constraint `Small`; the mobs are interchangeable in it.  A light move
  that sets a mob on a second player needs one more player, and is not met.
* *Belongings*: three objects are a container, what is in it and one beside it,
  or two coins that merge; `Cap` is what hands hold, and one at most is a light
  (`OneLight`).  A step that needs a fourth object is not taken (`short`), so that a
  corpse with coins is met only when something is free for both; the proofs are about
  any number of objects.
* *Followers*: three make a chain, and a loop if one were possible; the band of
  three stands, or one of it sleeps (`Upright`), and a player with a pet takes all
  positions (the proofs have no such limits).
* *Affects*: a spell of two parts that add and take away (bless), one that joins
  itself and averages its duration (strength), one that gives an ability and joins itself
  with the durations added (sleep); a ring that gives the same ability, and a sword an
  aligned player may not wear.  A number is joined up to `MaxMod`, a duration up to
  `MaxDur`, which is enough for what is joined to outlive and not to outlive the rest.
* *Stash*: one instance that starts on four sets of files (`Starting`): one object
  between a player and a wizard, with the commands on files; two objects with a
  locker and a pawn shop; a key that cannot be rented but insured; and a key
  insured before a restart that took it out of the world.  The proofs are about any
  files.  The board of the insurance holds three slips (`MAX_INSURE`), so
  that it is full.
* *Editors*: two at the zones, of which the third is edited by neither; one
  at every kind; one at objects of every type.  Firearms are left out of it,
  because `editors_stuck` shows that who edits one does not get out.
* *Zones*: two rooms with two doors between them and a maze, in three zones of the
  modes 1, -1 and 2.  One door is set alike on both sides by the first zone.  Of the other
  the first zone closes one side, and the command for the other side stands in the zone
  that is never reset: such doors are in `lib/zones` too.  Of the about 440 ways there
  with a door on one side at least, some fifty are not laid alike: a door on one side
  only (2905 and 2910), one side set and the other not (737 and 738, 2231 and 2243, 7200
  and 7201), or sides set by two zones that come due apart (1604 and 2001).  Nothing is
  assumed of the files, and `DoorsAgree` says nothing of these doors (`Laid`); without
  `Laid` TLC finds it violated at the second door.  What holds of them as well is
  `OnlyResetsPart`, a theorem.  One zone is reset at a time (`MAX_RESETS`), so that one
  waits.  Lifespans are four: a zone is due two pulses before its
  lifespan, and with less, an early zone that `auto_reset` has just reset is due again at
  the next call and keeps the late one waiting for ever.  The lifespans of the zones
  that are reset are ten and more; with more than ten zones near them, zones late in
  the list would starve, which the instance's ratio excludes as the data does.
* *Money*: words of four values overflow after two deposits; *Pager*: texts of one
  to three lines on screens of one or two; every sorted table of up to five keywords,
  with repeats, of one and two letters, of which one begins others; *Letters*: boxes
  of two with three items; *Reboot*: an immortal types at most three commands.

**Fairness.**  `Sessions!Spec` has `WF_vars(Tick)`, used by `sessions_live` only.
`game_loop` calls `update_tick` every few pulses (`main.c:500-504`), whatever
the players do, and the pass treats its whole list.  `Combat!FairSpec` has
`WF_vars(perform_violence)`, which the loop calls every round (`main.c:486-490`)
and which runs to its end; `TickSpec` adds the tick for everybody.  In `services`,
`update_zones` and `auto_reboot` are weakly fair, as the loop calls both every
`PULSE_ZONE` pulses, and so is the step that counts `shutdowngame` down.  Nothing
else of the server is assumed fair.  Of the players something is assumed only
where the property is about one who wants something: `WhoAsksGetsOut` is about an
immortal who asks to leave, so he answers what he is asked (`WF` of `EmptyLine` and
`Confirm`), and types Q again and again when he is not asked (`SF` of `Quit`).
`GoesDown` says only that what is left alone long enough happens.

Each property has a mutant of the code in `PROJECT.json` (a guard dropped, a
pointer left, a wrap off by one) under which TLC finds it violated; the mutated
operators stand before the ones they replace.

## 4. The proofs

`SessionsProofs`, `OutQueueProofs`, `CombatProofs`, `WorldProofs` (connections,
followers, timed affects, affects per round with their allocator), `ThingsProofs` (objects),
`ServicesProofs` (boxes, doors, coins, pages and the help table, editors) and
`StashProofs` (files, lockers, pawn shop, insurance) are checked by TLAPS
for all values of the constants under the assumptions the modules name, which TLC
evaluates on the instances of the runs.  `DataLemmas` says once what a sequence is
without one of its places, derives induction over the numbers and over finite sets
from the library's facts about `<` (`LeastNumber`, `EveryNumber`,
`EveryFiniteSet`), and has the lemmas on `Total`: that there is such a sum, that any
element may be the first to be added, and what a change of one of them does.

* **Sessions** (`DataAssumption`: levels are naturals, `NULL` is none of the
  values).  The inductive invariant `Inv` is `Types` (`TypeOK` without the bound of the
  timers) and `LinkInv`: every
  connection in a state past the name has a character that points back
  (`DescLinks`, `Seated`), every character that points at a connection is its
  (`CharLinks`), one that points at none is in the world (`NoneLost`), `nr`
  says who is in the world (`WorldIsNr`), who is in the world stands in a room,
  and who is still to be treated by a tick is in the world.  The last two are
  why `char_from_world` never stops the server (`NeverInNowhere`, the theorem
  `NobodyLeavesTwice`).
  `LinksMatch` and `StateMatchesWorld` follow.  `NamesInv`
  adds what the search for ghosts and the check of a name keep together: two
  bodies of one name would need two connections with that name, or one at the
  menu beside a ghost; `OneBodyPerName` needs it and follows, and the same lemmas
  give `OnlyOwnerReconnects`.  `SnoopsMatch` is itself inductive on top of `Inv`.
  The timers take `IdleInv`: whoever has been silent for more than `IdleVoid` ticks has
  been taken from his room, so that the tick at `IdleOut` is the one that extracts him, and with it
  `TypeOK` is `TypeCorrect`.
* **OutQueue** (`QueueAssumption`).  `RingInOrder`: the cursors, the number of
  strings and the size fit (`head` is the slot after the last of the `used`
  ones); it makes `SlotAt` injective, from which ownership of every string
  (`EveryStringOwned`) and the refinement (`RingIsScrollQueue`) follow action by
  action.  All of them assume `Loads`: a record's limit is loaded while the queue
  is empty (no other connection at its password, no slow socket) or is the
  default.  `outqueue_shrink` shows that the assumption is needed, and
  `NextAlwaysString` that it is enough for what that run finds violated.
* **AllocTable** (`AllocAssumption`; `Initial <= Memory`, as `init_alloctable`
  stops the server when it gets no memory).  `Chained`: the index array leads from
  `nextfree` through exactly the free records to `max`, each once.  Stated as
  the existence of that sequence, it survives alloc (its tail), free (one more in
  front) and expand (one with the new records); `TableIsPool` follows.
* **RoundAffects** (`NullAssumption`, and those of the allocator).  `Leads(f, link,
  S)` says that from `f` the links `link` come to the records of `S`, each once, and
  then to nothing.  `Chains`: the global list leads over all records in use, and
  the list of every owner over his.  `WalkLeads`: what the walk goes on with leads
  over a set of records whose records of the walk's type are those it still has to
  treat.  The last is the reason why a walk misses none (`WalkMissesNone`) though
  whole characters are emptied under it: taking a record out of a chain leaves
  what every other record leads over, without the one (`LeadsWithout`), and the
  cursor is moved when it is the one.  `Stages` says what stands still between the
  steps: who is being emptied loses the first of his list, and a walk waits for that in
  the middle of an affect.  A chain ends, because a longer one than there are records
  would have a record twice (`LinkedLength`); that it lists all it leads over needs
  an induction along it (`ChainListed`).  `ListsInStep` and `AffectsArePool` follow:
  the affects use the allocator as `UnitPool` allows.
* **Combat** (`CombatAssumption`).  The invariant is `Sound(world)` and the turn:
  the list has exactly the fighters, each once (`Listed`), a ghost has neither
  fights nor a place (`Bodily`), who stands as a fighter has a fight (`Postured`), and
  the cursor is nobody's or a fighter's (`Cursor`).  A handler is an operator on
  worlds, and each has a lemma: it takes sound worlds to sound ones.  The walk over
  the list in `StopAll` is a recursive function; that it ends every fight
  against the dead is shown by induction along the list.  `EveryFighterOnce` is the
  refinement of `RoundOnce`: who waits for his turn is who stands at and behind the
  cursor (`ToCome`), and the lemmas say of every handler how it changes
  (`Kept`: nobody but those who stop; `KeptButOne`: and one more, the mob that turns
  on its master).
* **Followers** (`FollowersAssumption`).  `BandInv` is `FollowersOK`, `LinksAgree`,
  `NoLoops` and `GoneAreFree`, and needs all four: without `LinksAgree` a record
  that is freed may still stand in a list, and without `GoneAreFree` a mob that is
  loaded into it may lead somebody.  Every action changes masters and
  lists in one of two ways: some let go, and one may get a leader whom he does
  not lead himself (`Rewired`, `Proper`).  Four lemmas say what that does to each
  conjunct, and each action is shown to be of that form.  `circle_follow` is
  stated with sets closed under masters, so that `NoLoops` is proved for chains of
  any length without induction.  `GroupSafe` follows from the same cases.
* **DescLoop** (`DescAssumption`: file descriptors are naturals, `NoFd` is none).
  During a pass the connections still to be treated are those from some place
  `k` of the list on, and the one the pass goes on with is at that place
  (`PassInv`).  Closing a connection before, behind or at `k` keeps this, the last
  because `close_socket` moves `next_to_process` off the record it frees.
  `last_desc` bounds all descriptors of the list, which is without repetition
  and without the mother socket (`ListInv`, `LastInv`); `AlwaysDown`, the mutant
  of `LastWithout`, breaks exactly this.  `PassesCover` and `SelectSees` follow.  `FullOfPlayers` is
  about what `descloop_banned` finds violated: as long as nobody has banned a site
  (and there is a descriptor for a player at all, `s + 1 < Avail`), a game that is
  full has players, because `last_desc` reaches the last descriptor only with it
  (`FullInv`), as the lowest free one is at most the one after `last_desc`
  (`LowestNext`).  So the refused connections are the only cause.
* **Letters** (`BoxAssumption`: a box has a size, `Nobody` is no player and no text).
  The files always say what the box holds (`FileInv`): the index is the heads, and
  the bodies are the contents and nothing behind them, since a removal unlinks the one
  file that the save leaves over.  So a reboot reads back what was there, and
  `HeadsSafe` follows.
* **Zones** (`Layout`: a room has one exit in a direction, `rev_dir` is its own inverse,
  and commands name exits; nothing is assumed of how the files set doors).  A room outside
  the mazes has the exits it was built with, and a maze only its own, so that of the two
  exits a command changes either none is the side of a way between such rooms, or they are
  its two sides (`Touched`).  So a command changes both sides alike, whatever the files say:
  only a reset parts two sides that agree (`CommandsAgree`).  A reset sets both sides alike
  where the files lay them alike (`Laid`), and `DoorsTogether` follows for these doors.
* **Affects** (`AffectsAssumption`: finitely many pieces of a spell and items, each of
  which adds an integer).  The
  number in memory is the base and what is on the player (`NumbersAgree`), the file has
  the base alone while a record is taken apart, and the abilities are those that
  something gives (`Enabled`).  A command takes some away and gives some; what that
  does to a sum is `SumOfChange`, and to abilities `Regiven`, which needs that the
  code gives back what another affect or a worn thing still gives.  `SumOfTicked` is the
  pass over all of them at once.  `EffectsAlwaysAgree` follows.
* **Money** (`CoinsAssumption`: words have at least two values, and there are finitely
  many customers and accounts).  Every command is shown to be one of five changes
  (`BankMoves`, `Traded`, `OnlyBooks`, `AmountSet`, `PurseSet`), and, but for the sharing
  out and a reboot, to make no coin though its sums may overflow: `CoinsNotMade`.  The accounts in memory have an
  order of members (`BookOK`), which the file keeps; with it `RebootKeeps` is inductive
  (`RebootTakesNothing`).
* **Pager** (`PagerAssumption`: letters are numbers, screens have lines).  The units of
  a reader lie in the list with the newest first (`NewestFirst`), and who has the flag
  has one: `TurnsLatest`.  For the search, a word is less than, within or greater than a
  keyword by the first letter that differs (`CompareCases`), so along a sorted table
  it is first greater, then within, then less (`LessGoesOn`, `MoreGoesBack`).  The
  search ends because the spans get smaller (`SearchesExist`), and by induction over
  their size what it leaves out has none that the word begins (`LookAnswers`):
  `HelpAlwaysFinds`, for tables of any length.
* **Editors** (`EditorsAssumption`: the kinds are the four of `edit.h`).  A unit is opened
  only when `find_editing` sees neither its entry nor its editor in the list, an answer
  leaves the editor and the number of a unit alone (`CopyKept`), and every step that takes
  a unit away takes its editor out (`EndKeeps`), also where the code would go on
  to an entry of another and stops the server instead (`GoOnKeeps`).  So `UnitsStayApart`
  is inductive with the types, which need that each chain of questions stays among the
  stages of its kind (`ChainsOfNames`).
* **Belongings** (`ThingsAssumption`: finitely many objects and characters, `NIL` and
  `NOWHERE` are none of the values, there is a place for a light).  `Sound(v, L, C)`
  says of a state `v`, also one between two primitives: lists and pointers agree
  (`Filed`, `Dressed`), at most one pointer of an object is set (`Apart`), and one is
  exactly when it is live and not in hand (`Housed`; `L` are those a handler has in
  hand); only containers and corpses hold things, and only what can be worn is worn
  (`Sorted`); the hands are counted and who is out of the world has nothing on him
  (`Counted`, `LeftBare`, but for the characters `C` on their way in or out); and
  no objects are each in another (`Untied`).  `OnePlace` alone does not carry itself on:
  without `Sorted` a new object might hold something already, or a corpse be worn
  while it decays.
  Each primitive has a lemma that says which `L` and `C` it needs and leaves:
  `ToRoom`, `FromChar`, `Unequip`, `Extract` (with `InsideIs` and `InsideHasBox`: what
  is inside goes too, and nothing else), `Merged` for coins, `HungIs`, `StrippedIs` and
  `OutOfRoom` for who leaves.  Each handler then has one that it ends with `L` and `C` empty,
  among them the corpses (`PieceIs`, `KillStep`) and the decay of a corpse that is in a
  container (`UntiedUp`).  `AlwaysOnePlace` follows.  A state without spare
  records (`short`) is no state of the specification, so nothing is claimed of it.
* **Stash** (`StashAssumption`: finitely many players, a board with a place, and what
  cannot be rented are objects).  The types are not enough: who is out of the game
  stands where he rented, or his locker would not count (`OutAtRent`); who is at his
  locker has in memory what its file has, so that leaving it loses and doubles nothing
  (`LockerRead`); and the file of the board has every entry that the board has, so
  that a boot brings each back (`Written`).  Copies of an object are counted at six places.  Most
  commands change what one player has and what lies about, and for them it is enough
  that he has no more of the object than he had (`CopiesOf`, `Had`, `StepCopies`); the
  insurance shifts its board, and as the shift of a board that is not full is an
  injection of its places (`ShiftedBoard`, `ShiftedCount`), an entry that is taken off
  is one copy less.  `NothingDoubled` and `InsuredKept` follow, for the objects the
  world still has the numbers of: of the others (`Gone`) no copy is ever made, as
  neither files nor board give them back.

* **The parts together** (the assumptions of all parts, `StartingAssumption` for the
  files the server starts on, `DownAssumption` for the times and the number of commands
  in `Reboot`).  `WorldProofs` extends `MCWorld` and `ServicesProofs` extends
  `MCServices`, so the theorems above are about the operators that the runs
  evaluate.  A step of the whole is a step of one part and leaves the variables of the
  others alone (`WorldSteps`, `ServicesSteps`), and its initial states are initial states
  of each (`WorldStarts`, `ServicesStart`); so a behaviour of the whole is a behaviour of
  every part (`WorldParts`, `ServicesParts`).  `WorldTyped` and `ServicesTyped` say that
  `TypesOK` holds, `WorldKeeps` and `ServicesKeep` that what is promised of the parts
  holds in the same states: these four are the safety of the two runs, for all
  constants.  The types of `Reboot` are inductive as they stand: the
  counter that serves three purposes stays below twelve (`DownCounted`).

What stays with TLC: liveness (`GhostsLeave`, `WhoAsksGetsOut`, `DoorZonesReset`,
`GoesDown`, `FightsApartEnd`), as fairness and ENABLED are out of the prover's
reach, and the runs that find a property violated.  Every other property of the runs
is a theorem.

## 5. What the checks found

* Bleeding, poison and suffering do nothing: they are `damage(ch, ch, ...)`, and
  `is_allow_kill` (`act.offensive.c:27`) refuses it.  Who falls below zero is
  told that he will slowly die, and lies there (`combat_bleeds`).  The
  refusal also hides what would follow from its repair: `update_tick` goes
  on with a player it has just killed (`update.c:149`), and `check_idling` could
  take him out of the world a second time, which stops the server.
* `store_to_char` changes the size of the ring while a newline may be in it
  (`outqueue_shrink`).
* A connection refused for its site leaves `last_desc` raised; if it had the
  last file descriptor the game is full for good (`descloop_banned`).
* An editor asks for the values of a firearm in a stage that his own handler does
  not have, and stays in it (`editors_stuck`).
* Who rents, dies or is extracted with a burning light has it taken off before he
  leaves the room, so the room keeps its light (`light_leaks`).

The models also had to follow the code where it does something else than its
names say; the properties state these exceptions.  Objects are doubled only by a
restart (files older than what happened since), by a dying player who quits and
keeps his file, by the two commands of immortals on files, and by the slip of a
full insurance board (`Slip`, `NoMoreCopies`).  A full deposit loses coins, `do_split` pays
followers who are not of the group, and a reboot gives back what was paid from
an account, as `cost_from_player` does not write the file: coins vanish or come
back, but no command makes them.  In the editors N, P, J, K and G read a
neighbour through NULL when somebody edits it, and the server stops (`down`).
`shutdown stop` does not stop the countdown; any word that is not known does.

## 6. Not modelled

Every component with its reason is in `PROJECT.json`.

* **Player file**: the positions of records, `find_entry` and the strings of a
  record.  The index as a set of names is in `Sessions`, numbers and affects in
  `Affects`, the objects in `Stash`.  The order of affects in the file and the
  limit of 25 of them are left out of `Affects`, as are the abilities a mob is born
  with.
* **Other parts of sessions and combat**: amounts of damage, parries,
  experience, the tables of single spells.
* **Zones**: the limits on what is loaded, and reading and writing the zone files.
* **Portals, food, drink, weather, path finding**: counters of single objects, or
  lists without shared state.  A portal keeps the pointer of an object that is
  gone; memory that is freed and read is not in `Belongings`.
* **Interpreter, socials, channels, information, libraries, formulas of skills
  and spells, scripts of single rooms and mobiles**: tables, text and random
  numbers; what they change of a modelled part is an action there.
* Weights of objects are left out: they decide only what may be taken, and the
  models leave that to choice.
* **Two parts at once**: a crash in the middle of a handler, and a product of
  `Sessions` with the lists of the world, are beyond what TLC can search here.
