------------------------------- MODULE Reboot --------------------------------
(***************************************************************************)
(* How the server goes down (spec.reboot.c, act.wizard.c, main.c): a mob,  *)
(* Reboot, pulls the lever when the server has run for twenty hours, when  *)
(* his friend Shutdown is gone, or when an immortal gave a time.  Both     *)
(* can be killed; one counter, nr, counts the calls until Reboot is made   *)
(* again and the calls until he pulls.                                     *)
(***************************************************************************)
EXTENDS Integers

CONSTANTS Minutes, MaxTyped   (* times to give; bound of the commands typed *)

VARIABLES
  late,           (* it has run for 19:55                                  *)
  here, friend,   (* Reboot and Shutdown in the room of the lever          *)
  nr, manualshutdown, stopshutdown, autoshutdown,
  shutdowngame,   (* 0: it runs, 1: the pulse loop is left                 *)
  typed

vars == <<late, here, friend, nr, manualshutdown, stopshutdown, autoshutdown, shutdowngame, typed>>

TypeOK ==
  /\ late \in BOOLEAN /\ here \in BOOLEAN /\ friend \in BOOLEAN
  /\ stopshutdown \in BOOLEAN /\ autoshutdown \in BOOLEAN
  /\ nr \in 0..11 /\ manualshutdown \in Int /\ shutdowngame \in 0..4 /\ typed \in 0..MaxTyped

Init ==
  /\ late = FALSE /\ here = TRUE /\ friend = TRUE /\ nr = 0
  /\ manualshutdown = 0 /\ stopshutdown = FALSE /\ autoshutdown = FALSE
  /\ shutdowngame = 0 /\ typed = 0

Runs == shutdowngame # 1

(* Mutant: it starts again one call too early. *)
from_five == IF nr >= 5 THEN 0 ELSE nr
(* What was counted for the new Reboot, when another one came.             *)
Counted == IF nr > 5 THEN 0 ELSE nr

(* He is away: a new one is made, in the twelfth call.                     *)
Missing ==
  /\ ~here
  /\ IF nr > 10 THEN here' = TRUE /\ nr' = 0 ELSE nr' = nr + 1 /\ UNCHANGED here
  /\ UNCHANGED <<manualshutdown, autoshutdown, shutdowngame>>

Held ==
  /\ here /\ stopshutdown /\ (manualshutdown # 0 \/ ~friend \/ late)
  /\ nr' = Counted
  /\ UNCHANGED <<here, manualshutdown, autoshutdown, shutdowngame>>

ByHand ==
  /\ here /\ ~stopshutdown /\ manualshutdown # 0
  /\ nr' = Counted /\ manualshutdown' = manualshutdown - 1
  /\ shutdowngame' = IF manualshutdown > 1 THEN shutdowngame ELSE 4
  /\ UNCHANGED <<here, autoshutdown>>

ByClock ==
  /\ here /\ ~stopshutdown /\ manualshutdown = 0 /\ (~friend \/ late)
  /\ IF Counted # 5
     THEN nr' = Counted + 1 /\ UNCHANGED <<manualshutdown, autoshutdown, shutdowngame>>
     ELSE /\ nr' = 5 /\ manualshutdown' = -1
          /\ autoshutdown' = TRUE /\ shutdowngame' = 4
  /\ UNCHANGED here

Quiet ==
  /\ here /\ manualshutdown = 0 /\ friend /\ ~late
  /\ nr' = 0
  /\ UNCHANGED <<here, manualshutdown, autoshutdown, shutdowngame>>

(* Every PULSE_ZONE pulses: once it goes down, no call comes any more.     *)
auto_reboot ==
  /\ shutdowngame = 0
  /\ Missing \/ Held \/ ByHand \/ ByClock \/ Quiet
  /\ UNCHANGED <<late, friend, stopshutdown, typed>>

(* The pulse loop: from 4 it takes three pulses, from 2 one.               *)
pulse ==
  /\ shutdowngame > 1 /\ shutdowngame' = shutdowngame - 1
  /\ UNCHANGED <<late, here, friend, nr, manualshutdown, stopshutdown, autoshutdown, typed>>

Typed(game, stop, manual) ==
  /\ Runs /\ typed < MaxTyped /\ typed' = typed + 1
  /\ shutdowngame' = game /\ stopshutdown' = stop /\ manualshutdown' = manual
  /\ UNCHANGED <<late, here, friend, nr, autoshutdown>>

(* "stop" does nothing; it is any other word that ends the countdown.      *)
do_shutdown ==
  \/ Typed(2, stopshutdown, manualshutdown)
  \/ \E stop \in BOOLEAN : Typed(shutdowngame, stop, manualshutdown)
  \/ \E mins \in Minutes \cup {0} : Typed(shutdowngame, stopshutdown, mins)

(* A signal. *)
shutdown_request == Typed(2, stopshutdown, manualshutdown)

(* The two are killed or carried off, and come back by a reset of their    *)
(* zone or an immortal.                                                    *)
Mob(h, f) ==
  /\ Runs /\ <<h, f>> # <<here, friend>>
  /\ here' = h /\ friend' = f
  /\ UNCHANGED <<late, nr, manualshutdown, stopshutdown, autoshutdown, shutdowngame, typed>>

Hours ==
  /\ Runs /\ ~late /\ late' = TRUE
  /\ UNCHANGED <<here, friend, nr, manualshutdown, stopshutdown, autoshutdown, shutdowngame, typed>>

Next ==
  \/ auto_reboot \/ pulse \/ do_shutdown \/ shutdown_request \/ Hours
  \/ \E h, f \in BOOLEAN : Mob(h, f)

(* The pulse loop makes both steps again and again.                        *)
Fairness == WF_vars(auto_reboot) /\ WF_vars(pulse)
Spec == Init /\ [][Next]_vars /\ Fairness

-----------------------------------------------------------------------------
(* Whatever was killed, typed and counted before: when Reboot is left      *)
(* alone, nobody holds him, and his friend is gone or the time has come,   *)
(* the server goes down.                                                   *)
GoesDown == <>[](here /\ ~stopshutdown /\ (late \/ ~friend)) => []<>(shutdowngame = 1)

=============================================================================
