------------------------------ MODULE OutQueue ------------------------------
(***************************************************************************)
(* The output queue of one connection: a ring of strings in the descriptor *)
(* record (sockets.c put_to_output, get_from_output, flush_ouqueue,        *)
(* process_output) whose size the player sets (act.comm.c do_scroll) and   *)
(* the player file restores while he logs in (character.c store_to_char).  *)
(*                                                                         *)
(* A pulse of the main loop takes at most one line of input and then, when *)
(* the socket takes output, empties the queue.  Before the name is known   *)
(* only the handler of the player's own line writes to him; later anybody  *)
(* does at any time.  Two things can leave strings in the queue when the   *)
(* next line is treated: a socket that takes no output, and the newline    *)
(* that the global no_echo, set by the password prompt of any other        *)
(* connection, makes the main loop put first (main.c:380).                 *)
(***************************************************************************)
EXTENDS Naturals, Sequences

CONSTANTS
  Text,        (* the strings                                              *)
  MaxOutque,   (* slots of the ring: MAX_OUTQUE, 128                       *)
  MinSize,     (* the least scroll limit: 10                               *)
  Default,     (* the limit of a new connection: 40                        *)
  Stored,      (* the scroll limits that player records hold               *)
  OtherPrompts, (* may others be asked for passwords at the same time?     *)
  SlowSocket,  (* may a pulse pass in which the socket takes no output?    *)
  NULL         (* a slot without a string: never used, or freed            *)

ASSUME QueueAssumption ==
  /\ MaxOutque \in Nat /\ MinSize \in Nat /\ Default \in Nat
  /\ 0 < MinSize /\ MinSize <= Default /\ Default < MaxOutque
  /\ Stored \subseteq MinSize .. MaxOutque - 1
  /\ OtherPrompts \in BOOLEAN /\ SlowSocket \in BOOLEAN
  /\ NULL \notin Text

VARIABLES
  queue,   (* output.queue                                                 *)
  head,    (* output.head: the next string goes there                      *)
  tail,    (* output.tail: the next string is taken there                  *)
  used,    (* output.used                                                  *)
  qSize,   (* descriptorType.qSize                                         *)
  state,   (* CLOSED, NME, LOADED (asked for the password) or OPEN         *)
  line,    (* the line of this pulse: it waits, is being read, or is read  *)
  output   (* process_output is emptying the queue                         *)

ring == <<queue, head, tail, used>>
vars == <<queue, head, tail, used, qSize, state, line, output>>

Slot == 0 .. MaxOutque - 1
Size == MinSize .. MaxOutque - 1

TypeOK ==
  /\ queue \in [Slot -> Text \cup {NULL}]
  /\ head \in Slot /\ tail \in Slot
  /\ used \in 0 .. MaxOutque
  /\ qSize \in Size
  /\ state \in {"CLOSED", "NME", "LOADED", "OPEN"}
  /\ line \in {"waits", "reading", "read"} /\ output \in BOOLEAN

-----------------------------------------------------------------------------
(* The slot after i in a ring of n + 1 slots.  Mutant: the wrap is one     *)
(* slot early.                                                             *)
AfterEarly(i, n) == IF i + 1 >= n THEN 0 ELSE i + 1
After(i, n) == IF i + 1 > n THEN 0 ELSE i + 1

(* One string too many: the oldest is dropped.  Mutant: it is overwritten. *)
NeverFull(h) == FALSE
Full(h) == h = tail

Blank == [s \in Slot |-> NULL]

Init ==
  /\ queue = Blank
  /\ head = 0 /\ tail = 0 /\ used = 0
  /\ qSize = Default
  /\ state = "CLOSED"
  /\ line = "waits" /\ output = FALSE

(* put_to_output when the ring has size n. *)
put_to_output(t, n) ==
  LET h == After(head, n) IN
  /\ head' = h
  /\ IF Full(h)
     THEN /\ queue' = [queue EXCEPT ![head] = t, ![tail] = NULL]
          /\ tail' = After(tail, n)
          /\ used' = used
     ELSE /\ queue' = [queue EXCEPT ![head] = t]
          /\ used' = used + 1
          /\ UNCHANGED tail

get_from_output ==
  /\ used > 0
  /\ queue' = [queue EXCEPT ![tail] = NULL]
  /\ tail' = After(tail, qSize)
  /\ used' = used - 1
  /\ UNCHANGED head

(* The slot of the k-th string to be taken: the first is at i, n the size. *)
At(i, n, k) ==
  IF i > n THEN IF k = 1 THEN i ELSE k - 2
  ELSE IF i + k - 1 <= n THEN i + k - 1 ELSE i + k - 1 - (n + 1)
SlotAt(k) == At(tail, qSize, k)

(* flush_ouqueue takes all strings.  Mutant: it only resets the cursors. *)
Forgotten == queue
Flushed == [s \in Slot |-> IF \E k \in 1 .. used : s = SlotAt(k) THEN NULL ELSE queue[s]]

-----------------------------------------------------------------------------
(* Input. *)

(* The record is cleared when it is allocated.  A new connection is        *)
(* greeted, and has no line to read in its first pulse.                    *)
new_descriptor ==
  /\ state = "CLOSED"
  /\ queue' = Blank
  /\ head' = 0 /\ tail' = 0 /\ used' = 0
  /\ qSize' = Default
  /\ state' = "NME"
  /\ line' = "read"
  /\ UNCHANGED output

close_socket ==
  /\ state # "CLOSED"
  /\ queue' = Flushed
  /\ head' = 0 /\ tail' = 0 /\ used' = 0
  /\ state' = "CLOSED"
  /\ line' = "waits" /\ output' = FALSE
  /\ UNCHANGED qSize

(* no_echo is still set when a line is taken: a newline is put first. *)
Newline(t) ==
  /\ OtherPrompts
  /\ state \in {"NME", "LOADED"} /\ line = "waits" /\ ~output
  /\ put_to_output(t, qSize)
  /\ line' = "reading"
  /\ UNCHANGED <<qSize, state, output>>

(* Reading a line: what is answered is put by Put. *)
Reads(s) ==
  /\ state = s /\ line \in {"waits", "reading"} /\ ~output
  /\ line' = "read"
  /\ UNCHANGED output

(* CON_NME and CON_NMECNF: a name that is refused, or a new one, of which  *)
(* no record is loaded.                                                    *)
NameTyped ==
  /\ Reads("NME")
  /\ state' \in {"NME", "OPEN"}
  /\ UNCHANGED <<ring, qSize>>

(* CON_NME, the name of a record: store_to_char takes the limit from it,   *)
(* and one string asks for the password.                                   *)
store_to_char(n, t) ==
  /\ Reads("NME")
  /\ qSize' = n
  /\ put_to_output(t, n)
  /\ state' = "LOADED"

(* CON_PWDNRM: from the next line on everything may write to the player. *)
PasswordTyped ==
  /\ Reads("LOADED")
  /\ state' = "OPEN"
  /\ UNCHANGED <<ring, qSize>>

Put(t) ==
  /\ ~output
  /\ state = "OPEN" \/ (state = "NME" /\ line = "read")
  /\ put_to_output(t, qSize)
  /\ UNCHANGED <<qSize, state, line, output>>

(* The scroll command: the queue is flushed before its size changes. *)
do_scroll(n, t) ==
  /\ state = "OPEN" /\ ~output
  /\ queue' = [Flushed EXCEPT ![0] = t]
  /\ head' = After(0, n) /\ tail' = 0 /\ used' = 1
  /\ qSize' = n
  /\ UNCHANGED <<state, line, output>>

-----------------------------------------------------------------------------
(* Output. *)

(* The socket takes output in this pulse, and there is some. *)
StartOutput ==
  /\ state # "CLOSED" /\ line # "reading" /\ ~output /\ used > 0
  /\ output' = TRUE
  /\ UNCHANGED <<ring, qSize, state, line>>

process_output ==
  /\ output
  /\ get_from_output
  /\ UNCHANGED <<qSize, state, line, output>>

(* The pulse ends: nothing was left to send, or the socket took nothing. *)
EndPulse ==
  /\ line # "reading"
  /\ used = 0 \/ (SlowSocket /\ ~output)
  /\ line' = "waits" /\ output' = FALSE
  /\ UNCHANGED <<ring, qSize, state>>

Next ==
  \/ new_descriptor \/ close_socket
  \/ NameTyped \/ PasswordTyped
  \/ \E n \in Stored, t \in Text : store_to_char(n, t)
  \/ \E n \in Size, t \in Text : do_scroll(n, t)
  \/ \E t \in Text : Newline(t) \/ Put(t)
  \/ StartOutput \/ process_output \/ EndPulse

Spec == Init /\ [][Next]_vars

-----------------------------------------------------------------------------
(* Properties. *)

(* Every slot from tail on, used of them, holds a string and no other slot *)
(* does: no string is freed twice or read after it was freed, and none is  *)
(* overwritten before it was freed, whatever sizes the ring goes through.  *)
StringsOwned ==
  \A s \in Slot : queue[s] # NULL <=> \E k \in 1 .. used : s = SlotAt(k)

(* The queue is what its users rely on: the latest strings in order, up to *)
(* the scroll limit.                                                       *)
Scroll == INSTANCE ScrollQueue
            WITH q <- [k \in 1 .. used |-> queue[SlotAt(k)]],
                 size <- IF state = "CLOSED" THEN Default ELSE qSize
IsScrollQueue == Scroll!Spec

(* "q of strings to send" (sockets.h:84): what is next to be sent is a     *)
(* string, whoever else logs in at the same time.                          *)
NextIsString == used > 0 => queue[tail] # NULL
=============================================================================
