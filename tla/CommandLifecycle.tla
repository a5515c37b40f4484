-------------------------- MODULE CommandLifecycle --------------------------
(***************************************************************************)
(* What the command engine promises to whoever writes a command into the   *)
(* pipe, without lists, channels, call ids or clocks: a command is tried   *)
(* at most twice, its text is written at most once per try, and its end is *)
(* announced once: as done only if the server accepted the text, as failed *)
(* only after the second try.                                              *)
(***************************************************************************)
EXTENDS Integers

CONSTANT CommandIds

VARIABLES
  stage,      \* "unused", "first" or "second" try, "done" or "failed"
  sends,      \* how often the text was written
  accepted,   \* commands whose text the server has accepted
  alive       \* FALSE once the process has ended

vars == <<stage, sends, accepted, alive>>

Stages == {"unused", "first", "second", "done", "failed"}

Init ==
  /\ stage = [c \in CommandIds |-> "unused"]
  /\ sends = [c \in CommandIds |-> 0]
  /\ accepted = {}
  /\ alive = TRUE

(* The number of the try a command is in.                                  *)
Try(c) == IF stage[c] = "second" THEN 2 ELSE 1

Submit(c) ==
  /\ stage[c] = "unused"
  /\ stage' = [stage EXCEPT ![c] = "first"]
  /\ UNCHANGED <<sends, accepted, alive>>

SendOnce(c) ==
  /\ stage[c] \in {"first", "second"}
  /\ sends[c] < Try(c)
  /\ sends' = [sends EXCEPT ![c] = @ + 1]
  /\ UNCHANGED <<stage, accepted, alive>>

(* The server may accept a text long after the command has ended.          *)
Accept ==
  /\ accepted' \in SUBSET CommandIds
  /\ accepted \subseteq accepted'
  /\ \A c \in accepted' : sends[c] > 0
  /\ UNCHANGED <<stage, sends, alive>>

TryAgain(c) ==
  /\ stage[c] = "first"
  /\ stage' = [stage EXCEPT ![c] = "second"]
  /\ UNCHANGED <<sends, accepted, alive>>

(* A command without a text to send (a dump) needs nobody to accept it.    *)
Complete(c) ==
  /\ stage[c] \in {"first", "second"}
  /\ sends[c] > 0 => c \in accepted
  /\ stage' = [stage EXCEPT ![c] = "done"]
  /\ UNCHANGED <<sends, accepted, alive>>

Abandon(c) ==
  /\ stage[c] = "second"
  /\ stage' = [stage EXCEPT ![c] = "failed"]
  /\ UNCHANGED <<sends, accepted, alive>>

Halt ==
  /\ alive' = FALSE
  /\ UNCHANGED <<stage, sends, accepted>>

Next ==
  /\ alive
  /\ \/ \E c \in CommandIds : Submit(c) \/ SendOnce(c) \/ TryAgain(c)
                                \/ Complete(c) \/ Abandon(c)
     \/ Accept
     \/ Halt

Spec == Init /\ [][Next]_vars
=============================================================================
