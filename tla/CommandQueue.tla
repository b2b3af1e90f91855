----------------------------- MODULE CommandQueue -----------------------------
(***************************************************************************)
(* What the command queue of lib/hpsc/command.c promises its callers: a    *)
(* bounded FIFO.  A command that is accepted stays queued, in order, until *)
(* it is taken for handling or dropped by cmd_drop_all; a command is       *)
(* refused only while Capacity commands are queued.  Command.tla, the      *)
(* ring buffer with its two indices, is checked to implement this module.  *)
(***************************************************************************)
EXTENDS Naturals, Sequences, SequencesExt

CONSTANTS Cmds,      \* the commands submitted, each at most once
          Capacity   \* how many commands may be queued

VARIABLES queue,     \* the queued commands, oldest first
          fate       \* what became of each command

vars == <<queue, fate>>

Init == /\ queue = << >>
        /\ fate = [c \in Cmds |-> "new"]

(* cmd_enqueue_cb returns 0: the command is the last one queued. *)
Accept(c) == /\ fate[c] = "new"
             /\ Len(queue) < Capacity
             /\ queue' = Append(queue, c)
             /\ fate' = [fate EXCEPT ![c] = "queued"]

(* cmd_enqueue_cb finds the queue full. *)
Refuse(c) == /\ fate[c] = "new"
             /\ Len(queue) = Capacity
             /\ fate' = [fate EXCEPT ![c] = "refused"]
             /\ UNCHANGED queue

(* cmd_dequeue: the oldest queued command goes to the handler. *)
Take == /\ queue # << >>
        /\ queue' = Tail(queue)
        /\ fate' = [fate EXCEPT ![Head(queue)] = "taken"]

(* cmd_drop_all: everything that is queued is given up, nothing else. *)
DropAll == /\ queue # << >>
           /\ queue' = << >>
           /\ fate' = [c \in Cmds |-> IF c \in ToSet(queue) THEN "dropped" ELSE fate[c]]

Next == \/ \E c \in Cmds : Accept(c) \/ Refuse(c)
        \/ Take
        \/ DropAll

Spec == Init /\ [][Next]_vars
===============================================================================
