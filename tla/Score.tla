------------------------------- MODULE Score --------------------------------
(***************************************************************************)
(* What a Timeline promises the beat scheduler that drives it              *)
(* (kaijutsu-hyoushigi/src/engine.rs): a position that only moves forward, *)
(* a set of open cells, and a log of settled ones.  How a cell is          *)
(* speculated, squashed and recovered is not visible here.                 *)
(***************************************************************************)
EXTENDS Integers, Sequences

VARIABLES
    now,      \* the position of the beat
    open,     \* cells not settled yet: a set of [id, start]
    log,      \* what was committed, a sequence of records with an id
    count     \* cells named so far

vars == <<now, open, log, count>>

Init == now = 0 /\ open = {} /\ log = << >> /\ count = 0

(* Old entries stay where they are; the new ones are for the cells ids. *)
LogGrows(ids) ==
    /\ Len(log') >= Len(log)
    /\ \A k \in 1..Len(log) : log'[k] = log[k]
    /\ \A k \in (Len(log) + 1)..Len(log') : log'[k].id \in ids
    /\ \A j, k \in (Len(log) + 1)..Len(log') : log'[j].id = log'[k].id => j = k

(* A cell is scheduled ahead of the beat. *)
Open ==
    /\ count' = count + 1
    /\ \E o \in open' : /\ open' = open \cup {o}
                        /\ o.id = count' /\ o.start > now
    /\ UNCHANGED <<now, log>>

(***************************************************************************)
(* A cell is settled for good: committed, or dropped.  It may leave one    *)
(* cell of its own, open or committed with it.                             *)
(***************************************************************************)
Settle ==
    \E o \in open :
        /\ count' \in {count, count + 1}
        /\ LogGrows({o.id} \cup ((count + 1)..count'))
        /\ \/ open' = open \ {o}
           \/ \E e \in open' : /\ e.id = count + 1 /\ count' = count + 1
                               /\ open' = (open \ {o}) \cup {e}
        /\ UNCHANGED now

(* The beat moves on; it never waits for a cell, so none may be in its way. *)
Beat ==
    /\ now' > now
    /\ \A o \in open : o.start > now'
    /\ UNCHANGED <<open, log, count>>

(* A log that is still empty is filled from durable history. *)
Restore ==
    /\ log = << >> /\ count' > count
    /\ LogGrows((count + 1)..count')
    /\ UNCHANGED <<now, open>>

Next == Open \/ Settle \/ Beat \/ Restore
Spec == Init /\ [][Next]_vars
=============================================================================
