------------------------------ MODULE RunQueues ------------------------------
(***************************************************************************)
(* What the linked table of the MLFQ scheduler stands for: a first-in      *)
(* first-out queue per level, from which the oldest process of the highest *)
(* level that has one is dispatched, and which a boost refills.            *)
(***************************************************************************)
EXTENDS Integers, Sequences, FiniteSets, SequencesExt

CONSTANTS Procs, None

VARIABLES line,        \* the processes waiting at levels 1 (highest) to 3, in order
          dispatched,  \* the process taken off its queue, or None
          limbo        \* what a boost has taken off and not yet put back

rqVars == <<line, dispatched, limbo>>

Waiting(lines) == UNION {ToSet(lines[l]) : l \in 1 .. 3}

\* Nobody waits twice, and nobody waits who is in out.
Distinct(lines, out) ==
  /\ Cardinality(Waiting(lines))
       = Len(lines[1]) + Len(lines[2]) + Len(lines[3])
  /\ Waiting(lines) \cap out = {}

RQInit == /\ \E p \in Procs, l \in 1 .. 3 :
               line = [<< <<>>, <<>>, <<>> >> EXCEPT ![l] = <<p>>]
          /\ dispatched = None /\ limbo = {}

\* Processes join at the ends; the dispatched one may stop and be among them.
Join == LET old == line
            new == line'
        IN /\ dispatched' \in {dispatched, None}
           /\ UNCHANGED limbo
           /\ \A l \in 1 .. 3 : IsPrefix(old[l], new[l])
           /\ Distinct(new, limbo \cup {dispatched'})

Dispatch ==
  /\ dispatched = None /\ limbo = {}
  /\ UNCHANGED limbo
  /\ LET old == line IN
     \E l \in 1 .. 3 :
       /\ old[l] # <<>> /\ \A h \in 1 .. l - 1 : old[h] = <<>>
       /\ dispatched' = Head(old[l])
       /\ line' = [old EXCEPT ![l] = Tail(@)]

StartBoost == /\ dispatched = None /\ limbo = {}
              /\ limbo' = Waiting(line)
              /\ line' = << <<>>, <<>>, <<>> >>
              /\ UNCHANGED dispatched

PutBack == \E p \in limbo, l \in 1 .. 3 :
             /\ limbo' = limbo \ {p}
             /\ line' = [line EXCEPT ![l] = Append(@, p)]
             /\ UNCHANGED dispatched

RQNext == Join \/ Dispatch \/ StartBoost \/ PutBack

RQSpec == RQInit /\ [][RQNext]_rqVars
=============================================================================
