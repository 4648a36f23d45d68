----------------------------- MODULE AtomicDisk ------------------------------
(***************************************************************************)
(* What the write-ahead log of xv6 (log.c) promises to a file system call: *)
(* the blocks it writes become durable together, never before every call  *)
(* that is in progress has ended, and a crash loses whole groups of calls. *)
(***************************************************************************)
CONSTANTS Proc, Home, Val

VARIABLES stable,   \* the blocks a crash leaves
          view,     \* the blocks as the running calls see them
          active    \* the processes inside a call

adVars == <<stable, view, active>>

ADInit == /\ stable \in [Home -> Val] /\ view = stable /\ active = {}

Begin(p) == active' = active \cup {p} /\ p \notin active /\ UNCHANGED <<stable, view>>

Write(p, b, v) == /\ p \in active
                  /\ view' = [view EXCEPT ![b] = v]
                  /\ UNCHANGED <<stable, active>>

End(p) == p \in active /\ active' = active \ {p} /\ UNCHANGED <<stable, view>>

Commit == active = {} /\ stable' = view /\ UNCHANGED <<view, active>>

Crash == view' = stable /\ active' = {} /\ UNCHANGED stable

ADNext == \/ \E p \in Proc : \/ Begin(p) \/ End(p)
                             \/ \E b \in Home, v \in Val : Write(p, b, v)
          \/ Commit \/ Crash

ADSpec == ADInit /\ [][ADNext]_adVars
=============================================================================
