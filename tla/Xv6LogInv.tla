------------------------------ MODULE Xv6LogInv ------------------------------
(***************************************************************************)
(* The inductive invariant of the log.                                     *)
(***************************************************************************)
EXTENDS Xv6Log

Ops == {p \in Proc : pc[p] = "op"}

\* The stages of a commit, and those that follow the header on the disk.
Committing == {"write_log", "write_head", "install", "clear"}
Installing == {"install", "clear", "r_install", "r_clear"}

NoRepeats(s) == \A i, j \in DOMAIN s : s[i] = s[j] => i = j
Logged(b) == \E i \in DOMAIN lh : lh[i] = b

\* Who is where: calls and a commit exclude each other, a recovery excludes
\* both, and a panic strikes only in a call.  Between a commit and the next call
\* nothing is logged.
CallInv ==
  /\ outstanding = Cardinality(Ops)
  /\ committing <=> \E p \in Proc : pc[p] = "commit"
  /\ \A p, q \in Proc : pc[p] = "commit" /\ pc[q] = "commit" => p = q
  /\ committing => Ops = {}
  /\ stage \in Committing => committing
  /\ stage \in Recovery => outstanding = 0 /\ ~committing
  /\ panicked => stage = "none" /\ Ops # {}
  /\ stage = "none" /\ Ops = {} => lh = <<>>
  /\ SleepersHaveWaker

\* The header on the disk is empty until the commit writes it, and then says
\* what log.lh says.
HeadInv ==
  /\ NoRepeats(lh) /\ NoRepeats(dhead)
  /\ stage \in Installing => dhead = lh
  /\ stage \notin Installing \cup {"read_head"} => dhead = <<>>

\* What has been copied to the log, and from the log to its place.
CopyInv == \A i \in DOMAIN lh :
  /\ \/ stage = "write_log" /\ i <= tail
     \/ stage \in {"write_head", "install", "clear"}
     => dlog[i] = Data(lh[i])
  /\ \/ stage \in {"install", "r_install"} /\ i <= tail
     \/ stage \in {"clear", "r_clear"}
     => disk[lh[i]] = dlog[i]

\* The buffers of the transaction are pinned, and so stay in the cache, until
\* they are in their place.
Pinned(b) == \E i \in DOMAIN lh : /\ lh[i] = b
                                  /\ stage \notin Recovery \cup {"clear"}
                                  /\ stage = "install" => i > tail

PinInv == \A b \in Home : /\ pins[b] = IF Pinned(b) THEN 1 ELSE 0
                          /\ Pinned(b) => cache[b] # None

\* Any other buffer has what the disk has.
CleanInv == \A b \in Home :
  ~panicked /\ (Logged(b) => stage \in Recovery) => cache[b] \in {None, disk[b]}

LInv == TypeOK /\ CallInv /\ HeadInv /\ CopyInv /\ PinInv /\ CleanInv
=============================================================================
