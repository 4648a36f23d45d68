--------------------------- MODULE LineDiscipline ---------------------------
(***************************************************************************)
(* What the console promises its readers: keys edit the last line, only    *)
(* complete lines (or a full buffer) can be read, and a reader gets the    *)
(* bytes in order, never past the end of a line.  Console.tla implements   *)
(* this with one ring and three counters.                                  *)
(***************************************************************************)
EXTENDS Integers, Sequences, SequencesExt

CONSTANTS Reader, Key, Size,
          NewLine, Eof

VARIABLES line,     \* what can be read
          edit,     \* what can still be erased
          reading,  \* who reads
          got,      \* what each reader has got
          killed

dvars == <<line, edit, reading, got, killed>>
input == <<line, edit>>

Init == /\ line = <<>> /\ edit = <<>>
        /\ reading = [p \in Reader |-> FALSE] /\ got = [p \in Reader |-> <<>>]
        /\ killed = [p \in Reader |-> FALSE]

Typed(k) ==
  /\ Len(line) + Len(edit) < Size
  /\ IF k \in {NewLine, Eof} \/ Len(line) + Len(edit) + 1 = Size
     THEN line' = line \o Append(edit, k) /\ edit' = <<>>
     ELSE edit' = Append(edit, k) /\ line' = line
  /\ UNCHANGED <<reading, got, killed>>
Erased == /\ edit # <<>> /\ edit' \in {<<>>, SubSeq(edit, 1, Len(edit) - 1)}
          /\ UNCHANGED <<line, reading, got, killed>>

ends(p) == reading' = [reading EXCEPT ![p] = FALSE]
Start(p) == /\ ~reading[p] /\ got[p] = <<>>
            /\ reading' = [reading EXCEPT ![p] = TRUE] /\ UNCHANGED <<input, got, killed>>
(* Reader p takes k bytes; the last of them may end the line, and then the *)
(* read.                                                                   *)
Take(p, k) ==
  /\ reading[p] /\ k \in DOMAIN line
  /\ \A i \in 1 .. k : line[i] # Eof /\ (line[i] = NewLine => i = k)
  /\ got' = [got EXCEPT ![p] = @ \o SubSeq(line, 1, k)]
  /\ line' = SubSeq(line, k + 1, Len(line))
  /\ ends(p) \/ (line[k] # NewLine /\ UNCHANGED reading)
  /\ UNCHANGED <<edit, killed>>
(* An end of file is used up by a read that has got nothing; it ends every *)
(* read that meets it.                                                     *)
AtEof(p) == /\ reading[p] /\ line # <<>> /\ line[1] = Eof
            /\ line' = IF got[p] = <<>> THEN Tail(line) ELSE line
            /\ ends(p) /\ UNCHANGED <<edit, got, killed>>
GiveUp(p) == reading[p] /\ killed[p] /\ ends(p) /\ UNCHANGED <<input, got, killed>>
Return(p) == /\ ~reading[p] /\ got[p] # <<>>
             /\ got' = [got EXCEPT ![p] = <<>>] /\ UNCHANGED <<input, reading, killed>>
Kill(p) == /\ ~killed[p] /\ killed' = [killed EXCEPT ![p] = TRUE]
           /\ UNCHANGED <<input, reading, got>>

Next == \/ \E k \in Key : Typed(k)
        \/ Erased
        \/ \E p \in Reader : \/ Start(p) \/ AtEof(p) \/ GiveUp(p) \/ Return(p) \/ Kill(p)
                            \/ \E k \in 1 .. Size : Take(p, k)
Spec == Init /\ [][Next]_dvars
=============================================================================
