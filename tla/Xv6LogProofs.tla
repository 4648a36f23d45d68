---------------------------- MODULE Xv6LogProofs -----------------------------
(***************************************************************************)
(* The theorems about the log, for any processes, blocks and sizes.        *)
(***************************************************************************)
EXTENDS Xv6LogInv, FiniteSetTheorems, TLAPS

\* Calls in progress can be counted.
LEMMA OpsCount ==
  ASSUME NEW S \in SUBSET Proc
  PROVE  /\ IsFiniteSet(S) /\ Cardinality(S) \in Nat
         /\ Cardinality(Proc) \in Nat /\ Cardinality(S) <= Cardinality(Proc)
         /\ Cardinality(S) = 0 <=> S = {}
BY LogAssumption, FS_Subset, FS_CardinalityType, FS_EmptySet

\* One more call, ...
LEMMA OpsAdd ==
  ASSUME NEW p \in Proc \ Ops, Ops' = Ops \cup {p}
  PROVE  Cardinality(Ops') = Cardinality(Ops) + 1
BY OpsCount, FS_AddElement, Zenon DEF Ops

\* ... and one call less.
LEMMA OpsRemove ==
  ASSUME NEW p \in Ops, Ops' = Ops \ {p}
  PROVE  Cardinality(Ops') = Cardinality(Ops) - 1
BY OpsCount, FS_RemoveElement, ZenonT(60) DEF Ops

\* wakeup(&log) sends the sleepers back to the loop of begin_op.
LEMMA Woken ==
  ASSUME TypeOK, NEW p \in Proc, pc' = wakeup([pc EXCEPT ![p] = "out"])
  PROVE  /\ pc' \in [Proc -> {"out", "asleep", "op", "commit"}]
         /\ \A q \in Proc : /\ pc'[q] # "asleep"
                            /\ pc'[q] = "op" <=> q # p /\ pc[q] = "op"
                            /\ pc'[q] = "commit" <=> q # p /\ pc[q] = "commit"
BY DEF wakeup, TypeOK

-----------------------------------------------------------------------------
\* begin_op enters, or goes to sleep when somebody will wake it.
LEMMA BeginInv ==
  ASSUME LInv, NEW p \in Proc, begin_op(p)
  PROVE  LInv'
<1> USE DEF LInv, begin_op, Up
<1>1. UNCHANGED <<disk, dlog, dhead, cache, pins, lh, committing, stage, tail, panicked>>
  BY DEF diskVars, bufVars, commitVars
<1>2. HeadInv' /\ CopyInv' /\ PinInv' /\ CleanInv'
  BY <1>1 DEF HeadInv, CopyInv, PinInv, CleanInv, Data, Pinned, Logged
<1>3. CASE NoRoom
  <2>1. pc' = [pc EXCEPT ![p] = "asleep"] /\ UNCHANGED <<outstanding, wrote>>
    BY <1>3
  <2>2. Ops' = Ops /\ \A q \in Proc : pc'[q] = "commit" <=> pc[q] = "commit"
    BY <2>1 DEF Ops, TypeOK
  <2>3. TypeOK'
    BY <1>1, <2>1 DEF TypeOK
  <2>4. outstanding > 0 \/ committing
    <3>1. Cardinality(Ops) \in Nat /\ (Cardinality(Ops) = 0 <=> Ops = {})
      BY OpsCount DEF Ops
    <3>2. CASE Ops = {} /\ ~committing
      <4>1. stage = "none"
        BY <3>2 DEF CallInv, TypeOK, Committing
      <4>2. lh = <<>> /\ outstanding = 0
        BY <3>1, <3>2, <4>1 DEF CallInv
      <4>3. QED
        BY <1>3, <4>2, LogAssumption DEF NoRoom
    <3>3. QED
      BY <3>1, <3>2 DEF CallInv
  <2>5. CallInv'
    BY <1>1, <2>1, <2>2, <2>4 DEF CallInv, SleepersHaveWaker
  <2>6. QED
    BY <1>2, <2>3, <2>5
<1>4. CASE ~NoRoom
  <2>1. /\ pc' = [pc EXCEPT ![p] = "op"] /\ outstanding' = outstanding + 1
        /\ wrote' = [wrote EXCEPT ![p] = {}] /\ ~committing
    BY <1>4 DEF NoRoom
  <2>2. /\ Ops' = Ops \cup {p} /\ p \notin Ops
        /\ \A q \in Proc : pc'[q] = "commit" <=> pc[q] = "commit"
    BY <2>1 DEF Ops, TypeOK
  <2>3. outstanding' = Cardinality(Ops') /\ outstanding' > 0
    <3>1. Cardinality(Ops) \in Nat
      BY OpsCount DEF Ops
    <3>2. Cardinality(Ops') = Cardinality(Ops) + 1
      BY <2>2, OpsAdd
    <3>3. outstanding = Cardinality(Ops)
      BY DEF CallInv
    <3>4. QED
      BY <2>1, <3>1, <3>2, <3>3
  <2>4. outstanding' \in 0 .. Cardinality(Proc)
    BY <2>3, OpsCount DEF Ops
  <2>5. TypeOK'
    BY <1>1, <2>1, <2>4 DEF TypeOK
  <2>6. CallInv'
    BY <1>1, <2>1, <2>2, <2>3 DEF CallInv, SleepersHaveWaker
  <2>7. QED
    BY <1>2, <2>5, <2>6
<1>5. QED
  BY <1>3, <1>4

\* end_op leaves, and the last to leave begins the commit.
LEMMA EndInv ==
  ASSUME LInv, NEW p \in Proc, end_op(p)
  PROVE  LInv'
<1> USE DEF LInv, end_op, Up
<1>1. UNCHANGED <<disk, dlog, dhead, cache, pins, lh, panicked>> /\ ~panicked
  BY DEF diskVars, bufVars
<1>2. stage = "none" /\ ~committing /\ p \in Ops
  BY DEF CallInv, Ops, TypeOK, Committing
<1>3. /\ Ops' = Ops \ {p} /\ outstanding' = outstanding - 1
      /\ pc' \in [Proc -> {"out", "asleep", "op", "commit"}]
  <2>1. CASE pc' = [pc EXCEPT ![p] = "commit"]
    BY <1>2, <2>1 DEF Ops, TypeOK
  <2>2. CASE pc' = wakeup([pc EXCEPT ![p] = "out"])
    BY <1>2, <2>2, Woken, Zenon DEF Ops
  <2>3. QED
    BY <2>1, <2>2
<1>4. /\ outstanding' = Cardinality(Ops') /\ outstanding' \in 0 .. Cardinality(Proc)
      /\ outstanding' = 0 <=> Ops' = {}
  <2>1. Cardinality(Ops') = Cardinality(Ops) - 1 /\ outstanding = Cardinality(Ops)
    BY <1>2, <1>3, OpsRemove, Zenon DEF CallInv
  <2>2. /\ Cardinality(Ops') \in Nat /\ Cardinality(Ops') <= Cardinality(Proc)
        /\ Cardinality(Proc) \in Nat /\ (Cardinality(Ops') = 0 <=> Ops' = {})
    BY OpsCount, Zenon DEF Ops
  <2>3. QED
    BY <1>3, <2>1, <2>2
<1>5. CASE outstanding' = 0
  <2>1. /\ committing' = TRUE /\ pc' = [pc EXCEPT ![p] = "commit"] /\ tail' = 0
        /\ stage' = IF lh = <<>> THEN "none" ELSE "write_log"
        /\ wrote' = [wrote EXCEPT ![p] = {}]
    BY <1>5, Zenon
  <2>2. TypeOK'
    BY <1>1, <1>3, <1>4, <2>1, LogAssumption DEF TypeOK
  <2>3. CallInv'
    BY <1>1, <1>2, <1>3, <1>4, <1>5, <2>1
       DEF CallInv, TypeOK, Recovery, SleepersHaveWaker, Committing
  <2>4. HeadInv' /\ CopyInv'
    BY <1>1, <1>2, <2>1 DEF HeadInv, CopyInv, TypeOK, Installing
  <2>5. PinInv' /\ CleanInv'
    BY <1>1, <1>2, <2>1 DEF PinInv, CleanInv, Pinned, Logged, Recovery
  <2>6. QED
    BY <2>2, <2>3, <2>4, <2>5
<1>6. CASE outstanding' # 0
  <2>1. /\ pc' = wakeup([pc EXCEPT ![p] = "out"]) /\ UNCHANGED <<committing, stage>>
        /\ tail' = 0 /\ wrote' = [wrote EXCEPT ![p] = {}]
    BY <1>6
  <2> HIDE DEF end_op
  <2>2. TypeOK'
    <3>1. tail' \in 0 .. LOGSIZE /\ wrote' \in [Proc -> SUBSET Home]
      BY <2>1, LogAssumption DEF TypeOK
    <3>2. QED
      BY <1>1, <1>3, <1>4, <2>1, <3>1, Zenon DEF TypeOK
  <2>3. \A q \in Proc : pc'[q] # "asleep" /\ pc'[q] # "commit"
    BY <1>2, <2>1, Woken, Zenon DEF CallInv
  <2>4. CallInv'
    BY <1>1, <1>2, <1>3, <1>4, <1>6, <2>1, <2>3, Zenon
       DEF CallInv, Recovery, SleepersHaveWaker, Committing
  <2>5. HeadInv' /\ CopyInv' /\ PinInv' /\ CleanInv'
    BY <1>1, <1>2, <2>1
       DEF HeadInv, CopyInv, PinInv, CleanInv, Pinned, Logged, Installing, Recovery
  <2>6. QED
    BY <2>2, <2>4, <2>5
<1>7. QED
  BY <1>5, <1>6

\* The end of the commit lets the calls in again.
LEMMA DoneInv ==
  ASSUME LInv, NEW p \in Proc, commit_done(p)
  PROVE  LInv'
<1> USE DEF LInv, commit_done, Up
<1>1. UNCHANGED <<disk, dlog, dhead, cache, pins, lh, outstanding, wrote, stage, tail,
                  panicked>>
  BY DEF diskVars, bufVars, commitVars
<1>2. HeadInv' /\ CopyInv' /\ PinInv' /\ CleanInv'
  BY <1>1 DEF HeadInv, CopyInv, PinInv, CleanInv, Data, Pinned, Logged
<1>3. /\ pc' \in [Proc -> {"out", "asleep", "op", "commit"}]
      /\ \A q \in Proc : /\ pc'[q] \notin {"asleep", "commit"}
                         /\ pc'[q] = "op" <=> pc[q] = "op"
  <2>1. \A q \in Proc : pc[q] = "commit" => q = p
    BY DEF CallInv
  <2>2. /\ pc[p] = "commit" /\ TypeOK /\ pc' = wakeup([pc EXCEPT ![p] = "out"])
    OBVIOUS
  <2>3. QED
    BY <2>1, <2>2, Woken, Zenon
<1>4. TypeOK'
  BY <1>1, <1>3, Zenon DEF TypeOK
<1>5. Ops' = Ops
  BY <1>3, Zenon DEF Ops
<1>6. committing' = FALSE /\ stage = "none"
  OBVIOUS
<1> HIDE DEF commit_done
<1>7. CallInv'
  BY <1>1, <1>3, <1>5, <1>6 DEF CallInv, SleepersHaveWaker, Committing, Recovery
<1>8. QED
  BY <1>2, <1>4, <1>7

\* log_write changes a buffer of the transaction, which it pins.
LEMMA WriteInv ==
  ASSUME LInv, NEW p \in Proc, NEW b \in Home, NEW v \in Val, log_write(p, b, v)
  PROVE  LInv'
<1> USE DEF LInv, log_write, Up
<1>1. /\ UNCHANGED <<disk, dlog, dhead, outstanding, committing, pc, stage, tail>>
      /\ cache' = [cache EXCEPT ![b] = v] /\ v # None /\ ~panicked
  BY LogAssumption DEF diskVars, commitVars
<1>2. stage = "none" /\ p \in Ops /\ Ops' = Ops
  BY <1>1 DEF CallInv, Ops, TypeOK, Committing
<1>3. CASE panicked'
  <2>1. UNCHANGED <<lh, pins, wrote>>
    BY <1>1, <1>3, Zenon
  <2>2. TypeOK'
    BY <1>1, <1>3, <2>1 DEF TypeOK
  <2>3. CallInv' /\ HeadInv' /\ CopyInv' /\ PinInv' /\ CleanInv'
    BY <1>1, <1>2, <1>3, <2>1 DEF CallInv, HeadInv, CopyInv, PinInv, CleanInv,
       SleepersHaveWaker, Pinned, Committing, Installing, TypeOK
  <2>4. QED
    BY <2>2, <2>3
<1>4. CASE ~panicked'
  <2>1. /\ lh' = Absorb(b) /\ wrote' = [wrote EXCEPT ![p] = @ \cup {b}]
        /\ IF lh' # lh THEN bpin(b) ELSE UNCHANGED pins
        /\ Len(lh) < LOGSIZE /\ lh \in Seq(Home) /\ Len(lh) \in Nat
        /\ panicked' = FALSE
    BY <1>4, LogAssumption DEF TypeOK
  <2> HIDE DEF log_write, Up
  <2>2. /\ lh' \in Seq(Home) /\ Len(lh') <= LOGSIZE /\ NoRepeats(lh')
        /\ \A c \in Home : (\E i \in DOMAIN lh' : lh'[i] = c) <=> Logged(c) \/ c = b
    <3>1. CASE Logged(b)
      <4>1. lh' = lh
        BY <2>1, <3>1 DEF Absorb, Logged
      <4>2. QED
        <5>1. NoRepeats(lh')
          BY <4>1 DEF HeadInv
        <5>2. \A c \in Home : (\E i \in DOMAIN lh' : lh'[i] = c) <=> Logged(c)
          BY <4>1 DEF Logged
        <5>3. QED
          BY <2>1, <3>1, <4>1, <5>1, <5>2, LogAssumption
    <3>2. CASE ~Logged(b)
      <4>1. lh' = Append(lh, b)
        BY <2>1, <3>2 DEF Absorb, Logged
      <4>2. /\ Len(lh') = Len(lh) + 1 /\ lh' \in Seq(Home) /\ lh'[Len(lh) + 1] = b
            /\ DOMAIN lh = 1 .. Len(lh) /\ DOMAIN lh' = 1 .. Len(lh) + 1
            /\ \A i \in 1 .. Len(lh) : lh'[i] = lh[i] /\ lh[i] # b
        BY <2>1, <3>2, <4>1 DEF Logged
      <4>3. \A i \in 1 .. Len(lh) + 1 : i \in 1 .. Len(lh) \/ i = Len(lh) + 1
        BY <2>1
      <4>4. NoRepeats(lh')
        BY <4>2, <4>3 DEF HeadInv, NoRepeats
      <4>5. \A c \in Home : (\E i \in DOMAIN lh' : lh'[i] = c) <=> Logged(c) \/ c = b
        BY <2>1, <4>2, <4>3 DEF Logged
      <4>6. QED
        BY <2>1, <4>2, <4>4, <4>5, LogAssumption
    <3>3. QED
      BY <3>1, <3>2, Zenon
  <2>3. \A c \in Home : (Pinned(c) <=> Logged(c)) /\ (Pinned(c)' <=> Logged(c)')
    BY <1>1, <1>2 DEF Pinned, Logged, Recovery
  <2>4. PinInv'
    <3>1. CASE Logged(b)
      <4>1. UNCHANGED <<lh, pins>>
        BY <2>1, <3>1 DEF Logged, Absorb
      <4>2. \A c \in Home : cache'[c] = cache[c] \/ cache'[c] # None
        BY <1>1 DEF TypeOK
      <4>3. \A c \in Home : Pinned(c)' <=> Pinned(c)
        BY <2>3, <4>1, Zenon DEF Logged
      <4>4. QED
        BY <4>1, <4>2, <4>3 DEF PinInv
    <3>2. CASE ~Logged(b)
      <4>1. lh' # lh
        BY <2>2, <3>2, Zenon DEF Logged
      <4>2. pins' = [pins EXCEPT ![b] = @ + 1] /\ pins[b] = 0
        BY <2>1, <2>3, <3>2, <4>1 DEF bpin, PinInv
      <4>3. /\ pins'[b] = 1 /\ cache'[b] # None
            /\ \A c \in Home \ {b} : pins'[c] = pins[c] /\ cache'[c] = cache[c]
        BY <1>1, <4>2 DEF TypeOK
      <4>4. \A c \in Home : Pinned(c)' <=> Pinned(c) \/ c = b
        BY <2>2, <2>3, Zenon DEF Logged
      <4>5. QED
        BY <4>3, <4>4 DEF PinInv
    <3>3. QED
      BY <3>1, <3>2
  <2>5. TypeOK'
    <3>1. pins' \in [Home -> Nat]
      <4>1. pins' = pins \/ pins' = [pins EXCEPT ![b] = @ + 1]
        BY <2>1 DEF bpin
      <4>2. QED
        <5>1. CASE pins' = pins
          BY <5>1, Zenon DEF TypeOK
        <5>2. CASE pins' = [pins EXCEPT ![b] = @ + 1]
          BY <5>2 DEF TypeOK
        <5>3. QED
          BY <4>1, <5>1, <5>2, Zenon
    <3>2. /\ cache' \in [Home -> Val \cup {None}] /\ wrote' \in [Proc -> SUBSET Home]
          /\ lh' \in Seq(Home) /\ Len(lh') <= LOGSIZE
      BY <1>1, <1>4, <2>1, <2>2 DEF TypeOK
    <3>3. QED
      BY <1>1, <2>1, <3>1, <3>2, Zenon DEF TypeOK
  <2>6. CallInv' /\ HeadInv' /\ CopyInv'
    <3>1. CallInv'
      BY <1>1, <1>2, <1>4 DEF CallInv, SleepersHaveWaker, Committing
    <3>2. HeadInv'
      BY <1>1, <1>2, <2>2 DEF HeadInv, Installing
    <3>3. CopyInv'
      BY <1>1, <1>2 DEF CopyInv
    <3>4. QED
      BY <3>1, <3>2, <3>3
  <2>7. CleanInv'
    BY <1>1, <1>2, <1>4, <2>2, ZenonT(60) DEF CleanInv, Logged, Recovery, TypeOK
  <2>8. QED
    BY <2>4, <2>5, <2>6, <2>7, Zenon
<1>5. QED
  BY <1>3, <1>4

-----------------------------------------------------------------------------
\* A step of the commit or of the recovery has to do with no call.
LEMMA StageCall ==
  ASSUME TypeOK, CallInv, UNCHANGED <<pc, outstanding, committing, panicked>>, stage # "none",
         \/ stage \in Committing /\ stage' \in Committing
         \/ stage \in Recovery /\ stage' \in Recovery
         \/ stage' = "none" /\ lh' = <<>>
  PROVE  CallInv' /\ ~panicked
<1>1. Ops' = Ops /\ ~panicked /\ (SleepersHaveWaker' <=> SleepersHaveWaker)
  BY DEF Ops, CallInv, SleepersHaveWaker
<1>2. QED
  BY <1>1 DEF CallInv, Committing, Recovery

\* The block at place i of the header.
LEMMA LoggedBlock ==
  ASSUME TypeOK
  PROVE  /\ DOMAIN lh = 1 .. Len(lh) /\ Len(lh) \in 0 .. LOGSIZE /\ LOGSIZE \in Nat
         /\ tail \in Nat /\ tail + 1 \in Nat
         /\ \A i \in DOMAIN lh : lh[i] \in Home /\ i \in 1 .. LOGSIZE
         /\ tail < Len(lh) => tail + 1 \in DOMAIN lh
         /\ \A i \in DOMAIN lh : i <= tail + 1 => i <= tail \/ i = tail + 1
         /\ \A i \in DOMAIN lh : i > tail /\ i # tail + 1 => i > tail + 1
BY LogAssumption, SMTT(30) DEF TypeOK

\* write_log copies a pinned buffer to the log.
LEMMA WriteLogInv ==
  ASSUME LInv, write_log
  PROVE  LInv'
<1> USE DEF LInv
<1>1. /\ UNCHANGED <<disk, dhead, pins, lh, outstanding, committing, pc, wrote, panicked>>
      /\ stage = "write_log"
  BY DEF write_log, logVars, procVars
<1>2. CASE tail < Len(lh)
  <2> DEFINE b == lh[tail + 1]
  <2>1. b \in Home /\ tail + 1 \in DOMAIN lh /\ tail + 1 \in 1 .. LOGSIZE
    BY <1>2, LoggedBlock
  <2>2. Pinned(b) /\ cache[b] # None
    BY <1>1, <2>1 DEF Pinned, PinInv, Recovery
  <2>3. /\ cache' = cache /\ dlog' = [dlog EXCEPT ![tail + 1] = Data(b)]
        /\ tail' = tail + 1 /\ stage' = stage
    BY <1>1, <1>2, <2>1, <2>2 DEF write_log, Data, TypeOK
  <2>4. Data(b) \in Val
    BY <2>1, <2>2 DEF Data, TypeOK
  <2>5. TypeOK'
    <3>1. dlog' \in [1 .. LOGSIZE -> Val] /\ tail' \in 0 .. LOGSIZE
      BY <2>1, <2>3, <2>4, LogAssumption DEF TypeOK
    <3>2. QED
      BY <1>1, <2>3, <3>1 DEF TypeOK
  <2>6. CallInv'
    BY <1>1, <2>3, StageCall DEF Committing
  <2>7. CopyInv'
    <3>1. ASSUME NEW i \in DOMAIN lh, i <= tail + 1 PROVE dlog'[i] = Data(lh[i])
      <4>1. i <= tail \/ i = tail + 1
        BY <3>1, LoggedBlock
      <4>2. i <= tail => dlog[i] = Data(lh[i]) /\ i # tail + 1
        BY <1>1, LoggedBlock DEF CopyInv
      <4>3. i \in 1 .. LOGSIZE
        BY LoggedBlock
      <4>4. QED
        BY <2>3, <4>1, <4>2, <4>3 DEF TypeOK
    <3>2. \A c : Data(c)' = Data(c)
      BY <1>1, <2>3 DEF Data
    <3>3. QED
      BY <1>1, <2>3, <3>1, <3>2 DEF CopyInv
  <2>8. HeadInv' /\ PinInv' /\ CleanInv'
    BY <1>1, <2>3 DEF HeadInv, PinInv, CleanInv, Pinned, Logged
  <2>9. QED
    BY <2>5, <2>6, <2>7, <2>8
<1>3. CASE ~(tail < Len(lh))
  <2>1. UNCHANGED <<dlog, cache>> /\ stage' = "write_head" /\ tail' = 0
    BY <1>1, <1>3 DEF write_log, Goto
  <2>2. TypeOK'
    BY <1>1, <2>1, LogAssumption DEF TypeOK
  <2>3. CallInv'
    BY <1>1, <2>1, StageCall DEF Committing
  <2>4. \A i \in DOMAIN lh : i <= tail
    BY <1>3, LoggedBlock
  <2>5. CopyInv'
    BY <1>1, <2>1, <2>4, SMTT(30) DEF CopyInv, Data
  <2>6. HeadInv' /\ PinInv' /\ CleanInv'
    BY <1>1, <2>1 DEF HeadInv, PinInv, CleanInv, Pinned, Logged, Recovery, Installing
  <2>7. QED
    BY <2>2, <2>3, <2>5, <2>6
<1>4. QED
  BY <1>2, <1>3

\* write_head makes the transaction durable, and later erases it.
LEMMA WriteHeadInv ==
  ASSUME LInv, write_head
  PROVE  LInv'
<1> USE DEF LInv
<1>1. UNCHANGED <<disk, dlog, cache, pins, outstanding, committing, pc, wrote, panicked>>
  BY DEF write_head, bufVars, procVars
<1>2. CASE stage = "write_head"
  <2>1. stage' = "install" /\ tail' = 0 /\ dhead' = lh /\ lh' = lh
    BY <1>2 DEF write_head, Goto
  <2>2. TypeOK'
    BY <1>1, <2>1, LogAssumption DEF TypeOK
  <2>3. CallInv'
    BY <1>1, <1>2, <2>1, StageCall DEF Committing
  <2>4. \A i \in DOMAIN lh : i > 0 /\ ~(i <= 0)
    BY LoggedBlock
  <2>5. HeadInv' /\ CopyInv'
    <3>1. HeadInv'
      BY <1>1, <1>2, <2>1 DEF HeadInv, NoRepeats, Installing
    <3>2. CopyInv'
      BY <1>1, <1>2, <2>1, <2>4 DEF CopyInv, Data
    <3>3. QED
      BY <3>1, <3>2
  <2>6. PinInv' /\ CleanInv'
    <3>1. PinInv'
      BY <1>1, <1>2, <2>1, <2>4 DEF PinInv, Pinned, Recovery
    <3>2. CleanInv'
      BY <1>1, <1>2, <2>1 DEF CleanInv, Logged, Recovery
    <3>3. QED
      BY <3>1, <3>2
  <2>7. QED
    BY <2>2, <2>3, <2>5, <2>6
<1>3. CASE stage \in {"clear", "r_clear"}
  <2>1. stage' = "none" /\ tail' = 0 /\ dhead' = <<>> /\ lh' = <<>>
    BY <1>3 DEF write_head, Goto
  <2>2. TypeOK'
    BY <1>1, <2>1, LogAssumption DEF TypeOK
  <2>3. CallInv' /\ ~panicked
    BY <1>1, <1>3, <2>1, StageCall
  <2>4. HeadInv' /\ CopyInv'
    BY <2>1 DEF HeadInv, NoRepeats, CopyInv, Installing
  <2>5. PinInv'
    BY <1>1, <1>3, <2>1 DEF PinInv, Pinned, Recovery
  <2>6. ASSUME NEW b \in Home PROVE cache[b] \in {None, disk[b]}
    <3>1. CASE Logged(b) /\ stage = "clear"
      <4>1. PICK i \in DOMAIN lh : lh[i] = b
        BY <3>1 DEF Logged
      <4>2. Data(b) = disk[b]
        BY <3>1, <4>1 DEF CopyInv
      <4>3. QED
        BY <4>2 DEF Data
    <3>2. CASE ~Logged(b) \/ stage = "r_clear"
      BY <2>3, <3>2 DEF CleanInv, Recovery
    <3>3. QED
      BY <1>3, <3>1, <3>2
  <2>7. CleanInv'
    BY <1>1, <2>6 DEF CleanInv
  <2>8. QED
    BY <2>2, <2>3, <2>4, <2>5, <2>7
<1>4. QED
  BY <1>2, <1>3 DEF write_head

\* install_trans puts a block in its place, and a commit then unpins it.
LEMMA InstallInv ==
  ASSUME LInv, install_trans
  PROVE  LInv'
<1> USE DEF LInv
<1>1. /\ UNCHANGED <<dlog, dhead, lh, outstanding, committing, pc, wrote, panicked>>
      /\ stage \in {"install", "r_install"}
  BY DEF install_trans, logVars, procVars
<1>2. CASE tail < Len(lh)
  <2>a. /\ lh[tail + 1] \in Home /\ tail + 1 \in DOMAIN lh
        /\ tail + 1 \in 1 .. LOGSIZE /\ dlog[tail + 1] \in Val
    BY <1>2, LoggedBlock, SMTT(30) DEF TypeOK
  <2>b. PICK b \in Home : b = lh[tail + 1]
    BY <2>a
  <2>d. PICK d \in Val : d = dlog[tail + 1]
    BY <2>a
  <2>1. /\ b \in Home /\ tail + 1 \in DOMAIN lh /\ tail + 1 \in 1 .. LOGSIZE
        /\ d \in Val /\ d # None
    BY <2>a, LogAssumption
  <2>2. /\ disk' = [disk EXCEPT ![b] = d] /\ cache' = [cache EXCEPT ![b] = d]
        /\ pins' = Unpinned(b) /\ tail' = tail + 1 /\ stage' = stage
    BY <1>1, <1>2, <2>b, <2>d DEF install_trans
  <2>3. \A i \in DOMAIN lh : lh[i] = b => i = tail + 1
    BY <2>1, <2>b DEF HeadInv, NoRepeats
  <2>4. /\ disk'[b] = d /\ cache'[b] = d
        /\ \A c \in Home \ {b} : disk'[c] = disk[c] /\ cache'[c] = cache[c]
    BY <2>1, <2>2 DEF TypeOK
  <2>5. PinInv'
    <3>1. CASE stage = "install"
      <4>1. Pinned(b) /\ ~Pinned(b)'
        <5>1. Pinned(b)
          BY <2>1, <2>b, <3>1, LoggedBlock DEF Pinned, Recovery
        <5>2. \A i \in DOMAIN lh : lh[i] = b => ~(i > tail + 1)
          BY <2>3, LoggedBlock
        <5>3. ~Pinned(b)'
          BY <1>1, <2>2, <3>1, <5>2 DEF Pinned
        <5>4. QED
          BY <5>1, <5>3
      <4>2. ASSUME NEW c \in Home \ {b} PROVE Pinned(c)' <=> Pinned(c)
        <5>1. lh[tail + 1] # c
          BY <4>2, <2>b
        <5>2. QED
          BY <1>1, <2>2, <3>1, <5>1, LoggedBlock DEF Pinned, Recovery
      <4>3. pins' = [pins EXCEPT ![b] = @ - 1]
        BY <2>2, <3>1 DEF Unpinned
      <4>4. pins[b] = 1 /\ pins'[b] = 0 /\ \A c \in Home \ {b} : pins'[c] = pins[c]
        BY <2>1, <4>1, <4>3 DEF PinInv, TypeOK
      <4>5. QED
        BY <2>1, <2>4, <4>1, <4>2, <4>4, SMTT(30) DEF PinInv
    <3>2. CASE stage = "r_install"
      BY <2>2, <3>2 DEF PinInv, Pinned, Recovery, Unpinned
    <3>3. QED
      BY <1>1, <3>1, <3>2
  <2>6. TypeOK'
    <3>1. pins' \in [Home -> Nat]
      <4>1. DOMAIN pins' = Home /\ pins' = [c \in Home |-> pins'[c]]
        BY <2>2, Zenon DEF Unpinned, TypeOK
      <4>2. \A c \in Home : pins'[c] \in Nat
        BY <2>5, SMTT(30) DEF PinInv
      <4>3. QED
        BY <4>1, <4>2
    <3>2. tail' \in 0 .. LOGSIZE
      BY <2>1, <2>2, LogAssumption
    <3>3. QED
      BY <1>1, <2>1, <2>2, <3>1, <3>2, Zenon DEF TypeOK
  <2>7. CallInv'
    BY <1>1, <2>2, StageCall DEF Committing, Recovery
  <2>8. CopyInv'
    <3>1. ASSUME NEW i \in DOMAIN lh PROVE stage = "install" => dlog[i] = Data(lh[i])'
      <4>1. CASE lh[i] = b
        BY <1>1, <2>1, <2>3, <2>4, <2>d, <4>1, SMTT(30) DEF Data
      <4>2. CASE lh[i] # b
        BY <1>1, <2>4, <4>2, LoggedBlock, SMTT(30) DEF CopyInv, Data
      <4>3. QED
        BY <4>1, <4>2
    <3>2. ASSUME NEW i \in DOMAIN lh, i <= tail + 1 PROVE disk'[lh[i]] = dlog[i]
      <4>1. CASE i = tail + 1
        BY <2>4, <2>b, <2>d, <4>1
      <4>2. CASE i <= tail
        <5>1. lh[i] \in Home \ {b}
          BY <2>3, <4>2, LoggedBlock
        <5>2. QED
          BY <1>1, <2>4, <4>2, <5>1, SMTT(30) DEF CopyInv
      <4>3. QED
        BY <3>2, <4>1, <4>2, LoggedBlock, SMTT(30)
    <3>3. QED
      BY <1>1, <2>2, <3>1, <3>2 DEF CopyInv
  <2>9. HeadInv' /\ CleanInv'
    BY <1>1, <2>1, <2>2, <2>4 DEF HeadInv, CleanInv, Logged
  <2>10. QED
    BY <2>5, <2>6, <2>7, <2>8, <2>9
<1>3. CASE ~(tail < Len(lh))
  <2>1. /\ UNCHANGED <<disk, cache, pins>> /\ tail' = 0
        /\ stage' = IF stage = "install" THEN "clear" ELSE "r_clear"
    BY <1>1, <1>3 DEF install_trans, Goto, bufVars
  <2>2. TypeOK'
    BY <1>1, <2>1, LogAssumption, SMTT(30) DEF TypeOK, Recovery
  <2>3. CallInv'
    BY <1>1, <2>1, StageCall DEF Committing, Recovery
  <2>4. \A i \in DOMAIN lh : i <= tail /\ ~(i > tail)
    BY <1>3, LoggedBlock
  <2>5. CopyInv'
    BY <1>1, <2>1, <2>4 DEF CopyInv, Data
  <2>6. HeadInv' /\ PinInv' /\ CleanInv'
    BY <1>1, <2>1, <2>4, SMTT(30)
       DEF HeadInv, PinInv, CleanInv, Pinned, Logged, Recovery, Installing
  <2>7. QED
    BY <2>2, <2>3, <2>5, <2>6
<1>4. QED
  BY <1>2, <1>3

\* The recovery begins with the header that the disk has.
LEMMA ReadHeadInv ==
  ASSUME LInv, read_head
  PROVE  LInv'
<1> USE DEF LInv
<1>1. /\ UNCHANGED <<disk, dlog, dhead, cache, pins, outstanding, committing, pc, wrote,
                     panicked>>
      /\ stage = "read_head" /\ stage' = "r_install" /\ tail' = 0 /\ lh' = dhead
  BY DEF read_head, Goto, diskVars, bufVars, procVars
<1>2. TypeOK'
  BY <1>1, LogAssumption DEF TypeOK, Recovery
<1>3. CallInv'
  BY <1>1, StageCall DEF Recovery
<1>4. HeadInv' /\ CopyInv'
  BY <1>1, SMTT(30) DEF HeadInv, CopyInv, TypeOK, Installing, NoRepeats
<1>5. PinInv' /\ CleanInv'
  BY <1>1, Zenon DEF PinInv, CleanInv, Pinned, Recovery, Logged
<1>6. QED
  BY <1>2, <1>3, <1>4, <1>5

-----------------------------------------------------------------------------
\* What a buffer that is not pinned has: the block of the disk, unless the
\* kernel has panicked.
LEMMA UnpinnedClean ==
  ASSUME LInv, NEW b \in Home, pins[b] = 0, ~panicked
  PROVE  cache[b] \in {None, disk[b]}
<1> USE DEF LInv
<1>1. ~Pinned(b)
  BY DEF PinInv
<1>2. CASE Logged(b) /\ stage \notin Recovery
  <2>1. PICK i \in DOMAIN lh : lh[i] = b
    BY <1>2 DEF Logged
  <2>2. stage = "clear" \/ (stage = "install" /\ i <= tail)
    <3>1. ~(i > tail) => i <= tail
      BY <2>1, LoggedBlock, SMTT(30)
    <3>2. ~(stage \notin Recovery \cup {"clear"} /\ (stage = "install" => i > tail))
      BY <1>1, <2>1 DEF Pinned
    <3>3. QED
      BY <1>2, <3>1, <3>2
  <2>3. Data(b) = disk[b]
    BY <2>1, <2>2 DEF CopyInv
  <2>4. QED
    BY <2>3 DEF Data
<1>3. CASE Logged(b) => stage \in Recovery
  BY <1>3 DEF CleanInv
<1>4. QED
  BY <1>2, <1>3

\* The buffer cache loads what the disk has, and drops what is not pinned.
LEMMA CacheInv ==
  ASSUME LInv, NEW b \in Home, Load(b) \/ Recycle(b)
  PROVE  LInv'
<1> USE DEF LInv
<1>1. /\ UNCHANGED <<disk, dlog, dhead, pins, lh, outstanding, committing, pc, wrote,
                     stage, tail, panicked>>
      /\ \/ cache[b] = None /\ cache' = [cache EXCEPT ![b] = disk[b]]
         \/ pins[b] = 0 /\ cache' = [cache EXCEPT ![b] = None]
  BY Zenon DEF Load, Recycle, diskVars, logVars, procVars, commitVars
<1>2. \A c \in Home \ {b} : cache'[c] = cache[c]
  BY <1>1 DEF TypeOK
<1>3. cache'[b] \in {None, disk[b]} /\ (pins[b] # 0 => cache'[b] = disk[b])
  BY <1>1 DEF TypeOK
<1>4. TypeOK' /\ CallInv' /\ HeadInv'
  <2>1. cache' \in [Home -> Val \cup {None}]
    BY <1>1, Zenon DEF TypeOK
  <2>2. QED
    <3>1. UNCHANGED <<disk, dlog, dhead, pins, lh, outstanding, committing, pc, wrote,
                      stage, tail, panicked>>
      BY <1>1, Zenon
    <3>2. TypeOK'
      BY <2>1, <3>1, Zenon DEF TypeOK
    <3>3. CallInv'
      BY <3>1, Zenon DEF CallInv, Ops, SleepersHaveWaker
    <3>4. HeadInv'
      BY <3>1, Zenon DEF HeadInv
    <3>5. QED
      BY <3>2, <3>3, <3>4
<1>5. \A c \in Home : ~panicked => Data(c)' = Data(c)
  <2>1. UNCHANGED disk /\ (cache[b] = None \/ pins[b] = 0)
    BY <1>1, Zenon
  <2>2. ~panicked => Data(b)' = Data(b)
    <3>1. ~panicked => cache[b] \in {None, disk[b]}
      BY <2>1, UnpinnedClean
    <3>2. QED
      BY <1>3, <2>1, <3>1 DEF Data
  <2>3. \A c \in Home \ {b} : Data(c)' = Data(c)
    BY <1>2, <2>1 DEF Data
  <2>4. QED
    BY <2>2, <2>3
<1>6. CopyInv'
  <2>1. stage # "none" => ~panicked
    BY DEF CallInv
  <2>2. QED
    <3>1. UNCHANGED <<disk, dlog, lh, stage, tail>>
      BY <1>1, Zenon
    <3>2. \A i \in DOMAIN lh : lh[i] \in Home
      BY LoggedBlock
    <3>3. QED
      BY <1>5, <2>1, <3>1, <3>2 DEF CopyInv
<1>7. PinInv'
  <2>1. disk[b] # None
    BY LogAssumption DEF TypeOK
  <2>2. \A c \in Home : Pinned(c)' <=> Pinned(c)
    BY <1>1 DEF Pinned
  <2>3. QED
    <3>1. UNCHANGED pins
      BY <1>1, Zenon
    <3>2. \A c \in Home : Pinned(c) => cache'[c] # None
      BY <1>2, <1>3, <2>1 DEF PinInv
    <3>3. QED
      BY <2>2, <3>1, <3>2 DEF PinInv
<1>8. CleanInv'
  BY <1>1, <1>2, <1>3, SMTT(30) DEF CleanInv, Logged
<1>9. QED
  BY <1>4, <1>6, <1>7, <1>8

\* A crash leaves nothing but the disk.
LEMMA CrashInv ==
  ASSUME LInv, Crash
  PROVE  LInv'
<1> USE DEF LInv, Crash
<1>1. Ops' = {} /\ Cardinality(Ops') = 0
  BY FS_EmptySet, Zenon DEF Ops
<1>2. TypeOK'
  <2>1. Cardinality(Proc) \in Nat /\ LOGSIZE \in Nat
    BY OpsCount, LogAssumption
  <2>2. lh' \in Seq(Home) /\ Len(lh') <= LOGSIZE /\ tail' \in 0 .. LOGSIZE
    BY <2>1
  <2>3. outstanding' \in 0 .. Cardinality(Proc)
    BY <2>1
  <2>4. QED
    BY <2>2, <2>3, Zenon DEF TypeOK, diskVars, Recovery
<1>3. CallInv'
  BY <1>1 DEF CallInv, SleepersHaveWaker, Committing, Recovery
<1>4. HeadInv' /\ CopyInv'
  BY SMTT(30) DEF HeadInv, CopyInv, NoRepeats, Installing, diskVars
<1>5. PinInv' /\ CleanInv'
  <2>1. PinInv'
    BY DEF PinInv, Pinned, Recovery
  <2>2. CleanInv'
    BY DEF CleanInv
  <2>3. QED
    BY <2>1, <2>2
<1>6. QED
  BY <1>2, <1>3, <1>4, <1>5

-----------------------------------------------------------------------------
\* The log of a new disk is empty.
LEMMA InitInv == Init => LInv
<1> SUFFICES ASSUME Init PROVE LInv
  OBVIOUS
<1> USE DEF Init
<1>1. Ops = {} /\ Cardinality(Ops) = 0
  BY FS_EmptySet, Zenon DEF Ops
<1>2. TypeOK
  <2>1. dlog \in [1 .. LOGSIZE -> Val]
    BY LogAssumption
  <2>2. Cardinality(Proc) \in Nat /\ LOGSIZE \in Nat
    BY OpsCount, LogAssumption
  <2>3. /\ lh \in Seq(Home) /\ Len(lh) <= LOGSIZE /\ tail \in 0 .. LOGSIZE
        /\ dhead \in Seq(Home) /\ Len(dhead) <= LOGSIZE
    BY <2>2
  <2>4. outstanding \in 0 .. Cardinality(Proc)
    BY <2>2
  <2>5. QED
    BY <2>1, <2>3, <2>4, Zenon DEF TypeOK, Recovery
<1>3. CallInv
  BY <1>1 DEF CallInv, SleepersHaveWaker, Committing, Recovery
<1>4. HeadInv /\ CopyInv
  BY DEF HeadInv, CopyInv, NoRepeats, Installing
<1>5. PinInv /\ CleanInv
  BY DEF PinInv, CleanInv, Pinned, Recovery
<1>6. QED
  BY <1>2, <1>3, <1>4, <1>5 DEF LInv

\* No step of the log, of the buffer cache or of the machine breaks the
\* invariant.
LEMMA NextInv == LInv /\ [Next]_vars => LInv'
<1>1. LInv /\ UNCHANGED vars => LInv'
  <2> SUFFICES ASSUME LInv, UNCHANGED vars PROVE LInv'
    OBVIOUS
  <2> USE DEF vars, volatile, LInv
  <2>1. TypeOK' /\ CallInv'
    BY Zenon DEF TypeOK, CallInv, Ops, SleepersHaveWaker
  <2>2. HeadInv' /\ CopyInv'
    BY Zenon DEF HeadInv, CopyInv, Data
  <2>3. PinInv' /\ CleanInv'
    BY Zenon DEF PinInv, CleanInv, Pinned, Logged
  <2>4. QED
    BY <2>1, <2>2, <2>3
<1>2. LInv /\ Next => LInv'
  BY BeginInv, EndInv, DoneInv, WriteInv, WriteLogInv, WriteHeadInv, InstallInv,
     ReadHeadInv, CacheInv, CrashInv DEF Next
<1>3. QED
  BY <1>1, <1>2

\* The invariant holds in calls, commits, recoveries and after every crash.
THEOREM Invariance == Spec => []LInv
BY InitInv, NextInv, PTL DEF Spec

\* The variables of the log keep their types: the header never has more than
\* LOGSIZE entries, and pins are never negative.
THEOREM TypeCorrect == Spec => []TypeOK
<1>1. LInv => TypeOK
  BY DEF LInv
<1>2. QED
  BY <1>1, Invariance, PTL

\* Nobody sleeps in begin_op without a call or a commit that will wake it.
THEOREM SleepersAreWoken == Spec => []SleepersHaveWaker
<1>1. LInv => SleepersHaveWaker
  BY DEF LInv, CallInv
<1>2. QED
  BY <1>1, Invariance, PTL

\* A buffer is pinned once while its block is in the transaction, and not after
\* install_trans: bunpin() never takes refcnt below what bpin() added.
THEOREM PinsAreExact == Spec => []PinsMatchLog
<1>1. ASSUME LInv PROVE PinsMatchLog
  <2>1. ASSUME NEW b \in Home
        PROVE  pins[b] = Cardinality({i \in DOMAIN lh :
                           /\ lh[i] = b
                           /\ stage \notin Recovery \cup {"clear"}
                           /\ stage = "install" => i > tail})
    <3> DEFINE S == {i \in DOMAIN lh : /\ lh[i] = b
                                       /\ stage \notin Recovery \cup {"clear"}
                                       /\ stage = "install" => i > tail}
    <3>1. CASE Pinned(b)
      <4>1. PICK i \in DOMAIN lh : i \in S
        BY <3>1 DEF Pinned
      <4>2. S = {i}
        BY <1>1, <4>1 DEF LInv, HeadInv, NoRepeats
      <4>3. QED
        BY <1>1, <3>1, <4>2, FS_Singleton, SMTT(30) DEF LInv, PinInv
    <3>2. CASE ~Pinned(b)
      <4>1. S = {}
        BY <3>2 DEF Pinned
      <4>2. QED
        BY <1>1, <3>2, <4>1, FS_EmptySet DEF LInv, PinInv
    <3>3. QED
      BY <3>1, <3>2
  <2>2. QED
    BY <2>1 DEF PinsMatchLog
<1>2. QED
  BY <1>1, Invariance, PTL

-----------------------------------------------------------------------------
(***************************************************************************)
(* The log implements the atomic disk.                                     *)
(***************************************************************************)

\* What the running calls see.
View == IF stage \in Recovery THEN Recovered ELSE [b \in Home |-> Data(b)]

\* A recovery puts the log blocks in the places that the header names.
LEMMA RecoveredAt ==
  ASSUME TypeOK, NoRepeats(dhead)
  PROVE  /\ Recovered \in [Home -> Val]
         /\ \A i \in DOMAIN dhead : dhead[i] \in Home /\ Recovered[dhead[i]] = dlog[i]
         /\ \A b \in Home : (\A i \in DOMAIN dhead : dhead[i] # b) => Recovered[b] = disk[b]
<1>1. \A i \in DOMAIN dhead : dhead[i] \in Home /\ i \in 1 .. LOGSIZE
  BY LogAssumption, SMTT(30) DEF TypeOK
<1>2. ASSUME NEW i \in DOMAIN dhead
      PROVE  (CHOOSE j \in DOMAIN dhead : dhead[j] = dhead[i]) = i
  BY DEF NoRepeats
<1>3. \A i \in DOMAIN dhead : Recovered[dhead[i]] = dlog[i]
  BY <1>1, <1>2 DEF Recovered
<1>4. \A b \in Home : (\A i \in DOMAIN dhead : dhead[i] # b) => Recovered[b] = disk[b]
  BY DEF Recovered
<1>5. ASSUME NEW b \in Home PROVE Recovered[b] \in Val
  <2>1. CASE \A i \in DOMAIN dhead : dhead[i] # b
    BY <1>4, <2>1, Zenon DEF TypeOK
  <2>2. ASSUME NEW i \in DOMAIN dhead, dhead[i] = b PROVE Recovered[b] \in Val
    BY <1>1, <1>3, <2>2, SMTT(30) DEF TypeOK
  <2>3. QED
    BY <2>1, <2>2
<1>6. QED
  BY <1>1, <1>3, <1>4, <1>5, Zenon DEF Recovered

\* What bread returns is the content of a block.
LEMMA DataVal ==
  ASSUME TypeOK
  PROVE  \A b \in Home : Data(b) \in Val
BY DEF TypeOK, Data

\* A step that touches neither the disk nor the cache shows the same blocks.
LEMMA SameBlocks ==
  ASSUME UNCHANGED <<disk, dlog, dhead, cache>>,
         stage' \in Recovery <=> stage \in Recovery
  PROVE  Recovered' = Recovered /\ View' = View
<1>1. Recovered' = Recovered
  BY DEF Recovered
<1>2. \A b \in Home : Data(b)' = Data(b)
  BY DEF Data
<1>3. QED
  BY <1>1, <1>2 DEF View

\* begin_op begins a call of the atomic disk, or sleeps.
LEMMA BeginStep ==
  ASSUME LInv, NEW p \in Proc, begin_op(p)
  PROVE  /\ Recovered' = Recovered /\ View' = View
         /\ Ops' = Ops \/ (p \notin Ops /\ Ops' = Ops \cup {p})
<1>1. UNCHANGED <<disk, dlog, dhead, cache, stage>>
  BY DEF begin_op, diskVars, bufVars, commitVars
<1>2. Ops' = Ops \/ (p \notin Ops /\ Ops' = Ops \cup {p})
  BY DEF begin_op, Ops, LInv, TypeOK
<1>3. QED
  BY <1>1, <1>2, SameBlocks

\* end_op ends a call.
LEMMA EndStep ==
  ASSUME LInv, NEW p \in Proc, end_op(p)
  PROVE  Recovered' = Recovered /\ View' = View /\ p \in Ops /\ Ops' = Ops \ {p}
<1>1. UNCHANGED <<disk, dlog, dhead, cache>>
  BY DEF end_op, diskVars, bufVars
<1>2. stage \notin Recovery /\ stage' \notin Recovery
  BY DEF end_op, Up, Recovery
<1>3. p \in Ops /\ Ops' = Ops \ {p}
  BY DEF end_op, Ops, LInv, TypeOK, wakeup
<1>4. QED
  BY <1>1, <1>2, <1>3, SameBlocks

\* The end of a commit in end_op shows nothing.
LEMMA DoneStep ==
  ASSUME LInv, NEW p \in Proc, commit_done(p)
  PROVE  Recovered' = Recovered /\ View' = View /\ Ops' = Ops
<1>1. UNCHANGED <<disk, dlog, dhead, cache, stage>>
  BY DEF commit_done, diskVars, bufVars, commitVars
<1>2. Ops' = Ops
  BY DEF commit_done, Ops, LInv, TypeOK, wakeup
<1>3. QED
  BY <1>1, <1>2, SameBlocks

\* log_write is seen by the calls and not by a recovery.
LEMMA WriteStep ==
  ASSUME LInv, NEW p \in Proc, NEW b \in Home, NEW v \in Val, log_write(p, b, v)
  PROVE  /\ Recovered' = Recovered /\ View' = [View EXCEPT ![b] = v]
         /\ p \in Ops /\ Ops' = Ops
<1>1. /\ UNCHANGED <<disk, dlog, dhead, stage, pc>>
      /\ cache' = [cache EXCEPT ![b] = v] /\ stage \notin Recovery /\ pc[p] = "op"
  BY Zenon DEF log_write, diskVars, commitVars, Up
<1>2. Data(b)' = v /\ \A c \in Home \ {b} : Data(c)' = Data(c)
  BY <1>1, LogAssumption, SMTT(30) DEF LInv, TypeOK, Data
<1>3. Recovered' = Recovered
  BY <1>1, SMTT(30) DEF Recovered
<1>4. View' = [View EXCEPT ![b] = v]
  BY <1>1, <1>2, Zenon DEF View
<1>5. QED
  BY <1>1, <1>3, <1>4 DEF Ops

\* Without a header on the disk, a recovery does nothing.
LEMMA NothingToRecover ==
  ASSUME TypeOK, dhead = <<>>
  PROVE  Recovered = disk
BY DEF Recovered, TypeOK

\* write_log changes what a recovery would ignore.
LEMMA WriteLogStep ==
  ASSUME LInv, LInv', write_log
  PROVE  Recovered' = Recovered /\ View' = View /\ Ops' = Ops
<1>1. /\ UNCHANGED <<disk, dhead, pc>> /\ stage = "write_log"
      /\ stage' \in {"write_log", "write_head"}
  BY DEF write_log, procVars, Goto
<1>2. dhead = <<>>
  BY <1>1 DEF LInv, HeadInv, Installing
<1>3. Recovered' = Recovered
  BY <1>1, <1>2, NothingToRecover DEF LInv, Recovered
<1>4. \A b \in Home : Data(b)' = Data(b)
  <2>1. CASE tail < Len(lh)
    <3>1. lh[tail + 1] \in Home
      BY <2>1, LoggedBlock DEF LInv
    <3>2. disk' = disk /\ cache' = [cache EXCEPT ![lh[tail + 1]] = Data(lh[tail + 1])]
      BY <1>1, <2>1 DEF write_log
    <3>3. Data(lh[tail + 1]) # None
      BY <3>1, DataVal, LogAssumption DEF LInv
    <3>4. PICK c \in Home : c = lh[tail + 1]
      BY <3>1
    <3>5. cache \in [Home -> Val \cup {None}]
      BY DEF LInv, TypeOK
    <3>6. QED
      BY <3>2, <3>3, <3>4, <3>5 DEF Data
  <2>2. CASE ~(tail < Len(lh))
    BY <2>2, <1>1 DEF write_log, Data
  <2>3. QED
    BY <2>1, <2>2
<1>5. View' = View
  BY <1>1, <1>4 DEF View, Recovery
<1>6. QED
  BY <1>1, <1>3, <1>5 DEF Ops

\* The write of the header is the commit: from then on a recovery gives what
\* the calls have seen.  Erasing it again changes nothing.
LEMMA WriteHeadStep ==
  ASSUME LInv, LInv', write_head
  PROVE  /\ View' = View /\ Ops' = Ops
         /\ Recovered' = Recovered \/ (Recovered' = View /\ Ops = {})
<1> USE DEF LInv
<1>1. UNCHANGED <<disk, dlog, cache, pc>>
  BY DEF write_head, bufVars, procVars
<1>2. Ops' = Ops /\ \A b \in Home : Data(b)' = Data(b)
  BY <1>1 DEF Ops, Data
<1>3. CASE stage = "write_head"
  <2>1. stage' = "install" /\ dhead' = lh /\ lh' = lh
    BY <1>3 DEF write_head, Goto
  <2>2. Ops = {} /\ ~panicked
    BY <1>3 DEF CallInv, Committing
  <2>3. View' = View /\ View = [b \in Home |-> Data(b)]
    BY <1>2, <1>3, <2>1 DEF View, Recovery
  <2>4. Recovered' = [b \in Home |->
                        IF \E i \in DOMAIN lh : lh[i] = b
                        THEN dlog[CHOOSE i \in DOMAIN lh : lh[i] = b] ELSE disk[b]]
    BY <1>1, <2>1, SMTT(30) DEF Recovered
  <2>5. ASSUME NEW b \in Home PROVE Recovered'[b] = Data(b)
    <3>1. CASE \A i \in DOMAIN lh : lh[i] # b
      <4>1. Recovered'[b] = disk[b]
        BY <1>1, <2>1, <2>4, <3>1
      <4>2. cache[b] \in {None, disk[b]}
        BY <2>2, <3>1 DEF CleanInv, Logged
      <4>3. QED
        BY <4>1, <4>2 DEF Data
    <3>2. ASSUME NEW i \in DOMAIN lh, lh[i] = b PROVE Recovered'[b] = Data(b)
      <4>1. (CHOOSE j \in DOMAIN lh : lh[j] = b) = i
        BY <3>2, SMTT(30) DEF HeadInv, NoRepeats
      <4>2. Recovered'[b] = dlog[i]
        BY <2>4, <3>2, <4>1
      <4>3. QED
        <5>1. dlog[i] = Data(lh[i])
          BY <1>3, <3>2 DEF CopyInv
        <5>2. QED
          BY <3>2, <4>2, <5>1
    <3>3. QED
      BY <3>1, <3>2
  <2>6. Recovered' = View
    BY <2>3, <2>4, <2>5
  <2>7. QED
    BY <1>2, <2>2, <2>3, <2>6
<1>4. CASE stage \in {"clear", "r_clear"}
  <2>1. stage' = "none" /\ dhead' = <<>>
    BY <1>4 DEF write_head, Goto
  <2>2. Recovered' = disk
    BY <1>1, <2>1, SMTT(30) DEF Recovered, TypeOK
  <2>3. Recovered = disk
    <3>1. ASSUME NEW b \in Home PROVE Recovered[b] = disk[b]
      <4>1. dhead = lh /\ NoRepeats(dhead)
        BY <1>4 DEF HeadInv, Installing
      <4>2. \A i \in DOMAIN lh : dlog[i] = disk[lh[i]]
        BY <1>4, SMTT(30) DEF CopyInv
      <4>3. QED
        <5>1. CASE \A i \in DOMAIN lh : lh[i] # b
          BY <4>1, <5>1, RecoveredAt
        <5>2. CASE \E i \in DOMAIN lh : lh[i] = b
          BY <4>1, <4>2, <5>2, RecoveredAt
        <5>3. QED
          BY <5>1, <5>2, Zenon
    <3>2. disk \in [Home -> Val]
      BY DEF TypeOK
    <3>3. Recovered = [b \in Home |-> Recovered[b]]
      BY Zenon DEF Recovered
    <3>4. QED
      BY <3>1, <3>2, <3>3
  <2>4. View' = [b \in Home |-> Data(b)]
    BY <1>2, <2>1 DEF View, Recovery
  <2>5. CASE stage = "clear"
    BY <1>2, <2>2, <2>3, <2>4, <2>5 DEF View, Recovery
  <2>6. CASE stage = "r_clear"
    <3>1. \A b \in Home : cache[b] \in {None, disk[b]}
      BY <2>6, SMTT(30) DEF CleanInv, CallInv, Recovery
    <3>2. \A b \in Home : Data(b) = disk[b]
      BY <3>1 DEF Data
    <3>3. View' = disk
      BY <2>4, <3>2, SMTT(30) DEF TypeOK
    <3>4. View = disk
      BY <2>3, <2>6 DEF View, Recovery
    <3>5. QED
      BY <1>2, <2>2, <2>3, <3>3, <3>4
  <2>7. QED
    BY <1>4, <2>5, <2>6
<1>5. QED
  BY <1>3, <1>4 DEF write_head

\* install_trans puts in its place what a recovery would put there.
LEMMA InstallStep ==
  ASSUME LInv, LInv', install_trans
  PROVE  Recovered' = Recovered /\ View' = View /\ Ops' = Ops
<1>0. TypeOK /\ HeadInv /\ CopyInv
  BY DEF LInv
<1>1. /\ UNCHANGED <<dlog, dhead, lh, pc>> /\ stage \in {"install", "r_install"}
      /\ stage' \in Recovery <=> stage \in Recovery
  BY DEF install_trans, logVars, procVars, Goto, Recovery
<1>2. Ops' = Ops
  BY <1>1 DEF Ops
<1>3. CASE tail < Len(lh)
  <2>0. /\ lh[tail + 1] \in Home /\ tail + 1 \in DOMAIN lh
        /\ tail + 1 \in 1 .. LOGSIZE
    BY <1>0, <1>3, LoggedBlock, Zenon
  <2>1. dlog[tail + 1] \in Val
    <3>1. dlog \in [1 .. LOGSIZE -> Val]
      BY <1>0, Zenon DEF TypeOK
    <3>2. QED
      BY <2>0, <3>1, Zenon
  <2>2. PICK b \in Home : b = lh[tail + 1]
    BY <2>0
  <2>3. PICK d \in Val : d = dlog[tail + 1]
    BY <2>1
  <2>4. disk' = [disk EXCEPT ![b] = d] /\ cache' = [cache EXCEPT ![b] = d]
    BY <1>1, <1>3, <2>2, <2>3 DEF install_trans
  <2>5. /\ disk'[b] = d /\ cache'[b] = d /\ d # None
        /\ \A c \in Home \ {b} : disk'[c] = disk[c] /\ cache'[c] = cache[c]
    BY <1>0, <2>4, LogAssumption, SMTT(30) DEF TypeOK
  <2>6. dhead = lh /\ \E i \in DOMAIN dhead : dhead[i] = b
    BY <1>0, <1>1, <2>0, <2>2, SMTT(30) DEF HeadInv, Installing
  <2>7. Recovered' = Recovered
    <3>1. \A c \in Home : (\E i \in DOMAIN dhead : dhead[i] = c) \/ disk'[c] = disk[c]
      BY <2>5, <2>6, Zenon
    <3>2. QED
      BY <1>1, <3>1 DEF Recovered
  <2>8. CASE stage = "install"
    <3>1. Data(b) = d
      <4>1. PICK i \in DOMAIN lh : i = tail + 1
        BY <2>0
      <4>2. dlog[i] = Data(lh[i])
        BY <1>0, <2>8 DEF CopyInv
      <4>3. QED
        BY <2>2, <2>3, <4>1, <4>2
    <3>2. \A c \in Home : Data(c)' = Data(c)
      BY <2>5, <3>1, SMTT(30) DEF Data
    <3>3. QED
      BY <1>1, <1>2, <2>7, <3>2 DEF View
  <2>9. CASE stage = "r_install"
    BY <1>1, <1>2, <2>7, <2>9 DEF View, Recovery
  <2>10. QED
    BY <1>1, <2>8, <2>9
<1>4. CASE ~(tail < Len(lh))
  <2>1. UNCHANGED <<disk, cache>>
    BY <1>4 DEF install_trans, bufVars
  <2>2. QED
    BY <1>0, <1>1, <1>2, <2>1, SameBlocks
<1>5. QED
  BY <1>3, <1>4

\* Reading the header shows nothing.
LEMMA ReadHeadStep ==
  ASSUME LInv, read_head
  PROVE  Recovered' = Recovered /\ View' = View /\ Ops' = Ops
<1>1. /\ UNCHANGED <<disk, dlog, dhead, cache, pc>>
      /\ stage \in Recovery /\ stage' \in Recovery
  BY DEF read_head, diskVars, bufVars, procVars, Goto, Recovery
<1>2. QED
  BY <1>1, SameBlocks DEF Ops

\* The cache shows what the disk has.  After a panic in log_write it may drop a
\* buffer that the transaction does not have: as if the call, which never
\* returns, had written the old content back.
LEMMA CacheStep ==
  ASSUME LInv, NEW b \in Home, Load(b) \/ Recycle(b)
  PROVE  /\ Recovered' = Recovered /\ Ops' = Ops
         /\ View' = View \/ (Ops # {} /\ View' = [View EXCEPT ![b] = disk[b]])
<1> USE DEF LInv
<1>0. UNCHANGED <<disk, dlog, dhead, pc, stage, pins, panicked>>
  BY Zenon DEF Load, Recycle, diskVars, procVars, commitVars
<1>1. \/ cache[b] = None /\ cache' = [cache EXCEPT ![b] = disk[b]]
      \/ pins[b] = 0 /\ cache' = [cache EXCEPT ![b] = None]
  BY Zenon DEF Load, Recycle
<1>2. \A c \in Home \ {b} : Data(c)' = Data(c)
  <2>1. \A c \in Home \ {b} : cache'[c] = cache[c]
    BY <1>1 DEF TypeOK
  <2>2. QED
    BY <1>0, <2>1 DEF Data
<1>3. Data(b)' = disk[b]
  BY <1>0, <1>1, SMTT(30) DEF TypeOK, Data
<1>4. Recovered' = Recovered /\ Ops' = Ops
  BY <1>0, Zenon DEF Recovered, Ops
<1>5. CASE stage \in Recovery
  BY <1>0, <1>4, <1>5 DEF View
<1>6. CASE stage \notin Recovery /\ ~panicked
  <2>1. Data(b) = disk[b]
    BY <1>1, <1>6, UnpinnedClean, SMTT(30) DEF Data
  <2>2. QED
    BY <1>0, <1>2, <1>3, <1>4, <1>6, <2>1, SMTT(30) DEF View
<1>7. CASE stage \notin Recovery /\ panicked
  <2>1. Ops # {}
    BY <1>7 DEF CallInv
  <2>2. View = [c \in Home |-> Data(c)] /\ View' = [c \in Home |-> Data(c)']
    BY <1>0, <1>7, SMTT(30) DEF View
  <2>3. View' = [View EXCEPT ![b] = disk[b]]
    BY <1>2, <1>3, <2>2
  <2>4. QED
    BY <1>4, <2>1, <2>3
<1>8. QED
  BY <1>5, <1>6, <1>7

\* A crash leaves the calls with what a recovery gives.
LEMMA CrashStep ==
  ASSUME LInv, Crash
  PROVE  Recovered' = Recovered /\ View' = Recovered /\ Ops' = {}
<1>1. /\ UNCHANGED <<disk, dlog, dhead>>
      /\ stage' \in Recovery /\ \A p \in Proc : pc'[p] = "out"
  BY DEF Crash, diskVars, Recovery
<1>2. Recovered' = Recovered
  BY <1>1, Zenon DEF Recovered
<1>3. View' = Recovered
  BY <1>1, <1>2, Zenon DEF View
<1>4. QED
  BY <1>1, <1>2, <1>3 DEF Ops

\* A machine that starts shows the blocks of the disk.
LEMMA AtomicDiskInit == Init => AD!ADInit
<1> SUFFICES ASSUME Init PROVE AD!ADInit
  OBVIOUS
<1>1. TypeOK /\ dhead = <<>>
  BY InitInv DEF Init, LInv
<1>2. Recovered \in [Home -> Val]
  BY <1>1, NothingToRecover DEF TypeOK
<1>3. QED
  BY <1>2 DEF AD!ADInit, Init, Recovery

\* Every step of the log is a step of the atomic disk or shows nothing.
LEMMA AtomicDiskStep ==
  ASSUME LInv, LInv', [Next]_vars
  PROVE  [AD!ADNext]_(AD!adVars)
<1> DEFINE Same == Recovered' = Recovered /\ View' = View /\ Ops' = Ops
<1>1. Same => UNCHANGED AD!adVars
  BY SMTT(30) DEF AD!adVars, View, Ops
<1>2. ASSUME NEW p \in Proc, Recovered' = Recovered, View' = View, p \notin Ops,
             Ops' = Ops \cup {p}
      PROVE  AD!ADNext
  BY <1>2, ZenonT(30) DEF AD!ADNext, AD!Begin, View, Ops
<1>3. ASSUME NEW p \in Proc, Recovered' = Recovered, View' = View, p \in Ops,
             Ops' = Ops \ {p}
      PROVE  AD!ADNext
  BY <1>3, ZenonT(30) DEF AD!ADNext, AD!End, View, Ops
<1>4. ASSUME NEW p \in Ops, NEW b \in Home, NEW v \in Val, Recovered' = Recovered,
             View' = [View EXCEPT ![b] = v], Ops' = Ops
      PROVE  AD!ADNext
  BY <1>4, Zenon DEF AD!ADNext, AD!Write, View, Ops
<1>5. ASSUME Recovered' = View, View' = View, Ops = {}, Ops' = Ops
      PROVE  AD!ADNext
  BY <1>5, ZenonT(30) DEF AD!ADNext, AD!Commit, View, Ops
<1>6. ASSUME Recovered' = Recovered, View' = Recovered, Ops' = {}
      PROVE  AD!ADNext
  BY <1>6 DEF AD!ADNext, AD!Crash, View, Ops
<1> HIDE DEF Same
<1>7. CASE UNCHANGED vars
  BY <1>1, <1>7, SameBlocks, SMTT(30) DEF Same, vars, volatile, Ops
<1>8. ASSUME NEW p \in Proc, begin_op(p) PROVE Same \/ AD!ADNext
  BY <1>2, <1>8, BeginStep DEF Same
<1>9. ASSUME NEW p \in Proc, end_op(p) PROVE AD!ADNext
  BY <1>3, <1>9, EndStep
<1>10. ASSUME NEW p \in Proc, commit_done(p) PROVE Same
  BY <1>10, DoneStep, SMTT(30) DEF Same
<1>11. ASSUME NEW p \in Proc, NEW b \in Home, NEW v \in Val, log_write(p, b, v)
       PROVE  AD!ADNext
  BY <1>4, <1>11, WriteStep
<1>12. CASE write_log
  BY <1>1, <1>12, WriteLogStep DEF Same
<1>13. CASE write_head
  BY <1>1, <1>5, <1>13, WriteHeadStep DEF Same
<1>14. CASE install_trans
  BY <1>1, <1>14, InstallStep DEF Same
<1>15. CASE read_head
  BY <1>1, <1>15, ReadHeadStep DEF Same
<1>16. ASSUME NEW b \in Home, Load(b) \/ Recycle(b) PROVE Same \/ AD!ADNext
  <2>1. disk[b] \in Val
    BY Zenon DEF LInv, TypeOK
  <2>2. QED
    BY <1>4, <1>16, <2>1, CacheStep, SMTT(30) DEF Same
<1>17. CASE Crash
  BY <1>6, <1>17, CrashStep
<1>18. QED
  BY <1>1, <1>7, <1>8, <1>9, <1>10, <1>11, <1>12, <1>13, <1>14, <1>15, <1>16, <1>17
     DEF Next

\* The log implements the atomic disk, for any number of calls, blocks and
\* crashes: a crash at any point of a commit, of an installation or of a
\* recovery leaves the blocks as after a whole group of calls.
THEOREM AtomicDiskImplemented == Spec => ImplementsAtomicDisk
<1>1. Init /\ [][Next]_vars => AD!ADSpec
  BY Invariance, AtomicDiskInit, AtomicDiskStep, PTL DEF Spec, AD!ADSpec
<1>2. QED
  BY <1>1 DEF Spec, ImplementsAtomicDisk

=============================================================================
