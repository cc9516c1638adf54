--------------------------- MODULE LogTailProofs ---------------------------
(***************************************************************************)
(* Proofs about LogTail: what the page shows of the current run, and which *)
(* saved log file is the latest, for every size of the tail and of the     *)
(* page, and any number of runs, lines and restarts.                       *)
(***************************************************************************)
EXTENDS LogTail, SequenceTheorems, FiniteSetTheorems, WellFoundedInduction, TLAPS

LineSeq == Seq(Nat \X Nat)

(***************************************************************************)
(* Sequences of lines                                                      *)
(***************************************************************************)

(* The lines belong to run r; their numbers grow at least by one from each *)
(* to the next and leave room below n for those that follow; and up to n   *)
(* none is missing but what was dropped (up to d) or is not kept.          *)
Ordered(lines, r, n) ==
    /\ \A i \in 1..Len(lines) : lines[i][1] = r /\ lines[i][2] + (Len(lines) - i) <= n
    /\ \A i, j \in 1..Len(lines) : i < j => lines[i][2] + (j - i) <= lines[j][2]
Covers(lines, r, n, d) ==
    \A m \in 1..n : (\E i \in 1..Len(lines) : lines[i] = <<r, m>>) \/ m <= d \/ m + KeepLines <= n
Shows(lines, r, n, d) == Ordered(lines, r, n) /\ Covers(lines, r, n, d)

(* The lines of run r after the first `from`.                              *)
Section(lines, r, from) == \A i \in 1..Len(lines) : lines[i] = <<r, from + i>>

LEMMA Pairs ==
    ASSUME NEW lines \in LineSeq, NEW i \in 1..Len(lines)
    PROVE  lines[i] = <<lines[i][1], lines[i][2]>> /\ lines[i][1] \in Nat /\ lines[i][2] \in Nat
<1>1. lines[i] \in Nat \X Nat
  BY ElementOfSeq DEF LineSeq
<1> QED BY <1>1

(* Lines up to a, followed by a section that begins at or after a.         *)
LEMMA Extended ==
    ASSUME NEW pre \in LineSeq, NEW new \in LineSeq, NEW r \in Nat, NEW a \in Nat, NEW d \in Nat,
           NEW from \in Nat, a <= from, from <= a \/ from <= d,
           Shows(pre, r, a, d), Section(new, r, from)
    PROVE  Shows(pre \o new, r, from + Len(new), d)
<1> DEFINE all == pre \o new
           k == Len(pre)
           l == Len(new)
           n == from + l
<1>1. k \in Nat /\ l \in Nat
  BY LenProperties DEF LineSeq
<1>2. all \in LineSeq /\ Len(all) = k + l
      /\ \A i \in 1..(k + l) : all[i] = IF i <= k THEN pre[i] ELSE new[i - k]
  BY ConcatProperties DEF LineSeq
<1> HIDE DEF all
<1>3. ASSUME NEW i \in 1..(k + l)
      PROVE  /\ all[i][1] = r /\ all[i][2] + (k + l - i) <= n
             /\ all[i][2] \in Nat
             /\ i > k => all[i][2] = from + (i - k)
             /\ i <= k => all[i][2] + (k - i) <= a
  <2>1. CASE i <= k
    <3>1. all[i] = pre[i] /\ i \in 1..Len(pre)
      BY <1>1, <1>2, <2>1
    <3>2. pre[i][2] \in Nat
      BY <3>1, Pairs
    <3>3. pre[i][1] = r /\ pre[i][2] + (k - i) <= a
      BY <3>1 DEF Shows, Ordered
    <3>4. PICK x \in Nat : x = all[i][2]
      BY <3>1, <3>2
    <3>5. all[i][1] = r /\ x + (k - i) <= a
      BY <3>1, <3>3, <3>4
    <3>6. x + (k + l - i) <= n
      <4> HIDE DEF k, l
      <4> QED BY <1>1, <3>4, <3>5
    <3> HIDE DEF k, l, n
    <3> QED BY <1>1, <2>1, <3>4, <3>5, <3>6
  <2>2. CASE i > k
    <3>1. all[i] = new[i - k] /\ i - k \in 1..Len(new)
      BY <1>1, <1>2, <2>2
    <3>2. new[i - k] = <<r, from + (i - k)>>
      BY <3>1 DEF Section
    <3>3. all[i][1] = r /\ all[i][2] = from + (i - k)
      BY <3>1, <3>2
    <3> HIDE DEF k, l
    <3> QED BY <1>1, <2>2, <3>3
  <2> HIDE DEF k, l, n
  <2> QED BY <1>1, <2>1, <2>2
<1>4. ASSUME NEW i \in 1..(k + l), NEW j \in 1..(k + l), i < j
      PROVE  all[i][2] + (j - i) <= all[j][2]
  <2>1. CASE j <= k
    <3>1. all[i] = pre[i] /\ all[j] = pre[j] /\ i \in 1..Len(pre) /\ j \in 1..Len(pre)
      BY <1>1, <1>2, <1>4, <2>1
    <3>2. pre[i][2] + (j - i) <= pre[j][2]
      BY <1>4, <3>1 DEF Shows, Ordered
    <3> QED BY <3>1, <3>2
  <2>2. CASE j > k
    <3> HIDE DEF k, l, n
    <3> QED BY <1>1, <1>3, <1>4, <2>2
  <2> QED BY <1>1, <2>1, <2>2
<1>5. Ordered(all, r, n)
  <2> HIDE DEF k, l, n
  <2>1. \A i \in 1..Len(all) : all[i][1] = r /\ all[i][2] + (Len(all) - i) <= n
    BY <1>1, <1>2, <1>3
  <2>2. \A i, j \in 1..Len(all) : i < j => all[i][2] + (j - i) <= all[j][2]
    BY <1>2, <1>4
  <2> QED BY <2>1, <2>2 DEF Ordered
<1>6. ASSUME NEW m \in 1..n
      PROVE  (\E i \in 1..Len(all) : all[i] = <<r, m>>) \/ m <= d \/ m + KeepLines <= n
  <2>1. CASE m <= a
    <3>1. (\E i \in 1..Len(pre) : pre[i] = <<r, m>>) \/ m <= d \/ m + KeepLines <= a
      <4>1. m \in 1..a
        BY <1>1, <2>1
      <4>2. Covers(pre, r, a, d)
        BY DEF Shows
      <4> HIDE DEF k, l, n
      <4> QED BY <4>1, <4>2 DEF Covers
    <3>2. ASSUME NEW i \in 1..Len(pre), pre[i] = <<r, m>> PROVE \E j \in 1..Len(all) : all[j] = <<r, m>>
      <4>1. i \in 1..Len(all) /\ all[i] = pre[i]
        BY <1>1, <1>2
      <4> QED BY <3>2, <4>1
    <3>3. m + KeepLines <= a => m + KeepLines <= n
      BY <1>1, LogTailAssumption
    <3> QED BY <3>1, <3>2, <3>3
  <2>2. CASE m > from
    <3>1. m - from \in 1..Len(new)
      BY <1>1, <2>2
    <3>2. new[m - from] = <<r, from + (m - from)>>
      BY <3>1 DEF Section
    <3>3. k + (m - from) \in 1..Len(all) /\ all[k + (m - from)] = new[m - from]
      <4>1. PICK q \in 1..l : q = m - from
        BY <3>1
      <4> HIDE DEF k, l
      <4>2. k + q \in 1..(k + l) /\ ~(k + q <= k) /\ (k + q) - k = q
        BY <1>1, <4>1
      <4>3. all[k + q] = new[(k + q) - k]
        BY <1>2, <4>2
      <4>4. k + q \in 1..Len(all) /\ all[k + q] = new[q]
        BY <1>2, <4>2, <4>3
      <4> QED BY <4>1, <4>4
    <3>4. from + (m - from) = m
      OBVIOUS
    <3> QED BY <3>2, <3>3, <3>4
  <2>3. CASE m > a /\ m <= from
    BY <2>3
  <2> QED BY <1>1, <2>1, <2>2, <2>3
<1> QED BY <1>5, <1>6 DEF Shows, Covers, all

(* What is cut off is at least KeepLines away from the end.                *)
LEMMA Kept ==
    ASSUME NEW lines \in LineSeq, NEW r \in Nat, NEW n \in Nat, NEW d \in Nat,
           Shows(lines, r, n, d)
    PROVE  LastLines(lines) \in LineSeq /\ Shows(LastLines(lines), r, n, d)
<1> DEFINE k == Len(lines)
           first == IF k > KeepLines THEN k - KeepLines + 1 ELSE 1
           last == LastLines(lines)
<1>1. k \in Nat /\ KeepLines \in Nat /\ KeepLines > 0
  BY LenProperties, LogTailAssumption DEF LineSeq
<1>2. first \in Nat /\ first >= 1 /\ k - first + 1 \in Nat /\ (k > 0 => first <= k)
  <2> HIDE DEF k
  <2> QED BY <1>1
<1>3. last = SubSeq(lines, first, k)
  BY DEF LastLines
<1>4. \A i \in first..k : lines[i] \in Nat \X Nat
  BY <1>2, ElementOfSeq DEF LineSeq
<1> HIDE DEF k, first
<1>5. /\ last \in LineSeq
      /\ Len(last) = k - first + 1
      /\ \A i \in 1..(k - first + 1) : last[i] = lines[first + i - 1]
  <2>1. /\ SubSeq(lines, first, k) \in Seq(Nat \X Nat)
        /\ Len(SubSeq(lines, first, k)) = (IF first <= k THEN k - first + 1 ELSE 0)
        /\ \A i \in 1..(k - first + 1) : SubSeq(lines, first, k)[i] = lines[first + i - 1]
    BY <1>1, <1>2, <1>4, SubSeqProperties
  <2>2. (IF first <= k THEN k - first + 1 ELSE 0) = k - first + 1
    BY <1>1, <1>2
  <2> QED BY <1>3, <2>1, <2>2 DEF LineSeq
<1> HIDE DEF last
<1>6. ASSUME NEW i \in 1..Len(last)
      PROVE  /\ first + i - 1 \in 1..k /\ last[i] = lines[first + i - 1]
             /\ k - (first + i - 1) = Len(last) - i
  BY <1>1, <1>2, <1>5
<1>7. Ordered(last, r, n)
  <2>1. ASSUME NEW i \in 1..Len(last)
        PROVE  last[i][1] = r /\ last[i][2] + (Len(last) - i) <= n
    <3>1. lines[first + i - 1][1] = r /\ lines[first + i - 1][2] + (k - (first + i - 1)) <= n
      BY <1>6 DEF Shows, Ordered, k
    <3> QED BY <1>6, <3>1
  <2>2. ASSUME NEW i \in 1..Len(last), NEW j \in 1..Len(last), i < j
        PROVE  last[i][2] + (j - i) <= last[j][2]
    <3>1. first + i - 1 < first + j - 1 /\ (first + j - 1) - (first + i - 1) = j - i
      BY <1>2, <1>5, <2>2
    <3>2. lines[first + i - 1][2] + ((first + j - 1) - (first + i - 1)) <= lines[first + j - 1][2]
      BY <1>6, <3>1 DEF Shows, Ordered, k
    <3> QED BY <1>6, <3>1, <3>2
  <2> QED BY <2>1, <2>2 DEF Ordered
<1>8. ASSUME NEW m \in 1..n
      PROVE  (\E i \in 1..Len(last) : last[i] = <<r, m>>) \/ m <= d \/ m + KeepLines <= n
  <2>1. (\E i \in 1..k : lines[i] = <<r, m>>) \/ m <= d \/ m + KeepLines <= n
    BY DEF Shows, Covers, k
  <2>2. ASSUME NEW i \in 1..k, lines[i] = <<r, m>>
        PROVE  (\E j \in 1..Len(last) : last[j] = <<r, m>>) \/ m + KeepLines <= n
    <3>1. CASE i >= first
      <4>1. i - first + 1 \in 1..Len(last) /\ first + (i - first + 1) - 1 = i
        BY <1>1, <1>2, <1>5, <3>1
      <4>2. last[i - first + 1] = lines[i]
        BY <1>5, <4>1
      <4> QED BY <2>2, <4>1, <4>2
    <3>2. CASE i < first
      <4>1. first = k - KeepLines + 1
        BY <1>1, <3>2 DEF first
      <4>2. lines[i][2] + (k - i) <= n /\ lines[i][2] = m
        BY <2>2 DEF Shows, Ordered, k
      <4> QED BY <1>1, <3>2, <4>1, <4>2
    <3> QED BY <1>2, <3>1, <3>2
  <2> QED BY <2>1, <2>2
<1> QED BY <1>5, <1>7, <1>8 DEF Shows, Covers, last

(***************************************************************************)
(* The page                                                                *)
(***************************************************************************)

LogTyped ==
    /\ runs \in Nat /\ runSeq \in Nat /\ current \in Nat /\ dropped \in Nat /\ tailLen \in Nat
    /\ uiSeq \in Nat /\ uiNext \in Nat /\ uiLines \in LineSeq
    /\ after \in Nat /\ sameRun \in BOOLEAN /\ whole \in BOOLEAN
    /\ chunk \in [seq : Nat, next : Nat, lines : LineSeq]

(* The page never shows a run that is to come; of the current run it shows *)
(* what there is up to its offset.                                         *)
PageInv ==
    /\ uiSeq <= runSeq
    /\ uiSeq = runSeq /\ current # None =>
          uiNext <= dropped + tailLen /\ Shows(uiLines, current, uiNext, dropped)

(* The chunk of the current run begins where the page asked or, if that    *)
(* was dropped, with the first line there is.                              *)
Chunk(r) ==
    LET from == chunk.next - Len(chunk.lines)
    IN /\ chunk.next <= dropped + tailLen
       /\ after <= from /\ (from <= after \/ from <= dropped)
       /\ Section(chunk.lines, r, from)

(* A request that is answered as a whole knows whether the page showed its *)
(* run when it was asked, or is about a newer one.                         *)
PollInv ==
    /\ pollPc \in {"idle", "ask", "apply"}
    /\ pollPc # "idle" => after = IF sameRun THEN uiNext ELSE 0
    /\ pollPc = "ask" /\ ~sameRun => uiSeq < runSeq
    /\ pollPc = "apply" =>
          /\ chunk.seq <= runSeq
          /\ uiSeq <= chunk.seq /\ (~sameRun => uiSeq < chunk.seq)
          /\ chunk.seq = runSeq /\ current # None /\ (sameRun => uiSeq = runSeq) => Chunk(current)

LogInv == LogTyped /\ (whole => PageInv /\ PollInv)

(* What the tail holds from an offset on.                                  *)
LEMMA TailSection ==
    ASSUME LogTyped, NEW offset \in Nat
    PROVE  LET start == IF offset > dropped THEN offset - dropped ELSE 0
               n == IF start < tailLen THEN tailLen - start ELSE 0
           IN /\ TailFrom(offset) \in LineSeq /\ Len(TailFrom(offset)) = n
              /\ Section(TailFrom(offset), current, dropped + start)
<1> DEFINE start == IF offset > dropped THEN offset - dropped ELSE 0
           n == IF start < tailLen THEN tailLen - start ELSE 0
<1>1. start \in Nat /\ n \in Nat /\ dropped \in Nat /\ current \in Nat
  BY DEF LogTyped
<1>2. TailFrom(offset) = [i \in 1..n |-> <<current, dropped + start + i>>]
  BY DEF TailFrom
<1> HIDE DEF start, n
<1>3. \A i \in 1..n : <<current, dropped + start + i>> \in Nat \X Nat
  BY <1>1
<1>4. [i \in 1..n |-> <<current, dropped + start + i>>] \in LineSeq
  BY <1>1, <1>3 DEF LineSeq
<1>5. Len(TailFrom(offset)) = n
  BY <1>1, <1>2
<1>6. \A i \in 1..n : TailFrom(offset)[i] = <<current, dropped + start + i>>
  BY <1>2
<1> QED BY <1>2, <1>4, <1>5, <1>6 DEF Section, start, n

LEMMA Empty == /\ <<>> \in LineSeq
               /\ \A r, d : Shows(<<>>, r, 0, d)
<1>1. <<>> \in LineSeq /\ Len(<<>>) = 0
  BY EmptySeq DEF LineSeq
<1> QED BY <1>1 DEF Shows, Ordered, Covers

LEMMA LogInit == Init => LogInv
<1> SUFFICES ASSUME Init PROVE LogInv
  OBVIOUS
<1>1. LogTyped
  BY Empty DEF Init, LogTyped, EmptyChunk, None
<1>2. PageInv
  BY Empty DEF Init, PageInv
<1>3. PollInv
  BY DEF Init, PollInv
<1> QED BY <1>1, <1>2, <1>3 DEF LogInv

LEMMA AppliedTyped ==
    ASSUME LogTyped, Apply
    PROVE  uiLines' \in LineSeq
<1> DEFINE pre == IF chunk.seq = uiSeq THEN uiLines ELSE <<>>
           new == chunk.lines
<1>1. pre \in LineSeq /\ new \in LineSeq /\ uiLines' = LastLines(pre \o new)
  BY Empty DEF LogTyped, Apply
<1> HIDE DEF pre, new
<1>2. pre \o new \in LineSeq
  BY <1>1, ConcatProperties DEF LineSeq
<1>3. LastLines(pre \o new) \in LineSeq
  <2> DEFINE all == pre \o new
  <2>1. all \in Seq(Nat \X Nat) /\ Len(all) \in Nat /\ KeepLines \in Nat /\ KeepLines > 0
    BY <1>2, LenProperties, LogTailAssumption DEF LineSeq
  <2> HIDE DEF all
  <2> DEFINE first == IF Len(all) > KeepLines THEN Len(all) - KeepLines + 1 ELSE 1
  <2>2. first \in Nat /\ first >= 1 /\ LastLines(all) = SubSeq(all, first, Len(all))
    BY <2>1 DEF LastLines
  <2> HIDE DEF first
  <2>3. \A i \in first..Len(all) : all[i] \in Nat \X Nat
    BY <2>1, <2>2, ElementOfSeq
  <2>4. SubSeq(all, first, Len(all)) \in Seq(Nat \X Nat)
    BY <2>1, <2>2, <2>3, SubSeqProperties
  <2> QED BY <2>2, <2>4 DEF LineSeq, all
<1> QED BY <1>1, <1>3

(* What Apply makes of a chunk and of the lines that were there.           *)
LEMMA Applied ==
    ASSUME LogTyped, PageInv, PollInv, Apply
    PROVE  chunk.seq = runSeq /\ current # None =>
               uiNext' <= dropped + tailLen /\ Shows(uiLines', current, uiNext', dropped)
<1> DEFINE pre == IF chunk.seq = uiSeq THEN uiLines ELSE <<>>
           new == chunk.lines
           from == chunk.next - Len(new)
<1>1. /\ pre \in LineSeq /\ new \in LineSeq
      /\ current \in Nat /\ dropped \in Nat /\ tailLen \in Nat /\ after \in Nat
      /\ chunk.next \in Nat
  BY Empty DEF LogTyped
<1>2. uiLines' = LastLines(pre \o new) /\ uiNext' = chunk.next
  BY DEF Apply
<1>3. pre \o new \in LineSeq
  BY <1>1, ConcatProperties DEF LineSeq
<1>4. Len(new) \in Nat
  BY <1>1, LenProperties DEF LineSeq
<1>5. ASSUME chunk.seq = runSeq, current # None
      PROVE  /\ uiNext' <= dropped + tailLen
             /\ pre \o new \in LineSeq /\ Shows(pre \o new, current, chunk.next, dropped)
  <2>1. pollPc = "apply" /\ ~(sameRun /\ chunk.seq # uiSeq)
    BY DEF Apply
  <2>2. Chunk(current)
    BY <1>5, <2>1 DEF PollInv
  <2>3. Shows(pre, current, after, dropped)
    <3>1. CASE sameRun
      BY <1>5, <2>1, <3>1 DEF PollInv, PageInv
    <3>2. CASE ~sameRun
      <4>1. uiSeq < chunk.seq /\ uiSeq \in Nat /\ chunk.seq \in Nat /\ after = 0
        BY <2>1, <3>2 DEF PollInv, LogTyped
      <4>2. pre = <<>>
        BY <4>1
      <4> QED BY <4>1, <4>2, Empty
    <3> QED BY <3>1, <3>2
  <2>4. after <= from /\ (from <= after \/ from <= dropped) /\ Section(new, current, from)
        /\ chunk.next <= dropped + tailLen
    BY <2>2 DEF Chunk
  <2> HIDE DEF pre, new
  <2>5. from \in Nat /\ from + Len(new) = chunk.next
    BY <1>1, <1>4, <2>4
  <2> HIDE DEF from
  <2>6. Shows(pre \o new, current, from + Len(new), dropped)
    BY <1>1, <2>3, <2>4, <2>5, Extended
  <2> QED BY <1>2, <1>3, <2>4, <2>5, <2>6
<1> HIDE DEF pre, new
<1>7. ASSUME chunk.seq = runSeq, current # None
      PROVE  uiNext' <= dropped + tailLen /\ Shows(uiLines', current, uiNext', dropped)
  BY <1>1, <1>2, <1>5, <1>7, Kept
<1> QED BY <1>7

LEMMA LogStep == LogInv /\ [Next]_vars => LogInv'
<1> SUFFICES ASSUME LogInv, [Next]_vars PROVE LogInv'
  OBVIOUS
<1>0. LogTyped /\ (whole => PageInv /\ PollInv)
  BY DEF LogInv
<1> USE DEF uiVars, pollVars, runnerVars, fileVars
<1>1. ASSUME NEW s \in Stage, Start(s) PROVE LogInv'
  <2>1. LogTyped'
    BY <1>0, <1>1 DEF LogTyped, Start
  <2>2. whole' => PageInv' /\ PollInv'
    <3>1. runSeq' = runSeq + 1 /\ runSeq \in Nat /\ uiSeq \in Nat /\ chunk.seq \in Nat
      BY <1>0, <1>1 DEF LogTyped, Start
    <3>2. ASSUME whole' PROVE PageInv'
      BY <1>0, <1>1, <3>1, <3>2 DEF PageInv, Start
    <3>3. ASSUME whole' PROVE PollInv'
      BY <1>0, <1>1, <3>1, <3>3 DEF PollInv, Start
    <3> QED BY <3>2, <3>3
  <2> QED BY <2>1, <2>2 DEF LogInv
<1>2. CASE OpenLog \/ Finish \/ UNCHANGED vars
  <2>1. UNCHANGED <<whole, runs, runSeq, current, dropped, tailLen, uiVars, pollVars>>
    BY <1>2 DEF OpenLog, Finish, vars
  <2> QED BY <1>0, <2>1 DEF LogInv, LogTyped, PageInv, PollInv, Chunk
<1>3. CASE AppendLine
  <2>0. dropped \in Nat /\ tailLen \in Nat
    BY <1>0 DEF LogTyped
  <2>1. dropped' \in Nat /\ tailLen' \in Nat /\ dropped <= dropped'
    BY <1>3, <2>0 DEF AppendLine
  <2>6. dropped + tailLen <= dropped' + tailLen'
    BY <1>3, <2>0 DEF AppendLine
  <2>2. UNCHANGED <<whole, runs, runSeq, current, uiVars, pollVars>>
    BY <1>3 DEF AppendLine
  <2>3. LogTyped'
    BY <1>0, <2>1, <2>2 DEF LogTyped
  <2>4. ASSUME whole' PROVE PageInv'
    <3>1. ASSUME Shows(uiLines, current, uiNext, dropped)
          PROVE  Shows(uiLines, current, uiNext, dropped')
      <4>1. \A m \in 1..uiNext : m <= dropped => m <= dropped'
        BY <1>0, <2>1 DEF LogTyped
      <4> QED BY <3>1, <4>1 DEF Shows, Covers
    <3>2. uiNext <= dropped + tailLen => uiNext <= dropped' + tailLen'
      <4>1. uiNext \in Nat
        BY <1>0 DEF LogTyped
      <4> DEFINE b == dropped + tailLen
                 c == dropped' + tailLen'
      <4>4. b \in Int
        BY <2>0
      <4>5. c \in Int
        BY <2>1
      <4>6. b <= c
        BY <2>6
      <4>2. b \in Int /\ c \in Int /\ b <= c
        BY <4>4, <4>5, <4>6
      <4> HIDE DEF b, c
      <4>3. uiNext <= b => uiNext <= c
        BY <4>1, <4>2
      <4> QED BY <4>3 DEF b, c
    <3> QED BY <1>0, <2>2, <2>4, <3>1, <3>2 DEF PageInv
  <2>5. ASSUME whole' PROVE PollInv'
    <3>1. Chunk(current) => Chunk(current)'
      <4> DEFINE from == chunk.next - Len(chunk.lines)
                 next == chunk.next
      <4>1. next \in Nat /\ from \in Int
        <5>1. chunk.next \in Nat /\ chunk.lines \in LineSeq
          BY <1>0 DEF LogTyped
        <5>2. Len(chunk.lines) \in Nat
          BY <5>1, LenProperties DEF LineSeq
        <5> QED BY <5>1, <5>2
      <4>2. Chunk(current) <=> /\ next <= dropped + tailLen
                               /\ after <= from /\ (from <= after \/ from <= dropped)
                               /\ Section(chunk.lines, current, from)
        BY DEF Chunk
      <4>3. Chunk(current)' <=> /\ next <= dropped' + tailLen'
                                /\ after <= from /\ (from <= after \/ from <= dropped')
                                /\ Section(chunk.lines, current, from)
        BY <2>2 DEF Chunk, Section
      <4> HIDE DEF from, next
      <4>4. /\ next <= dropped + tailLen => next <= dropped' + tailLen'
            /\ from <= dropped => from <= dropped'
        <5> DEFINE b == dropped + tailLen
                   c == dropped' + tailLen'
        <5>4. b \in Int
          BY <2>0
        <5>5. c \in Int
          BY <2>1
        <5>6. b <= c
          BY <2>6
        <5>1. b \in Int /\ c \in Int /\ b <= c
          BY <5>4, <5>5, <5>6
        <5> HIDE DEF b, c
        <5>2. next <= b => next <= c
          BY <4>1, <5>1
        <5>3. from <= dropped => from <= dropped'
          BY <2>0, <2>1, <4>1
        <5> QED BY <5>2, <5>3 DEF b, c
      <4> QED BY <4>2, <4>3, <4>4
    <3> QED BY <1>0, <2>2, <2>5, <3>1 DEF PollInv
  <2> QED BY <2>3, <2>4, <2>5 DEF LogInv
<1>4. CASE ClearHistory
  BY <1>0, <1>4 DEF LogInv, LogTyped, PageInv, PollInv, ClearHistory, None
<1>5. CASE Restart
  BY <1>0, <1>5, Empty DEF LogInv, LogTyped, Restart, EmptyChunk, None
<1>6. CASE PollStatus
  <2>1. LogTyped'
    BY <1>0, <1>6 DEF LogTyped, PollStatus
  <2>2. ASSUME whole' PROVE PageInv'
    BY <1>0, <1>6, <2>2 DEF PageInv, PollStatus
  <2>3. ASSUME whole' PROVE PollInv'
    <3>1. uiSeq <= runSeq /\ uiSeq \in Nat /\ runSeq \in Nat
      BY <1>0, <1>6, <2>3 DEF LogTyped, PageInv, PollStatus
    <3>2. pollPc' = "ask" /\ UNCHANGED <<runSeq, uiVars>>
      BY <1>6 DEF PollStatus
    <3>3. CASE runSeq = uiSeq
      <4>1. sameRun' = TRUE /\ after' = uiNext
        BY <1>6, <3>3 DEF PollStatus
      <4> QED BY <3>2, <4>1 DEF PollInv
    <3>4. CASE runSeq # uiSeq
      <4>1. sameRun' = FALSE /\ after' = 0
        BY <1>6, <3>4 DEF PollStatus
      <4>2. uiSeq' < runSeq'
        BY <3>1, <3>2, <3>4
      <4> QED BY <3>2, <4>1, <4>2 DEF PollInv
    <3> QED BY <3>3, <3>4
  <2> QED BY <2>1, <2>2, <2>3 DEF LogInv
<1>7. CASE GetLogs
  <2> DEFINE start == IF after > dropped THEN after - dropped ELSE 0
             n == IF start < tailLen THEN tailLen - start ELSE 0
  <2>1. /\ TailFrom(after) \in LineSeq /\ Len(TailFrom(after)) = n
        /\ Section(TailFrom(after), current, dropped + start)
        /\ after \in Nat /\ dropped \in Nat /\ tailLen \in Nat /\ runSeq \in Nat /\ uiSeq \in Nat
    BY <1>0, TailSection DEF LogTyped
  <2>2. /\ chunk' = [seq |-> runSeq, next |-> dropped + tailLen, lines |-> TailFrom(after)]
        /\ pollPc = "ask" /\ pollPc' = "apply"
        /\ UNCHANGED <<whole, runs, runSeq, current, dropped, tailLen, uiVars, sameRun, after>>
    BY <1>7 DEF GetLogs
  <2>3. LogTyped'
    BY <1>0, <2>1, <2>2 DEF LogTyped
  <2>4. ASSUME whole' PROVE PageInv' /\ uiSeq <= runSeq
    BY <1>0, <2>2, <2>4 DEF PageInv
  <2>5. ASSUME whole' PROVE PollInv'
    <3>1. ASSUME current # None, sameRun => uiSeq = runSeq PROVE Chunk(current)'
      <4>1. after <= dropped + tailLen
        <5>1. CASE sameRun
          BY <1>0, <2>2, <2>5, <3>1, <5>1 DEF PageInv, PollInv
        <5>2. CASE ~sameRun
          BY <1>0, <2>1, <2>2, <2>5, <5>2 DEF PollInv
        <5> QED BY <5>1, <5>2
      <4> DEFINE from == dropped + tailLen - n
      <4>2. /\ from \in Nat /\ after <= from /\ (from <= after \/ from <= dropped)
            /\ (n > 0 => from = dropped + start)
        BY <2>1, <4>1
      <4>3. Section(TailFrom(after), current, from)
        <5>1. CASE n > 0
          BY <2>1, <4>2, <5>1
        <5>2. CASE ~(n > 0)
          <6>1. n = 0
            BY <2>1, <5>2
          <6> QED BY <2>1, <6>1 DEF Section
        <5> QED BY <5>1, <5>2
      <4>4. chunk'.next = dropped + tailLen /\ chunk'.lines = TailFrom(after)
            /\ chunk'.next - Len(chunk'.lines) = from
        BY <2>1, <2>2
      <4> HIDE DEF from, n, start
      <4>5. /\ chunk'.next <= dropped' + tailLen'
            /\ after' <= from /\ (from <= after' \/ from <= dropped')
            /\ Section(chunk'.lines, current', from)
        BY <2>1, <2>2, <4>2, <4>3, <4>4
      <4> QED BY <2>2, <4>4, <4>5 DEF Chunk, Section
    <3>2. uiSeq <= runSeq /\ (~sameRun => uiSeq < runSeq)
          /\ after = IF sameRun THEN uiNext ELSE 0
      BY <1>0, <2>2, <2>4, <2>5 DEF PollInv
    <3>3. chunk'.seq = runSeq /\ runSeq <= runSeq
      BY <2>1, <2>2
    <3> QED BY <2>2, <3>1, <3>2, <3>3 DEF PollInv
  <2> QED BY <2>3, <2>4, <2>5 DEF LogInv
<1>8. CASE ReadLines
  <2>1. TailFrom(after) \in LineSeq
    BY <1>0, TailSection DEF LogTyped
  <2> QED BY <1>0, <1>8, <2>1 DEF LogInv, LogTyped, ReadLines
<1>9. CASE ReadNext \/ ReadSeq
  <2>1. LogTyped'
    BY <1>0, <1>9 DEF LogTyped, ReadNext, ReadSeq
  <2>2. ~whole'
    BY <1>0, <1>9 DEF PollInv, ReadNext, ReadSeq
  <2> QED BY <2>1, <2>2 DEF LogInv
<1>10. CASE AskAgain
  <2>1. LogTyped'
    BY <1>0, <1>10 DEF LogTyped, AskAgain
  <2>2. ASSUME whole' PROVE PageInv'
    BY <1>0, <1>10, <2>2 DEF PageInv, AskAgain
  <2>3. ASSUME whole' PROVE PollInv'
    <3>1. uiSeq <= chunk.seq /\ chunk.seq <= runSeq /\ chunk.seq # uiSeq
          /\ uiSeq \in Nat /\ chunk.seq \in Nat /\ runSeq \in Nat
      BY <1>0, <1>10, <2>3 DEF LogTyped, PollInv, AskAgain
    <3> QED BY <1>10, <3>1 DEF PollInv, AskAgain
  <2> QED BY <2>1, <2>2, <2>3 DEF LogInv
<1>11. CASE Apply
  <2>0. /\ UNCHANGED <<whole, runs, runSeq, current, dropped, tailLen>>
        /\ uiSeq' = chunk.seq /\ uiNext' = chunk.next
        /\ pollPc = "apply" /\ pollPc' = "idle" /\ sameRun' = FALSE /\ after' = 0 /\ chunk' = EmptyChunk
    BY <1>11 DEF Apply
  <2>1. uiLines' \in LineSeq
    BY <1>0, <1>11, AppliedTyped
  <2>2. LogTyped'
    BY <1>0, <2>0, <2>1, Empty DEF LogTyped, EmptyChunk
  <2>3. ASSUME whole' PROVE PageInv'
    BY <1>0, <1>11, <2>0, <2>3, Applied DEF PageInv, PollInv
  <2>4. PollInv'
    BY <2>0 DEF PollInv
  <2> QED BY <2>2, <2>3, <2>4 DEF LogInv
<1> QED BY <1>1, <1>2, <1>3, <1>4, <1>5, <1>6, <1>7, <1>8, <1>9, <1>10, <1>11 DEF Next, Poll

(* The tail holds the lines of the current run that were not dropped, and  *)
(* the page and the request it waits for fit to it (runner.py:102).        *)
THEOREM LogCorrect == Spec => []LogInv
BY LogInit, LogStep, PTL DEF Spec

(* What the page shows of the current run is in order, each line once, and *)
(* nothing is missing that it could know of (app.js:79-108), as long as    *)
(* requests are answered as a whole and the server is not restarted.       *)
THEOREM PageIsComplete == Spec => []LogIsComplete
<1>1. LogInv => LogIsComplete
  <2> SUFFICES ASSUME LogInv, whole, uiSeq = runSeq, current # None
               PROVE  /\ \A i \in DOMAIN uiLines : uiLines[i][1] = current
                      /\ \A i \in 2..Len(uiLines) : uiLines[i - 1][2] < uiLines[i][2]
                      /\ \A n \in 1..uiNext :
                            \/ <<current, n>> \in ToSet(uiLines)
                            \/ n <= dropped
                            \/ n + KeepLines <= uiNext
    BY DEF LogIsComplete
  <2>1. uiLines \in LineSeq /\ Shows(uiLines, current, uiNext, dropped)
    BY DEF LogInv, LogTyped, PageInv
  <2>2. DOMAIN uiLines = 1..Len(uiLines) /\ Len(uiLines) \in Nat
    BY <2>1, LenProperties DEF LineSeq
  <2>3. \A i \in DOMAIN uiLines : uiLines[i][1] = current
    BY <2>1, <2>2 DEF Shows, Ordered
  <2>4. ASSUME NEW i \in 2..Len(uiLines) PROVE uiLines[i - 1][2] < uiLines[i][2]
    <3>1. i - 1 \in 1..Len(uiLines) /\ i \in 1..Len(uiLines) /\ i - 1 < i /\ i - (i - 1) = 1
      BY <2>2
    <3>2. uiLines[i - 1][2] + (i - (i - 1)) <= uiLines[i][2]
      BY <2>1, <3>1 DEF Shows, Ordered
    <3>3. uiLines[i - 1][2] \in Nat /\ uiLines[i][2] \in Nat
      BY <2>1, <3>1, Pairs
    <3> QED BY <3>1, <3>2, <3>3
  <2>5. \A n \in 1..uiNext : \/ <<current, n>> \in ToSet(uiLines)
                             \/ n <= dropped
                             \/ n + KeepLines <= uiNext
    BY <2>1, <2>2 DEF Shows, Covers, ToSet
  <2> QED BY <2>3, <2>4, <2>5
<1> QED BY <1>1, LogCorrect, PTL

(***************************************************************************)
(* Saved logs                                                              *)
(***************************************************************************)

(* Until the server restarts, a file bears the number of the run that      *)
(* wrote it, and no number is ahead of run_seq.                            *)
FileInv ==
    /\ runs \in Nat /\ current \in Nat /\ logFile \in [Stage -> [Run -> Nat]]
    /\ restarts \in Nat
    /\ restarts = 0 =>
          /\ runSeq = runs /\ (running => current = runs)
          /\ \A s \in Stage, q \in Run :
                logFile[s][q] = None \/ (logFile[s][q] = q /\ q <= runSeq)

LEMMA FileInit == Init => FileInv
BY DEF Init, FileInv, None

LEMMA FileStep == FileInv /\ [Next]_vars => FileInv'
<1> SUFFICES ASSUME FileInv, [Next]_vars PROVE FileInv'
  OBVIOUS
<1> USE DEF uiVars, pollVars, runnerVars, fileVars
<1>1. ASSUME NEW s \in Stage, Start(s) PROVE FileInv'
  BY <1>1 DEF FileInv, Start
<1>2. CASE OpenLog
  <2>1. current \in Nat
    BY DEF FileInv
  <2>2. /\ running /\ UNCHANGED <<runs, restarts, runSeq, current, running>>
        /\ logFile' = [logFile EXCEPT ![stageOf[current]][runSeq] = current]
        /\ runs \in Nat /\ restarts \in Nat /\ logFile \in [Stage -> [Run -> Nat]]
    BY <1>2 DEF OpenLog, FileInv
  <2>3. logFile' \in [Stage -> [Run -> Nat]]
    BY <2>1, <2>2
  <2>5. ASSUME restarts = 0, NEW s \in Stage, NEW q \in Run
        PROVE  logFile'[s][q] = None \/ (logFile'[s][q] = q /\ q <= runSeq')
    <3>1. /\ current = runSeq /\ runSeq' = runSeq /\ runSeq \in Nat
          /\ logFile[s][q] = None \/ (logFile[s][q] = q /\ q <= runSeq)
      BY <2>2, <2>5 DEF FileInv
    <3>2. logFile'[s][q] = IF s = stageOf[current] /\ q = runSeq THEN current ELSE logFile[s][q]
      BY <2>2
    <3> QED BY <3>1, <3>2
  <2> QED BY <2>2, <2>3, <2>5 DEF FileInv
<1>3. CASE AppendLine
  BY <1>3 DEF FileInv, AppendLine
<1>4. CASE Finish \/ ClearHistory
  BY <1>4 DEF FileInv, Finish, ClearHistory, None
<1>5. CASE Restart
  BY <1>5 DEF FileInv, Restart, None
<1>6. CASE Poll \/ UNCHANGED vars
  <2>1. UNCHANGED <<runs, logFile, restarts, runSeq, running, current>>
    BY <1>6 DEF Poll, PollStatus, GetLogs, ReadLines, ReadNext, ReadSeq, AskAgain, Apply, vars
  <2> QED BY <2>1 DEF FileInv
<1> QED BY <1>1, <1>2, <1>3, <1>4, <1>5, <1>6 DEF Next

LEMMA Greatest ==
    ASSUME NEW n \in Nat, NEW F \in SUBSET (1..n), F # {}
    PROVE  \E x \in F : \A y \in F : y <= x
<1> DEFINE Above(x) == {z \in 1..n : z >= x}
           R == StrictSubsetOrdering(1..n)
           X == {Above(x) : x \in F}
<1>1. IsFiniteSet(1..n)
  BY FS_Interval
<1>2. IsWellFoundedOn(R, SUBSET (1..n))
  BY <1>1, FS_StrictSubsetOrderingWellFounded, FS_FiniteSubsetsOfFinite
<1>3. X \subseteq SUBSET (1..n) /\ X # {}
  OBVIOUS
<1> HIDE DEF R
<1>4. PICK S \in X : \A T \in X : ~ (<<T, S>> \in R)
  <2> HIDE DEF X
  <2> QED BY <1>2, <1>3, WFMin
<1>5. PICK x \in F : S = Above(x)
  BY <1>4
<1>6. ASSUME NEW y \in F, ~(y <= x) PROVE FALSE
  <2>1. x \in 1..n /\ y \in 1..n /\ x < y
    BY <1>6
  <2>2. Above(y) \subseteq Above(x) /\ x \in Above(x) /\ x \notin Above(y)
    BY <2>1
  <2>3. Above(y) \in X /\ Above(x) \in X
    OBVIOUS
  <2> HIDE DEF Above
  <2>4. <<Above(y), Above(x)>> \in R
    BY <1>3, <2>2, <2>3 DEF R, StrictSubsetOrdering
  <2> QED BY <1>4, <1>5, <2>3, <2>4
<1> QED BY <1>6

(* The log file shown for a stage is that of its latest run which wrote    *)
(* one (runner.py:111), as long as the server has not been restarted and   *)
(* its run numbers fit into the padding: then names sort as numbers.       *)
THEOREM SavedIsLatest == Spec => []SavedLogIsLatest
<1>1. FileInv => SavedLogIsLatest
  <2> SUFFICES ASSUME FileInv, restarts = 0, runSeq < Padded, NEW s \in Stage, NEW r \in Run,
                      NEW q \in Run, logFile[s][q] = r
               PROVE  SavedLog(s) >= r
    BY DEF SavedLogIsLatest
  <2> DEFINE files == {f \in Run : logFile[s][f] # None}
             x == CHOOSE f \in files : \A g \in files : SortsUpTo(g, f)
  <2>1. \A f \in Run : logFile[s][f] = None \/ (logFile[s][f] = f /\ f <= runSeq)
    BY DEF FileInv
  <2>2. q = r /\ r \in files /\ files \in SUBSET Run
    BY <2>1 DEF Run, None
  <2>3. \A f, g \in files : SortsUpTo(g, f) <=> g <= f
    <3> SUFFICES ASSUME NEW f \in files, NEW g \in files PROVE SortsUpTo(g, f) <=> g <= f
      OBVIOUS
    <3>1. f \in Nat /\ g \in Nat /\ f < Padded /\ g < Padded
      <4>1. f \in Nat /\ g \in Nat /\ f <= runSeq /\ g <= runSeq
        BY <2>1 DEF Run
      <4>2. runSeq \in Nat /\ Padded \in Nat
        BY LogTailAssumption DEF FileInv
      <4> HIDE DEF files
      <4> QED BY <4>1, <4>2
    <3>2. Padded \in Nat /\ ~(f >= Padded) /\ ~(g >= Padded)
      BY <3>1, LogTailAssumption
    <3> QED BY <3>1, <3>2 DEF SortsUpTo
  <2>4. \E f \in files : \A g \in files : g <= f
    <3> HIDE DEF files
    <3>1. MaxRuns \in Nat /\ files \in SUBSET (1..MaxRuns) /\ files # {}
      BY <2>2, LogTailAssumption DEF Run
    <3> QED BY <3>1, Greatest
  <2>5. \E f \in files : \A g \in files : SortsUpTo(g, f)
    <3> HIDE DEF files
    <3> QED BY <2>3, <2>4
  <2>6. x \in files /\ \A g \in files : g <= x
    <3> HIDE DEF files
    <3>1. x \in files /\ \A g \in files : SortsUpTo(g, x)
      BY <2>5
    <3> QED BY <2>3, <3>1
  <2>7. SavedLog(s) = logFile[s][x]
    BY <2>2 DEF SavedLog
  <2> HIDE DEF x
  <2>8. logFile[s][x] = x
    BY <2>1, <2>6
  <2>9. x \in Run /\ r \in Run /\ r <= x
    BY <2>2, <2>6
  <2> QED BY <2>7, <2>8, <2>9 DEF Run
<1> QED BY <1>1, FileInit, FileStep, PTL DEF Spec
=============================================================================
