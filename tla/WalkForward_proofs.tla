------------------------- MODULE WalkForward_proofs -------------------------
(***************************************************************************)
(* Proofs about WalkForward for every number of bars, splits and ratio:    *)
(* the windows follow each other, tests after training, and none of the    *)
(* bars is lost.                                                           *)
(***************************************************************************)
EXTENDS WalkForward, TLAPS

-----------------------------------------------------------------------------
(* Arithmetic of the windows. *)

LEMMA DivBounds ==
    ASSUME NEW n \in Nat, NEW d \in Nat \ {0}
    PROVE  n \div d \in Nat /\ d * (n \div d) <= n
BY SMT

LEMMA Products ==
    ASSUME NEW i \in Nat, NEW j \in Nat, NEW w \in Nat, i <= j
    PROVE  i * w \in Nat /\ j * w \in Nat /\ i * w <= j * w /\ (i + 1) * w = i * w + w
BY SMT

LEMMA SizeTypes ==
    ASSUME args \in Ranges
    PROVE  /\ args \in RangeSet /\ args.bars \in Nat /\ args.splits \in Nat /\ args.splits > 0
           /\ WindowSize \in Nat /\ TrainSize \in Nat /\ TestSize \in Int
           /\ TestSize = WindowSize - TrainSize
           /\ args.splits * WindowSize <= args.bars
<1>1. /\ args \in RangeSet /\ args.bars \in Nat /\ args.splits \in Nat \ {0}
      /\ args.num \in Nat /\ args.den \in Nat \ {0}
  BY RangesAssumption DEF RangeSet
<1>2. WindowSize \in Nat /\ args.splits * WindowSize <= args.bars
  BY <1>1, DivBounds DEF WindowSize
<1>3. WindowSize * args.num \in Nat
  BY <1>1, <1>2
<1>4. TrainSize \in Nat
  BY <1>1, <1>3, DivBounds DEF TrainSize
<1>5. QED
  BY <1>1, <1>2, <1>4 DEF TestSize

Accepted == WindowSize >= MinWindow /\ TestSize >= MinTest

\* Where split i begins and ends, and that split j begins no earlier than an earlier i ends.
LEMMA Splits ==
    ASSUME args \in Ranges, Accepted, NEW i \in 0 .. args.splits - 1
    PROVE  /\ i * WindowSize \in Nat /\ SplitEnd(i) \in Nat
           /\ i * WindowSize + WindowSize <= SplitEnd(i) /\ SplitEnd(i) <= args.bars
           /\ i < args.splits - 1 => SplitEnd(i) = (i + 1) * WindowSize
           /\ i = args.splits - 1 => SplitEnd(i) = args.bars
           /\ \A j \in i + 1 .. args.splits - 1 : SplitEnd(i) <= j * WindowSize
<1>1. args.bars \in Nat /\ args.splits \in Nat /\ WindowSize \in Nat
      /\ args.splits * WindowSize <= args.bars
  BY SizeTypes
<1>2. i \in Nat /\ i + 1 \in Nat /\ i + 1 <= args.splits
  BY <1>1
<1>3. i * WindowSize \in Nat /\ (i + 1) * WindowSize = i * WindowSize + WindowSize
      /\ (i + 1) * WindowSize <= args.splits * WindowSize
  BY <1>1, <1>2, Products
<1>4. SplitEnd(i) = IF i < args.splits - 1 THEN (i + 1) * WindowSize ELSE args.bars
  BY DEF SplitEnd
<1>5. \A j \in i + 1 .. args.splits - 1 : SplitEnd(i) <= j * WindowSize
  <2> SUFFICES ASSUME NEW j \in i + 1 .. args.splits - 1 PROVE SplitEnd(i) <= j * WindowSize
    OBVIOUS
  <2>1. j \in Nat /\ i + 1 <= j /\ i < args.splits - 1
    BY <1>1, <1>2
  <2>2. (i + 1) * WindowSize <= j * WindowSize
    BY <1>1, <1>2, <2>1, Products
  <2>3. QED
    BY <1>4, <2>1, <2>2
<1>6. i < args.splits - 1 \/ i = args.splits - 1
  BY <1>1
<1>7. QED
  BY <1>1, <1>2, <1>3, <1>4, <1>5, <1>6

\* The stretches of a split: inside it, training before test, at least MinTest to test.
LEMMA Stretches ==
    ASSUME args \in Ranges, Accepted, NEW i \in 0 .. args.splits - 1
    PROVE  /\ \A b \in Train(i) \cup Test(i) :
                 b \in 0 .. args.bars - 1 /\ i * WindowSize <= b /\ b < SplitEnd(i)
           /\ \A a \in Train(i), b \in Test(i) : a < b
           /\ \E b \in Test(i) : b + MinTest - 1 \in Test(i)
           /\ \A b \in Nat : i * WindowSize <= b /\ b < SplitEnd(i) => b \in Train(i) \cup Test(i)
           /\ Train(i) # {} <=> TrainSize > 0
<1>1. /\ i * WindowSize \in Nat /\ SplitEnd(i) \in Nat
      /\ i * WindowSize + WindowSize <= SplitEnd(i) /\ SplitEnd(i) <= args.bars
  BY Splits
<1>2. /\ args.bars \in Nat /\ WindowSize \in Nat /\ TrainSize \in Nat
      /\ WindowSize - TrainSize >= MinTest
  BY SizeTypes DEF Accepted
<1> DEFINE start == i * WindowSize
<1>3. Train(i) = start .. (start + TrainSize - 1) /\ Test(i) = (start + TrainSize) .. (SplitEnd(i) - 1)
  BY DEF Train, Test
<1> HIDE DEF start
<1>4. start \in Nat /\ start + WindowSize <= SplitEnd(i)
  BY <1>1 DEF start
<1>5. /\ \A b \in Train(i) \cup Test(i) :
            b \in 0 .. args.bars - 1 /\ start <= b /\ b < SplitEnd(i)
      /\ \A a \in Train(i), b \in Test(i) : a < b
      /\ \A b \in Nat : start <= b /\ b < SplitEnd(i) => b \in Train(i) \cup Test(i)
  BY <1>1, <1>2, <1>3, <1>4, SizesAssumption
<1>6. \E b \in Test(i) : b + MinTest - 1 \in Test(i)
  <2>1. start + TrainSize \in Test(i) /\ start + TrainSize + MinTest - 1 \in Test(i)
    BY <1>1, <1>2, <1>3, <1>4, SizesAssumption
  <2>2. QED
    BY <2>1
<1>7. Train(i) # {} <=> TrainSize > 0
  <2>1. TrainSize > 0 => start \in Train(i)
    BY <1>2, <1>3, <1>4
  <2>2. TrainSize = 0 => Train(i) = {}
    BY <1>2, <1>3, <1>4
  <2>3. QED
    BY <1>2, <2>1, <2>2
<1>8. QED
  BY <1>5, <1>6, <1>7 DEF start

-----------------------------------------------------------------------------
(* The windows computed so far are those of the splits 0, 1, ... in order.   *)

WInv ==
    /\ args \in Ranges /\ wfo.split \in 0 .. args.splits
    /\ wfo.pc \in {"load", "train", "test", "none", "done"}
    /\ wfo = [pc |-> wfo.pc, split |-> wfo.split, best |-> wfo.best, windows |-> wfo.windows]
    /\ \E S : wfo.windows \in Seq(S)
    /\ wfo.pc \in {"train", "test", "done"} => Accepted
    /\ wfo.pc = "load" => wfo.split = 0
    /\ wfo.pc = "test" => wfo.split < args.splits /\ Train(wfo.split) # {}
    /\ wfo.pc = "done" => wfo.split = args.splits /\ wfo.windows # <<>>
    /\ Len(wfo.windows) = IF wfo.pc # "none" /\ Accepted /\ TrainSize > 0 THEN wfo.split ELSE 0
    /\ \A k \in 1 .. Len(wfo.windows) :
          wfo.windows[k].train = Train(k - 1) /\ wfo.windows[k].test = Test(k - 1)

\* One more element at the end of a sequence.
LEMMA Appended ==
    ASSUME NEW S, NEW s \in Seq(S), NEW e
    PROVE  /\ Append(s, e) \in Seq(S \cup {e}) /\ Append(s, e) # <<>>
           /\ Len(s) \in Nat /\ Len(Append(s, e)) = Len(s) + 1
           /\ \A k \in 1 .. Len(s) : Append(s, e)[k] = s[k]
           /\ Append(s, e)[Len(s) + 1] = e
<1>1. s \in Seq(S \cup {e})
  BY SMT
<1>2. Append(s, e) \in Seq(S \cup {e}) /\ Len(s) \in Nat /\ Len(Append(s, e)) = Len(s) + 1
  BY <1>1
<1>3. Append(s, e)[Len(s) + 1] = e /\ \A k \in 1 .. Len(s) : Append(s, e)[k] = s[k]
  BY <1>1
<1>4. Append(s, e) # <<>>
  <2>1. Len(<<>>) = 0
    OBVIOUS
  <2>2. QED
    BY <1>2, <2>1
<1>5. QED
  BY <1>2, <1>3, <1>4

LEMMA WInit == WfoInit => WInv
<1> SUFFICES ASSUME WfoInit PROVE WInv
  OBVIOUS
<1>1. args \in Ranges /\ wfo = [pc |-> "load", split |-> 0, best |-> Default, windows |-> <<>>]
  BY DEF WfoInit
<1>2. args.splits \in Nat
  BY <1>1, SizeTypes
<1>3. wfo.windows = <<>> /\ wfo.windows \in Seq({}) /\ Len(wfo.windows) = 0 /\ wfo.split = 0
      /\ wfo.pc = "load"
  BY <1>1
<1>4. QED
  BY <1>1, <1>2, <1>3 DEF WInv

LEMMA WStep == WInv /\ [WfoNext]_wfoVars => WInv'
<1> SUFFICES ASSUME WInv, [WfoNext]_wfoVars PROVE WInv'
  OBVIOUS
<1> USE DEF WInv
<1>1. args.splits \in Nat /\ args.splits > 0 /\ TrainSize \in Nat
  BY SizeTypes
<1>2. PICK S : wfo.windows \in Seq(S)
  OBVIOUS
<1> DEFINE Same == /\ args' = args /\ WindowSize' = WindowSize /\ TrainSize' = TrainSize
                   /\ TestSize' = TestSize /\ Accepted' = Accepted
                   /\ \A i : Train(i)' = Train(i) /\ Test(i)' = Test(i)
<1>3. ASSUME args' = args PROVE Same
  BY <1>3 DEF WindowSize, TrainSize, TestSize, Accepted, Train, Test, SplitEnd
<1> HIDE DEF Same
<1>4. CASE Refuse
  <2>1. Same /\ wfo' = [wfo EXCEPT !.pc = "none"] /\ wfo.pc = "load" /\ wfo.split = 0
    BY <1>3, <1>4 DEF Refuse
  <2>2. wfo'.pc = "none" /\ wfo'.windows = wfo.windows /\ wfo'.split = 0 /\ Len(wfo.windows) = 0
    BY <2>1
  <2>3. wfo' = [pc |-> wfo'.pc, split |-> wfo'.split, best |-> wfo'.best, windows |-> wfo'.windows]
    BY <2>1
  <2>4. QED
    BY <1>1, <1>2, <2>1, <2>2, <2>3 DEF Same
<1>5. CASE Accept
  <2>1. Same /\ wfo' = [wfo EXCEPT !.pc = "train"] /\ wfo.pc = "load" /\ Accepted
    BY <1>3, <1>5 DEF Accept, Accepted
  <2>2. wfo'.pc = "train" /\ wfo'.windows = wfo.windows /\ wfo'.split = 0 /\ wfo.split = 0
    BY <2>1
  <2>3. wfo' = [pc |-> wfo'.pc, split |-> wfo'.split, best |-> wfo'.best, windows |-> wfo'.windows]
    BY <2>1
  <2>4. QED
    BY <1>1, <1>2, <2>1, <2>2, <2>3 DEF Same
<1>6. CASE SkipSplit
  <2>1. Same /\ wfo' = [wfo EXCEPT !.split = wfo.split + 1] /\ wfo.pc = "train"
        /\ wfo.split < args.splits /\ Train(wfo.split) = {}
    BY <1>3, <1>6 DEF SkipSplit
  <2>2. Accepted /\ ~(TrainSize > 0)
    BY <1>1, <2>1, Stretches
  <2>3. wfo'.pc = "train" /\ wfo'.windows = wfo.windows /\ wfo'.split = wfo.split + 1
        /\ wfo'.split \in 0 .. args.splits
    BY <1>1, <2>1
  <2>4. wfo' = [pc |-> wfo'.pc, split |-> wfo'.split, best |-> wfo'.best, windows |-> wfo'.windows]
    BY <2>1
  <2>5. QED
    BY <1>1, <1>2, <2>1, <2>2, <2>3, <2>4 DEF Same
<1>7. CASE OptimizeTrain
  <2>1. Same /\ wfo.pc = "train" /\ wfo.split < args.splits /\ Train(wfo.split) # {}
    BY <1>3, <1>7 DEF OptimizeTrain
  <2>2. PICK p \in Params : wfo' = [wfo EXCEPT !.pc = "test", !.best = p]
    BY <1>7 DEF OptimizeTrain, Best
  <2>3. wfo'.pc = "test" /\ wfo'.windows = wfo.windows /\ wfo'.split = wfo.split
    BY <2>2
  <2>4. wfo' = [pc |-> wfo'.pc, split |-> wfo'.split, best |-> wfo'.best, windows |-> wfo'.windows]
    BY <2>2
  <2>5. QED
    BY <1>1, <1>2, <2>1, <2>3, <2>4 DEF Same
<1>8. CASE BacktestTest
  <2> DEFINE Window(r) == [train |-> Train(wfo.split), test |-> Test(wfo.split),
                           best |-> wfo.best, return |-> r]
  <2>1. Same /\ wfo.pc = "test"
    BY <1>3, <1>8 DEF BacktestTest
  <2>2. PICK r : wfo' = [wfo EXCEPT !.pc = "train", !.split = wfo.split + 1,
                              !.windows = Append(wfo.windows, Window(r))]
    BY <1>8 DEF BacktestTest
  <2>3. Accepted /\ wfo.split < args.splits /\ TrainSize > 0 /\ Len(wfo.windows) = wfo.split
    BY <1>1, <2>1, Stretches
  <2>4. wfo'.pc = "train" /\ wfo'.split = wfo.split + 1 /\ wfo'.split \in 0 .. args.splits
        /\ wfo'.windows = Append(wfo.windows, Window(r))
    BY <1>1, <2>2, <2>3
  <2>5. wfo' = [pc |-> wfo'.pc, split |-> wfo'.split, best |-> wfo'.best, windows |-> wfo'.windows]
    BY <2>2
  <2>6. Window(r).train = Train(wfo.split) /\ Window(r).test = Test(wfo.split)
    OBVIOUS
  <2> HIDE DEF Window
  <2>7. /\ wfo'.windows \in Seq(S \cup {Window(r)}) /\ wfo'.windows # <<>>
        /\ Len(wfo'.windows) = wfo.split + 1
        /\ \A k \in 1 .. wfo.split : wfo'.windows[k] = wfo.windows[k]
        /\ wfo'.windows[wfo.split + 1] = Window(r)
    BY <1>2, <2>3, <2>4, Appended
  <2>8. \A k \in 1 .. Len(wfo'.windows) :
            wfo'.windows[k].train = Train(k - 1) /\ wfo'.windows[k].test = Test(k - 1)
    <3> SUFFICES ASSUME NEW k \in 1 .. wfo.split + 1
                 PROVE  wfo'.windows[k].train = Train(k - 1) /\ wfo'.windows[k].test = Test(k - 1)
      BY <2>7
    <3>1. CASE k \in 1 .. wfo.split
      BY <2>3, <2>7, <3>1
    <3>2. CASE k = wfo.split + 1
      <4>1. k - 1 = wfo.split
        BY <1>1, <3>2
      <4>2. QED
        BY <2>6, <2>7, <3>2, <4>1
    <3>3. QED
      BY <1>1, <3>1, <3>2
  <2>9. QED
    BY <1>1, <2>1, <2>3, <2>4, <2>5, <2>7, <2>8 DEF Same
<1>9. CASE Summarize
  <2>1. Same /\ wfo.pc = "train" /\ wfo.split = args.splits
        /\ wfo' = [wfo EXCEPT !.pc = IF wfo.windows = <<>> THEN "none" ELSE "done"]
    BY <1>3, <1>9 DEF Summarize
  <2>2. wfo'.windows = wfo.windows /\ wfo'.split = wfo.split
        /\ wfo'.pc = IF wfo.windows = <<>> THEN "none" ELSE "done"
    BY <2>1
  <2>3. wfo' = [pc |-> wfo'.pc, split |-> wfo'.split, best |-> wfo'.best, windows |-> wfo'.windows]
    BY <2>1
  <2>4. wfo.windows = <<>> => Len(wfo.windows) = 0
    OBVIOUS
  <2>5. QED
    BY <1>1, <1>2, <2>1, <2>2, <2>3, <2>4 DEF Same
<1>10. CASE UNCHANGED wfoVars
  <2>1. Same /\ wfo' = wfo
    BY <1>3, <1>10 DEF wfoVars
  <2>2. QED
    BY <1>2, <2>1 DEF Same
<1>11. QED
  BY <1>4, <1>5, <1>6, <1>7, <1>8, <1>9, <1>10 DEF WfoNext

LEMMA WInvariant == WfoSpec => []WInv
<1>1. QED
  BY WInit, WStep, PTL DEF WfoSpec

-----------------------------------------------------------------------------
(* What follows from it. *)

LEMMA OneWindow ==
    ASSUME WInv, NEW k \in 1 .. Len(wfo.windows)
    PROVE  /\ Accepted /\ TrainSize > 0 /\ args \in Ranges /\ args.splits \in Nat
           /\ Len(wfo.windows) = wfo.split /\ k - 1 \in 0 .. args.splits - 1
           /\ wfo.windows[k].train = Train(k - 1) /\ wfo.windows[k].test = Test(k - 1)
<1>1. args.splits \in Nat /\ TrainSize \in Nat
  BY SizeTypes DEF WInv
<1>2. QED
  BY <1>1 DEF WInv

LEMMA Following == WInv => TestFollowsTrain
<1> SUFFICES ASSUME WInv, NEW k \in 1 .. Len(wfo.windows)
             PROVE  LET w == wfo.windows[k]
                    IN  /\ \A a \in w.train, b \in w.test : a < b
                        /\ \E b \in w.test : b + MinTest - 1 \in w.test
                        /\ \A l \in k + 1 .. Len(wfo.windows) :
                              \A a \in w.train \cup w.test,
                                 b \in wfo.windows[l].train \cup wfo.windows[l].test : a < b
  BY DEF TestFollowsTrain
<1>1. /\ Accepted /\ args \in Ranges /\ args.splits \in Nat /\ k - 1 \in 0 .. args.splits - 1
      /\ wfo.windows[k].train = Train(k - 1) /\ wfo.windows[k].test = Test(k - 1)
  BY OneWindow
<1>2. /\ \A b \in Train(k - 1) \cup Test(k - 1) : b \in 0 .. args.bars - 1 /\ b < SplitEnd(k - 1)
      /\ \A a \in Train(k - 1), b \in Test(k - 1) : a < b
      /\ \E b \in Test(k - 1) : b + MinTest - 1 \in Test(k - 1)
  BY <1>1, Stretches
<1>3. ASSUME NEW l \in k + 1 .. Len(wfo.windows),
             NEW a \in Train(k - 1) \cup Test(k - 1),
             NEW b \in wfo.windows[l].train \cup wfo.windows[l].test
      PROVE  a < b
  <2>1. Len(wfo.windows) \in Nat /\ k \in Nat /\ l \in 1 .. Len(wfo.windows)
    BY <1>1 DEF WInv
  <2>2. /\ l - 1 \in 0 .. args.splits - 1
        /\ wfo.windows[l].train = Train(l - 1) /\ wfo.windows[l].test = Test(l - 1)
    BY <2>1, OneWindow
  <2>3. b \in 0 .. args.bars - 1 /\ (l - 1) * WindowSize <= b
    BY <1>1, <2>2, Stretches
  <2>4. l - 1 \in (k - 1) + 1 .. args.splits - 1
    BY <1>1, <2>1, <2>2
  <2>5. SplitEnd(k - 1) <= (l - 1) * WindowSize /\ SplitEnd(k - 1) \in Nat
    BY <1>1, <2>4, Splits
  <2>6. (l - 1) * WindowSize \in Nat /\ args.bars \in Nat
    BY <1>1, <2>2, Splits, SizeTypes
  <2>7. QED
    BY <1>2, <2>3, <2>5, <2>6
<1>4. QED
  BY <1>1, <1>2, <1>3

\* However many bars, splits and whatever ratio: each window trains before it tests, tests
\* MinTest bars at least, and comes after the windows before it (walk_forward.py:70).
THEOREM WindowsFollow == WfoSpec => []TestFollowsTrain
<1>1. QED
  BY WInvariant, Following, PTL

LEMMA Covering == WInv => NoBarLost
<1> SUFFICES ASSUME WInv, wfo.pc = "done", NEW b \in 0 .. args.bars - 1
             PROVE  \E k \in 1 .. Len(wfo.windows) :
                        b \in wfo.windows[k].train \cup wfo.windows[k].test
  BY DEF NoBarLost
<1>1. /\ Accepted /\ args \in Ranges /\ Len(wfo.windows) = args.splits
      /\ args.splits \in Nat /\ args.splits > 0 /\ args.bars \in Nat
      /\ WindowSize \in Nat \ {0} /\ TrainSize \in Nat
  <2>1. PICK S : wfo.windows \in Seq(S)
    BY DEF WInv
  <2>2. Len(wfo.windows) # 0
    BY <2>1 DEF WInv
  <2>3. QED
    BY <2>2, SizeTypes, SizesAssumption DEF WInv, Accepted
<1>2. \E i \in 0 .. args.splits - 1 : i * WindowSize <= b /\ b < SplitEnd(i)
  <2>1. CASE b < (args.splits - 1) * WindowSize
    <3> DEFINE i == b \div WindowSize
    <3>1. i \in Nat /\ i * WindowSize <= b /\ b < (i + 1) * WindowSize
      BY <1>1
    <3>2. i < args.splits - 1
      <4>1. CASE args.splits - 1 <= i
        <5>1. (args.splits - 1) * WindowSize <= i * WindowSize
          BY <1>1, <3>1, <4>1, Products
        <5>2. (args.splits - 1) * WindowSize \in Nat /\ i * WindowSize \in Nat
          BY <1>1, <3>1, <4>1, Products
        <5>3. QED
          BY <1>1, <2>1, <3>1, <5>1, <5>2
      <4>2. QED
        BY <1>1, <3>1, <4>1
    <3> HIDE DEF i
    <3>3. i \in 0 .. args.splits - 1 /\ SplitEnd(i) = (i + 1) * WindowSize
      BY <1>1, <3>1, <3>2 DEF SplitEnd
    <3>4. QED
      BY <3>1, <3>3
  <2>2. CASE ~(b < (args.splits - 1) * WindowSize)
    <3>1. args.splits - 1 \in 0 .. args.splits - 1
      BY <1>1
    <3>2. SplitEnd(args.splits - 1) = args.bars /\ (args.splits - 1) * WindowSize \in Nat
      BY <1>1, <3>1, Splits
    <3>3. QED
      BY <1>1, <2>2, <3>1, <3>2
  <2>3. QED
    BY <2>1, <2>2
<1>3. PICK i \in 0 .. args.splits - 1 : i * WindowSize <= b /\ b < SplitEnd(i)
  BY <1>2
<1>4. b \in Train(i) \cup Test(i)
  BY <1>1, <1>3, Stretches
<1>5. i + 1 \in 1 .. Len(wfo.windows) /\ (i + 1) - 1 = i
  BY <1>1
<1>6. wfo.windows[i + 1].train = Train(i) /\ wfo.windows[i + 1].test = Test(i)
  BY <1>5, OneWindow
<1>7. QED
  BY <1>4, <1>5, <1>6

\* A completed walk forward has covered every loaded bar (walk_forward.py:75).
THEOREM EveryBar == WfoSpec => []NoBarLost
<1>1. QED
  BY WInvariant, Covering, PTL
=============================================================================
