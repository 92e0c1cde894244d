----------------------------- MODULE Sudoku_proofs -----------------------------
(***************************************************************************)
(* Proofs about the solver: backtracking solves every board that has a     *)
(* solution, and gives up on no other, for every size of board.            *)
(***************************************************************************)
EXTENDS Sudoku, SequenceTheorems, TLAPS

Frame == [at : Cells, num : 1..(Side + 1)]

(* A board has a positive number of rows.                                  *)
LEMMA SideType == Side \in Nat \ {0} /\ Side * Side \in Nat
<1>1. \A b \in Nat \ {0} : b * b \in Nat \ {0}
  OBVIOUS
<1>2. Box \in Nat \ {0}
  BY SudokuAssumption
<1>3. Side \in Nat \ {0}
  BY <1>1, <1>2 DEF Side
<1>4. QED
  BY <1>1, <1>3

(* The cells are those before the last call's, in row-major order.         *)
LEMMA CellOrder ==
    /\ Cells \subseteq Nat
    /\ \A c \in 0..(Side * Side) : c # Side * Side => c \in Cells
    /\ \A c \in Cells : c + 1 \in 0..(Side * Side) /\ c < Side * Side
    /\ 0 \in 0..(Side * Side)
<1>1. \A n \in Nat : /\ 0..(n - 1) \subseteq Nat
                     /\ \A c \in 0..n : c # n => c \in 0..(n - 1)
                     /\ \A c \in 0..(n - 1) : c + 1 \in 0..n /\ c < n
                     /\ 0 \in 0..n
  OBVIOUS
<1>2. QED
  BY <1>1, SideType DEF Cells

(* Being in a row, column or box with another cell goes both ways.         *)
LEMMA PeersBothWays ==
    /\ \A p \in Cells : Peers(p) \subseteq Cells
    /\ \A p, r \in Cells : r \in Peers(p) => p \in Peers(r)
BY Zenon DEF Peers

(* The last call's next number leaves the other calls alone.               *)
LEMMA NextNumCalls ==
    ASSUME NEW s \in Seq(Frame), s # <<>>, s[Len(s)].num <= Side
    PROVE  /\ NextNum(s) \in Seq(Frame) /\ Len(NextNum(s)) = Len(s)
           /\ \A i \in 1..Len(s) :
                 /\ NextNum(s)[i].at = s[i].at
                 /\ NextNum(s)[i].num = IF i = Len(s) THEN s[i].num + 1 ELSE s[i].num
<1> DEFINE n == Len(s)
           last == [s[n] EXCEPT !.num = @ + 1]
<1>1. n \in Nat \ {0} /\ n \in 1..n /\ s \in [1..n -> Frame]
  OBVIOUS
<1>2. last \in Frame /\ last.at = s[n].at /\ last.num = s[n].num + 1
  <2>1. s[n] \in Frame
    BY <1>1
  <2>2. QED
    BY <2>1, SideType DEF Frame
<1>3. NextNum(s) = [s EXCEPT ![n] = last]
  BY DEF NextNum
<1>4. NextNum(s) \in [1..n -> Frame]
  BY <1>1, <1>2, <1>3
<1>5. NextNum(s) \in Seq(Frame) /\ Len(NextNum(s)) = n
  BY <1>1, <1>4, SeqDef
<1>6. QED
  BY <1>1, <1>2, <1>3, <1>5

(* The callers of the last call are the calls before it.                   *)
LEMMA Prefix ==
    ASSUME NEW S, NEW s \in Seq(S), NEW n \in Nat, n <= Len(s)
    PROVE  /\ SubSeq(s, 1, n) \in Seq(S) /\ Len(SubSeq(s, 1, n)) = n
           /\ \A i \in 1..n : SubSeq(s, 1, n)[i] = s[i]
OBVIOUS

LEMMA Callers ==
    ASSUME NEW s \in Seq(Frame), s # <<>>
    PROVE  /\ Front(s) \in Seq(Frame) /\ Len(Front(s)) = Len(s) - 1
           /\ \A i \in 1..(Len(s) - 1) : Front(s)[i] = s[i]
<1>1. Len(s) - 1 \in Nat /\ Len(s) - 1 <= Len(s)
  BY EmptySeq, LenProperties
<1>2. QED
  BY <1>1, Prefix, Zenon DEF Front

(* A board that can be completed has a solution on the whole board.        *)
LEMMA SolvableHasSolution ==
    ASSUME SudokuTypeOK, Solvable(origin_board)
    PROVE  Solutions # {}
<1>1. PICK f \in [Blanks(origin_board) -> 1..Side] :
          Completes([p \in Cells |-> IF origin_board[p] = 0 THEN f[p] ELSE origin_board[p]],
                    origin_board)
  BY DEF Solvable
<1> DEFINE s == [p \in Cells |-> IF origin_board[p] = 0 THEN f[p] ELSE origin_board[p]]
<1>2. Completes(s, origin_board)
  BY <1>1
<1>3. \A p \in Cells : s[p] \in 1..Side
  BY <1>2, Zenon DEF Completes
<1>4. s \in [Cells -> 1..Side]
  BY <1>3, Zenon
<1>5. QED
  BY <1>2, <1>4, Zenon DEF Solutions

-----------------------------------------------------------------------------
(* What each state says of the calls and of the given numbers.             *)
LEMMA CallFacts ==
    ASSUME SudokuInv
    PROVE  /\ calls \in Seq(Frame) /\ Len(calls) \in Nat
           /\ \A i \in 1..Len(calls) :
                 /\ calls[i] \in Frame /\ calls[i].at \in Cells
                 /\ calls[i].num \in 1..(Side + 1)
           /\ \A p \in Cells : /\ origin_board[p] \in 0..Side /\ solve_board[p] \in 0..Side
                               /\ origin_board[p] # 0 => solve_board[p] = origin_board[p]
           /\ \A i, j \in 1..Len(calls) : calls[i].at = calls[j].at => i = j
<1> USE DEF SudokuInv
<1>1. calls \in Seq(Frame)
  BY Zenon DEF SudokuTypeOK, Frame
<1>2. \A i \in 1..Len(calls) : calls[i] \in Frame
  BY <1>1, Zenon, ElementOfSeq
<1>3. \A i \in 1..Len(calls) : calls[i].at \in Cells /\ calls[i].num \in 1..(Side + 1)
  BY <1>2, Zenon DEF Frame
<1>4. Len(calls) \in Nat
  BY <1>1, LenProperties
<1>5. \A p \in Cells : origin_board[p] \in 0..Side /\ solve_board[p] \in 0..Side
  <2>1. origin_board \in [Cells -> 0..Side] /\ solve_board \in [Cells -> 0..Side]
    BY SudokuAssumption, Zenon DEF SudokuTypeOK
  <2>2. QED
    BY <2>1, Zenon
<1>6. \A p \in Cells : origin_board[p] # 0 => solve_board[p] = origin_board[p]
  <2>1. SUFFICES ASSUME NEW p \in Cells, origin_board[p] # 0,
                        solve_board[p] # origin_board[p]
                 PROVE  FALSE
    OBVIOUS
  <2>2. PICK i \in 1..Len(calls) : calls[i].at = p
    BY <2>1, Zenon DEF BoardInv, HasCall
  <2>3. QED
    BY <2>1, <2>2 DEF StackInv
<1>7. ASSUME NEW i \in 1..Len(calls), NEW j \in 1..Len(calls), calls[i].at = calls[j].at
      PROVE  i = j
  <2>1. calls[i].at \in Nat /\ calls[j].at \in Nat
    BY <1>3, CellOrder
  <2>2. ~(i < j) /\ ~(j < i)
    BY <1>7, <2>1 DEF StackInv
  <2>3. QED
    BY <1>4, <2>2
<1>8. QED
  BY <1>1, <1>2, <1>3, <1>4, <1>5, <1>6, <1>7

(* SolveCall: the cell is past the end, has a number, or starts a loop.    *)
LEMMA SolveCallStep == SudokuInv /\ SolveCall => SudokuInv'
<1> SUFFICES ASSUME SudokuInv, SolveCall
             PROVE  SudokuInv'
  OBVIOUS
<1> USE DEF SudokuInv
<1>1. /\ spc = "call" /\ UNCHANGED <<origin_board, solve_board, service>>
      /\ service = origin_board
  BY DEF SolveCall
<1>2. /\ cell \in 0..(Side * Side) /\ cell \in Nat /\ calls \in Seq(Frame)
      /\ Len(calls) \in Nat
  BY CallFacts, SideType DEF SudokuTypeOK
<1>3. \A i \in 1..Len(calls) :
         /\ origin_board[calls[i].at] = 0 /\ calls[i].at < cell
         /\ solve_board[calls[i].at] = calls[i].num
         /\ \A j \in 1..Len(calls) : i < j => calls[i].at < calls[j].at
  BY <1>1 DEF StackInv
<1>4. \A s \in Solutions : \/ OnPath(s, Len(calls))
                           \/ \E i \in 1..Len(calls) : /\ OnPath(s, i - 1)
                                                       /\ s[calls[i].at] > calls[i].num
  BY <1>1 DEF SearchInv, Ahead, BranchesOff
<1>5. CASE cell = Side * Side /\ spc' = "solved" /\ UNCHANGED <<cell, calls>>
  <2>1. SudokuTypeOK'
    BY <1>1, <1>5 DEF SudokuTypeOK
  <2>2. StackInv'
    BY <1>1, <1>3, <1>5 DEF StackInv
  <2>3. BoardInv'
    BY <1>1, <1>5, Zenon DEF BoardInv, HasCall
  <2>4. SearchInv'
    <3>1. Solutions' = Solutions
      BY <1>1 DEF Solutions
    <3>2. \A s : \A n : OnPath(s, n)' = OnPath(s, n)
      BY <1>5 DEF OnPath
    <3>3. QED
      BY <1>1, <1>4, <1>5, <3>1, <3>2 DEF SearchInv, Ahead, BranchesOff
  <2>5. QED
    BY <1>1, <1>5, <2>1, <2>2, <2>3, <2>4 DEF SolvesWhatCanBe
<1>6. CASE /\ cell # Side * Side /\ solve_board[cell] > 0
           /\ cell' = cell + 1 /\ UNCHANGED <<spc, calls>>
  <2>1. cell \in Cells
    BY <1>2, <1>6, CellOrder
  <2>2. SudokuTypeOK'
    BY <1>1, <1>6, <2>1, CellOrder DEF SudokuTypeOK
  <2>3. StackInv'
    <3>1. ASSUME NEW i \in 1..Len(calls)
          PROVE  calls[i].at < cell + 1
      <4>1. calls[i].at \in Nat
        BY CallFacts, CellOrder, Zenon
      <4>2. QED
        BY <1>2, <1>3, <4>1
    <3>2. QED
      BY <1>1, <1>3, <1>6, <3>1 DEF StackInv
  <2>4. BoardInv'
    <3>1. origin_board[cell] = 0 => HasCall(cell)
      BY <1>6, <2>1 DEF BoardInv
    <3>2. \A p \in Cells : p < cell + 1 => p < cell \/ p = cell
      BY <1>2, CellOrder
    <3>3. \A p \in Cells : HasCall(p)' = HasCall(p)
      BY <1>6 DEF HasCall
    <3>4. QED
      BY <1>1, <1>6, <3>1, <3>2, <3>3 DEF BoardInv
  <2>5. SearchInv'
    <3>1. Solutions' = Solutions
      BY <1>1 DEF Solutions
    <3>2. \A s : Ahead(s)' = Ahead(s)
      BY <1>6 DEF Ahead, BranchesOff, OnPath
    <3>3. QED
      BY <1>6, <3>1, <3>2 DEF SearchInv
  <2>6. QED
    BY <1>1, <1>6, <2>2, <2>3, <2>4, <2>5 DEF SolvesWhatCanBe
<1>7. CASE /\ cell # Side * Side /\ solve_board[cell] = 0
           /\ calls' = Append(calls, [at |-> cell, num |-> 1])
           /\ spc' = "loop" /\ UNCHANGED cell
  <2>0. PICK n \in Nat : n = Len(calls)
    BY <1>2
  <2> DEFINE first == [at |-> cell, num |-> 1]
  <2>1. cell \in Cells /\ n \in Nat /\ first \in Frame
    BY <1>2, <1>7, CellOrder, SideType DEF Frame
  <2>2. /\ calls' \in Seq(Frame) /\ Len(calls') = n + 1 /\ calls'[n + 1] = first
        /\ \A i \in 1..n : calls'[i] = calls[i]
    BY <1>2, <1>7, <2>0, <2>1
  <2>3. first.at = cell /\ first.num = 1 /\ Top' = first
    BY <1>7, <2>2 DEF Top
  <2> HIDE DEF first
  <2>4. /\ 1..(n + 1) = 1..n \cup {n + 1} /\ n + 1 \notin 1..n
        /\ \A i \in 1..n : i < n + 1 /\ ~(n + 1 < i)
    BY <2>1
  <2>5. origin_board[cell] = 0
    <3>1. SUFFICES ASSUME origin_board[cell] # 0
                   PROVE  FALSE
      OBVIOUS
    <3>2. PICK i \in 1..Len(calls) : calls[i].at = cell
      BY <1>7, <2>1, <3>1, Zenon DEF BoardInv, HasCall
    <3>3. QED
      BY <1>2, <1>3, <3>2
  <2>6. SudokuTypeOK'
    BY <1>1, <1>7, <2>2 DEF SudokuTypeOK, Frame
  <2>7. StackInv'
    <3>1. calls' # <<>>
      BY <2>1, <2>2
    <3>2. ASSUME NEW i \in 1..(n + 1)
          PROVE  /\ origin_board[calls'[i].at] = 0
                 /\ solve_board[calls'[i].at] =
                       IF i = n + 1 THEN 0 ELSE calls'[i].num
                 /\ \A j \in 1..(n + 1) : i < j => calls'[i].at < calls'[j].at
      <4>1. CASE i \in 1..n
        BY <1>3, <2>0, <2>2, <2>3, <2>4, <4>1
      <4>2. CASE i = n + 1
        BY <1>3, <1>7, <2>0, <2>2, <2>3, <2>4, <2>5, <4>2
      <4>3. QED
        BY <2>4, <4>1, <4>2
    <3>3. QED
      BY <1>1, <1>7, <2>2, <3>1, <3>2 DEF StackInv
  <2>8. BoardInv'
    <3>1. \A p \in Cells : HasCall(p) => HasCall(p)'
      BY <2>0, <2>2, <2>4 DEF HasCall
    <3>2. QED
      BY <1>1, <1>7, <2>3, <3>1 DEF BoardInv
  <2>9. SearchInv'
    <3>1. Solutions' = Solutions
      BY <1>1 DEF Solutions
    <3>2. ASSUME NEW s \in Solutions, NEW k \in 0..n, OnPath(s, k)
          PROVE  OnPath(s, k)'
      BY <2>1, <2>2, <3>2 DEF OnPath
    <3>3. ASSUME NEW s \in Solutions
          PROVE  \E i \in 1..(n + 1) : BranchesOff(s, i)'
      <4>1. CASE OnPath(s, n)
        <5>1. OnPath(s, n)' /\ (n + 1) - 1 = n
          BY <2>1, <3>2, <4>1
        <5>2. s[cell] > 1 \/ s[cell] = 1
          BY <2>1, SideType DEF Solutions
        <5>3. BranchesOff(s, n + 1)'
          BY <1>7, <2>2, <2>3, <5>1, <5>2 DEF BranchesOff
        <5>4. QED
          BY <2>4, <5>3
      <4>2. CASE \E i \in 1..n : OnPath(s, i - 1) /\ s[calls[i].at] > calls[i].num
        <5>1. PICK i \in 1..n : OnPath(s, i - 1) /\ s[calls[i].at] > calls[i].num
          BY <4>2
        <5>2. OnPath(s, i - 1)'
          BY <2>1, <3>2, <5>1
        <5>3. BranchesOff(s, i)'
          BY <2>2, <5>1, <5>2 DEF BranchesOff
        <5>4. QED
          BY <2>4, <5>3
      <4>3. QED
        BY <1>4, <2>0, <4>1, <4>2
    <3>4. QED
      BY <1>7, <2>2, <3>1, <3>3, Zenon DEF SearchInv, Ahead
  <2>10. QED
    BY <1>1, <1>7, <2>6, <2>7, <2>8, <2>9 DEF SolvesWhatCanBe
<1>8. QED
  BY <1>5, <1>6, <1>7 DEF SolveCall

(* What holds at the last of n calls, which is in its loop.                *)
AtLast(n) ==
    /\ n = Len(calls) /\ n \in 1..n /\ Top = calls[n]
    /\ Top.at \in Cells /\ Top.num \in 1..(Side + 1)
    /\ origin_board[Top.at] = 0 /\ solve_board[Top.at] = 0
    /\ \A i \in 1..n :
          /\ calls[i].at \in Cells /\ origin_board[calls[i].at] = 0
          /\ i - 1 \in 0..(n - 1)
          /\ i # n => /\ calls[i].at # Top.at /\ calls[i].at < Top.at
                      /\ solve_board[calls[i].at] = calls[i].num
                      /\ i \in 1..(n - 1)
    /\ \A s \in Solutions : \E i \in 1..n : BranchesOff(s, i)

LEMMA LoopFacts ==
    ASSUME SudokuInv, spc = "loop"
    PROVE  \E n \in Nat \ {0} : AtLast(n)
<1> USE DEF SudokuInv
<1>1. PICK n \in Nat : n = Len(calls)
  BY CallFacts
<1>2. calls # <<>> /\ calls \in Seq(Frame)
  BY CallFacts DEF StackInv
<1>3. n \in Nat \ {0} /\ n \in 1..n
  BY <1>1, <1>2
<1>4. Top = calls[n]
  BY <1>1 DEF Top
<1>5. Top.at \in Cells /\ Top.num \in 1..(Side + 1)
  BY <1>1, <1>3, <1>4, CallFacts
<1>6. origin_board[Top.at] = 0 /\ solve_board[Top.at] = 0
  BY <1>1, <1>3, <1>4 DEF StackInv
<1>7. ASSUME NEW i \in 1..n
      PROVE  /\ i # n => /\ calls[i].at # Top.at /\ calls[i].at < Top.at
                         /\ solve_board[calls[i].at] = calls[i].num
                         /\ i \in 1..(n - 1)
             /\ calls[i].at \in Cells /\ origin_board[calls[i].at] = 0
             /\ i - 1 \in 0..(n - 1)
  <2>1. calls[i].at \in Cells /\ origin_board[calls[i].at] = 0
    BY <1>1, CallFacts DEF StackInv
  <2>2. i - 1 \in 0..(n - 1) /\ (i # n => i \in 1..(n - 1) /\ i < n)
    BY <1>3
  <2>3. ASSUME i # n
        PROVE  /\ calls[i].at < Top.at
               /\ solve_board[calls[i].at] = calls[i].num
    BY <1>1, <1>3, <1>4, <2>2, <2>3 DEF StackInv
  <2>4. i # n => calls[i].at # Top.at
    BY <1>1, <1>3, <1>4, CallFacts
  <2>5. QED
    BY <2>1, <2>2, <2>3, <2>4
<1>8. \A s \in Solutions : \E i \in 1..n : BranchesOff(s, i)
  BY <1>1 DEF SearchInv, Ahead
<1>9. QED
  BY <1>1, <1>3, <1>4, <1>5, <1>6, <1>7, <1>8 DEF AtLast

(* A solution has a number of the board in each cell, and no two peers of  *)
(* a solution have the same.                                               *)
LEMMA SolutionFacts ==
    ASSUME NEW s \in Solutions
    PROVE  \A p \in Cells : /\ s[p] \in 1..Side
                            /\ origin_board[p] # 0 => s[p] = origin_board[p]
                            /\ \A r \in Peers(p) \ {p} : s[r] # s[p]
BY Zenon DEF Solutions, Completes

(* TryNum, a safe number: it is on the board, and the next cell is called. *)
LEMMA SafeNumberStep ==
    ASSUME SudokuInv, TryNum, isSafe(solve_board, Top.at, Top.num),
           solve_board' = [solve_board EXCEPT ![Top.at] = Top.num],
           cell' = Top.at + 1, spc' = "call", UNCHANGED calls
    PROVE  SudokuInv'
<1> USE DEF SudokuInv
<1>1. /\ spc = "loop" /\ Top.num <= Side /\ UNCHANGED <<origin_board, service>>
      /\ service = origin_board
  BY DEF TryNum
<1> USE DEF AtLast
<1>2. PICK n \in Nat \ {0} : AtLast(n)
  BY <1>1, LoopFacts
<1>3. PICK at \in Cells : at = Top.at
  BY <1>2
<1>4. PICK num \in 1..Side : num = Top.num
  BY <1>1, <1>2, SideType
<1>5. /\ solve_board' = [solve_board EXCEPT ![at] = num]
      /\ solve_board \in [Cells -> 0..Side] /\ num \in 0..Side
      /\ solve_board'[at] = num
      /\ \A p \in Cells : p # at => solve_board'[p] = solve_board[p]
  BY <1>3, <1>4, SideType DEF SudokuTypeOK
<1>6. SudokuTypeOK'
  BY <1>1, <1>3, <1>5, CellOrder DEF SudokuTypeOK
<1>7. StackInv'
  <2>1. ASSUME NEW i \in 1..n
        PROVE  /\ solve_board'[calls[i].at] = calls[i].num
               /\ calls[i].at < at + 1
    <3>1. at \in Nat /\ calls[i].at \in Nat
      BY <1>2, CellOrder
    <3>2. QED
      BY <1>2, <1>3, <1>4, <1>5, <3>1
  <2>2. \A i \in 1..n : \A j \in 1..n : i < j => calls[i].at < calls[j].at
    BY <1>2 DEF StackInv
  <2>3. QED
    BY <1>1, <1>2, <1>3, <2>1, <2>2 DEF StackInv
<1>8. BoardInv'
  <2>1. \A p \in Cells : HasCall(p)' <=> HasCall(p)
    BY DEF HasCall
  <2>2. HasCall(at)
    BY <1>2, <1>3 DEF HasCall
  <2>3. \A p \in Cells : p < at + 1 => p < at \/ p = at
    BY <1>3, CellOrder
  <2>4. ASSUME NEW p \in Cells, NEW r \in Peers(p) \ {p}, solve_board'[p] # 0
        PROVE  solve_board'[p] # solve_board'[r]
    <3>1. r \in Cells /\ p \in Peers(r)
      BY PeersBothWays
    <3>2. CASE p = at
      BY <1>3, <1>4, <1>5, <3>1, <3>2 DEF isSafe
    <3>3. CASE r = at
      BY <1>3, <1>4, <1>5, <3>1, <3>3 DEF isSafe
    <3>4. CASE p # at /\ r # at
      BY <1>5, <2>4, <3>1, <3>4 DEF BoardInv
    <3>5. QED
      BY <3>2, <3>3, <3>4
  <2>5. \A p \in Cells : p < Top.at /\ origin_board[p] = 0 => HasCall(p)
    BY <1>1 DEF BoardInv
  <2>6. \A p \in Cells : solve_board'[p] # origin_board[p] => HasCall(p)
    BY <1>5, <2>2 DEF BoardInv
  <2>7. QED
    BY <1>1, <1>3, <2>1, <2>2, <2>3, <2>4, <2>5, <2>6 DEF BoardInv
<1>9. SearchInv'
  <2>1. Solutions' = Solutions
    BY <1>1 DEF Solutions
  <2>2. \A s : \A k : OnPath(s, k)' <=> OnPath(s, k)
    BY DEF OnPath
  <2>3. ASSUME NEW s \in Solutions
        PROVE  Ahead(s)'
    <3>1. PICK i \in 1..n : BranchesOff(s, i)
      BY <1>2
    <3>2. CASE s[calls[i].at] > calls[i].num
      <4>1. BranchesOff(s, i)'
        BY <2>2, <3>1, <3>2 DEF BranchesOff
      <4>2. QED
        BY <1>2, <4>1 DEF Ahead
    <3>3. CASE i = n /\ s[calls[i].at] = calls[i].num
      <4>1. OnPath(s, n - 1)
        BY <3>1, <3>3 DEF BranchesOff
      <4>2. OnPath(s, n)
        BY <1>2, <3>3, <4>1 DEF OnPath
      <4>3. QED
        BY <1>2, <2>2, <4>2 DEF Ahead
    <3>4. QED
      BY <1>2, <3>1, <3>2, <3>3 DEF BranchesOff
  <2>4. QED
    BY <2>1, <2>3 DEF SearchInv
<1>10. QED
  BY <1>1, <1>6, <1>7, <1>8, <1>9 DEF SolvesWhatCanBe

(* A call takes its next number, with its cell blank again: in its own     *)
(* loop, or because the call it made returned false. No solution has the   *)
(* number it tried.                                                        *)
LEMMA NextNumberStep ==
    ASSUME SudokuInv, spc = "loop", spc' = "loop",
           UNCHANGED <<origin_board, cell, service>>,
           NEW n \in Nat, n = Len(calls), NEW m \in 1..n,
           calls' \in Seq(Frame), Len(calls') = m,
           \A i \in 1..m : /\ calls'[i].at = calls[i].at
                           /\ calls'[i].num = IF i = m THEN calls[i].num + 1 ELSE calls[i].num,
           solve_board' = [solve_board EXCEPT ![calls[m].at] = 0],
           \A i \in 1..n : i <= m \/ i = n,
           \A s \in Solutions :
              \E i \in 1..m : OnPath(s, i - 1) /\ s[calls[i].at] > calls[i].num
    PROVE  SudokuInv'
<1> USE DEF SudokuInv
<1>1. service = origin_board
  BY DEF SudokuInv
<1>2. \A i \in 1..n : /\ calls[i].at \in Cells /\ origin_board[calls[i].at] = 0
                      /\ calls[i].num \in 1..(Side + 1)
                      /\ i # n => solve_board[calls[i].at] = calls[i].num
                      /\ i = n => solve_board[calls[i].at] = 0
                      /\ \A j \in 1..n : i < j => calls[i].at < calls[j].at
                      /\ \A j \in 1..n : calls[i].at = calls[j].at => i = j
  BY CallFacts DEF StackInv
<1>3. m \in Nat \ {0} /\ m \in 1..m /\ \A i \in 1..m : i \in 1..n /\ (i # m => i # n /\ i < m)
  OBVIOUS
<1>4. PICK at \in Cells : at = calls[m].at
  BY <1>2
<1>5. /\ solve_board' \in [Cells -> 0..Side] /\ solve_board'[at] = 0
      /\ \A p \in Cells : p # at => solve_board'[p] = solve_board[p]
  BY <1>4, SideType DEF SudokuTypeOK
<1>6. calls' # <<>> /\ Top'.at = at
  BY <1>3, <1>4 DEF Top
<1>7. SudokuTypeOK'
  BY <1>5 DEF SudokuTypeOK, Frame
<1>8. StackInv'
  <2>1. ASSUME NEW i \in 1..m
        PROVE  /\ origin_board[calls'[i].at] = 0
               /\ solve_board'[calls'[i].at] = IF i = m THEN 0 ELSE calls'[i].num
               /\ \A j \in 1..m : i < j => calls'[i].at < calls'[j].at
    <3>1. origin_board[calls'[i].at] = 0
      BY <1>2, <1>3
    <3>2. solve_board'[calls'[i].at] = IF i = m THEN 0 ELSE calls'[i].num
      BY <1>2, <1>3, <1>4, <1>5
    <3>3. \A j \in 1..m : i < j => calls'[i].at < calls'[j].at
      BY <1>2, <1>3
    <3>4. QED
      BY <3>1, <3>2, <3>3
  <2>2. QED
    BY <1>6, <2>1 DEF StackInv
<1>9. BoardInv'
  <2>1. ASSUME NEW p \in Cells, NEW i \in 1..m, calls[i].at = p
        PROVE  HasCall(p)'
    BY <2>1 DEF HasCall
  <2>2. ASSUME NEW p \in Cells, solve_board'[p] # origin_board[p]
        PROVE  HasCall(p)'
    <3>1. p # at
      BY <1>2, <1>4, <1>5, <2>2
    <3>2. PICK i \in 1..n : calls[i].at = p
      BY <1>5, <2>2, <3>1 DEF BoardInv, HasCall
    <3>3. i # n \/ i = m
      BY <1>2, <1>5, <2>2, <3>1, <3>2
    <3>4. i \in 1..m
      BY <3>3
    <3>5. QED
      BY <2>1, <3>2, <3>4
  <2>3. ASSUME NEW p \in Cells, p < at, origin_board[p] = 0
        PROVE  HasCall(p)'
    <3>1. p \in Nat /\ at \in Nat /\ \A i \in 1..n : calls[i].at \in Nat
      BY <1>2, CellOrder
    <3>2. p < Top.at
      <4>1. Top = calls[n] /\ n \in 1..n
        BY DEF Top
      <4>2. calls[n].at \in Nat /\ (m = n \/ at < calls[n].at)
        BY <1>2, <1>3, <1>4, <3>1, <4>1
      <4>3. QED
        BY <1>4, <2>3, <3>1, <4>1, <4>2
    <3>3. PICK i \in 1..n : calls[i].at = p
      BY <2>3, <3>2 DEF BoardInv, HasCall
    <3>4. ~(m < i)
      BY <1>2, <1>3, <1>4, <2>3, <3>1, <3>3
    <3>5. QED
      BY <2>1, <3>3, <3>4
  <2>4. ASSUME NEW p \in Cells, NEW r \in Peers(p) \ {p}, solve_board'[p] # 0
        PROVE  solve_board'[p] # solve_board'[r]
    <3>1. r \in Cells /\ p # at
      BY <1>5, <2>4, PeersBothWays
    <3>2. QED
      BY <1>5, <2>4, <3>1 DEF BoardInv
  <2>5. QED
    BY <1>6, <2>2, <2>3, <2>4 DEF BoardInv
<1>10. SearchInv'
  <2>1. Solutions' = Solutions
    BY DEF Solutions
  <2>2. ASSUME NEW s \in Solutions
        PROVE  Ahead(s)'
    <3>1. PICK i \in 1..m : OnPath(s, i - 1) /\ s[calls[i].at] > calls[i].num
      OBVIOUS
    <3>2. OnPath(s, i - 1)'
      BY <3>1 DEF OnPath
    <3>3. s[calls'[i].at] > calls'[i].num \/ (i = m /\ s[calls'[i].at] = calls'[i].num)
      <4>1. s[calls[i].at] \in Nat /\ calls[i].num \in Nat
        BY <1>2, <1>3, SolutionFacts, SideType
      <4>2. QED
        BY <3>1, <4>1
    <3>4. BranchesOff(s, i)'
      BY <3>2, <3>3 DEF BranchesOff
    <3>5. QED
      BY <3>4 DEF Ahead
  <2>3. QED
    BY <2>1, <2>2 DEF SearchInv
<1>11. QED
  BY <1>1, <1>7, <1>8, <1>9, <1>10 DEF SolvesWhatCanBe

(* TryNum, a number that is not safe: no solution has it, the next one has *)
(* its turn.                                                               *)
LEMMA UnsafeNumberStep ==
    ASSUME SudokuInv, TryNum, ~isSafe(solve_board, Top.at, Top.num),
           solve_board' = [solve_board EXCEPT ![Top.at] = 0],
           calls' = NextNum(calls), UNCHANGED <<cell, spc>>
    PROVE  SudokuInv'
<1>1. /\ spc = "loop" /\ spc' = "loop" /\ Top.num <= Side
      /\ UNCHANGED <<origin_board, cell, service>>
  BY DEF TryNum
<1> USE DEF AtLast
<1>2. PICK n \in Nat \ {0} : AtLast(n)
  BY <1>1, LoopFacts
<1>3. /\ calls' \in Seq(Frame) /\ Len(calls') = n
      /\ \A i \in 1..n : /\ calls'[i].at = calls[i].at
                         /\ calls'[i].num = IF i = n THEN calls[i].num + 1
                                                     ELSE calls[i].num
  <2>1. calls \in Seq(Frame) /\ calls # <<>> /\ calls[Len(calls)].num <= Side
    BY <1>1, <1>2, CallFacts DEF SudokuInv
  <2>2. QED
    BY <1>2, <2>1, NextNumCalls
<1>4. ASSUME NEW s \in Solutions
      PROVE  \E i \in 1..n : OnPath(s, i - 1) /\ s[calls[i].at] > calls[i].num
  <2>1. PICK i \in 1..n : BranchesOff(s, i)
    BY <1>2
  <2>2. ASSUME i = n, s[calls[i].at] = calls[i].num
        PROVE  FALSE
    <3>1. PICK r \in Peers(Top.at) : solve_board[r] = Top.num
      BY DEF isSafe
    <3>2. r \in Cells /\ r # Top.at
      BY <1>2, <3>1, PeersBothWays
    <3>3. s[r] = Top.num
      <4>1. CASE origin_board[r] # 0
        <5>1. solve_board[r] = origin_board[r]
          BY <3>2, <4>1, CallFacts
        <5>2. QED
          BY <3>1, <3>2, <4>1, <5>1, SolutionFacts
      <4>2. CASE origin_board[r] = 0
        <5>1. PICK j \in 1..n : calls[j].at = r
          BY <1>2, <3>1, <3>2, <4>2 DEF SudokuInv, BoardInv, HasCall
        <5>2. j \in 1..(n - 1) /\ calls[j].num = Top.num
          BY <1>2, <3>1, <3>2, <5>1
        <5>3. OnPath(s, n - 1)
          BY <2>1, <2>2 DEF BranchesOff
        <5>4. QED
          BY <5>1, <5>2, <5>3 DEF OnPath
      <4>3. QED
        BY <4>1, <4>2
    <3>4. s[r] # s[Top.at]
      BY <1>2, <3>1, <3>2, SolutionFacts
    <3>5. QED
      BY <1>2, <2>2, <3>3, <3>4
  <2>3. QED
    BY <1>2, <2>1, <2>2 DEF BranchesOff
<1>5. n \in Nat /\ \A i \in 1..n : i <= n \/ i = n
  OBVIOUS
<1>6. solve_board' = [solve_board EXCEPT ![calls[n].at] = 0]
  BY <1>2
<1>7. QED
  BY <1>1, <1>2, <1>3, <1>4, <1>5, <1>6, NextNumberStep

(* ReturnFalse: with no number left the caller takes its next one; without *)
(* a caller the board has no solution.                                     *)
LEMMA ReturnFalseStep == SudokuInv /\ ReturnFalse => SudokuInv'
<1> SUFFICES ASSUME SudokuInv, ReturnFalse
             PROVE  SudokuInv'
  OBVIOUS
<1>1. spc = "loop" /\ Top.num > Side /\ UNCHANGED <<origin_board, cell, service>>
  BY DEF ReturnFalse
<1> USE DEF AtLast
<1>2. PICK n \in Nat \ {0} : AtLast(n)
  BY <1>1, LoopFacts
<1>3. /\ calls \in Seq(Frame) /\ calls # <<>>
      /\ Front(calls) \in Seq(Frame) /\ Len(Front(calls)) = n - 1
      /\ \A i \in 1..(n - 1) : Front(calls)[i] = calls[i]
  <2>1. calls \in Seq(Frame) /\ calls # <<>>
    BY <1>2, CallFacts DEF SudokuInv
  <2>2. QED
    BY <1>2, <2>1, Callers
<1>4. ASSUME NEW s \in Solutions
      PROVE  \E i \in 1..(n - 1) : OnPath(s, i - 1) /\ s[calls[i].at] > calls[i].num
  <2>1. PICK i \in 1..n : BranchesOff(s, i)
    BY <1>2
  <2>2. s[Top.at] \in 1..Side /\ Top.num \in Nat
    BY <1>2, SolutionFacts, SideType
  <2>3. ~(s[Top.at] > Top.num) /\ s[Top.at] # Top.num
    BY <1>1, <2>2, SideType
  <2>4. i # n
    BY <1>2, <2>1, <2>3 DEF BranchesOff
  <2>5. QED
    BY <1>2, <2>1, <2>4 DEF BranchesOff
<1>5. CASE Front(calls) = <<>> /\ calls' = <<>> /\ spc' = "failed" /\ UNCHANGED solve_board
  <2>1. n = 1
    BY <1>3, <1>5
  <2>2. Solutions = {}
    BY <1>4, <2>1
  <2>3. ~Solvable(origin_board)
    BY <2>2, SolvableHasSolution DEF SudokuInv
  <2>4. solve_board = origin_board
    <3>1. \A p \in Cells : solve_board[p] = origin_board[p]
      BY <1>2, <2>1 DEF SudokuInv, BoardInv, HasCall
    <3>2. solve_board \in [Cells -> 0..Side] /\ origin_board \in [Cells -> 0..Side]
      BY SudokuAssumption DEF SudokuInv, SudokuTypeOK
    <3>3. QED
      BY <3>1, <3>2
  <2>5. SudokuTypeOK'
    BY <1>1, <1>5 DEF SudokuInv, SudokuTypeOK
  <2>6. StackInv'
    BY <1>5 DEF StackInv
  <2>7. BoardInv'
    BY <1>1, <1>5, <2>4 DEF SudokuInv, BoardInv
  <2>8. QED
    BY <1>1, <1>5, <2>3, <2>4, <2>5, <2>6, <2>7 DEF SudokuInv, SearchInv, SolvesWhatCanBe
<1>6. CASE /\ Front(calls) # <<>> /\ calls' = NextNum(Front(calls))
           /\ solve_board' = [solve_board EXCEPT ![Front(calls)[Len(Front(calls))].at] = 0]
           /\ UNCHANGED spc
  <2>1. PICK m \in 1..n : m = n - 1
    BY <1>3, <1>6
  <2>2. m \in 1..m /\ m # n /\ m \in Nat
    BY <2>1
  <2>3. calls[m].num <= Side
    <3>1. solve_board[calls[m].at] = calls[m].num /\ calls[m].at \in Cells
      BY <1>2, <2>2
    <3>2. solve_board[calls[m].at] \in 0..Side
      BY <3>1, CallFacts
    <3>3. QED
      BY <3>1, <3>2, SideType
  <2>4. /\ calls' \in Seq(Frame) /\ Len(calls') = m
        /\ \A i \in 1..m : /\ calls'[i].at = calls[i].at
                           /\ calls'[i].num = IF i = m THEN calls[i].num + 1
                                                       ELSE calls[i].num
    <3>1. Front(calls)[Len(Front(calls))].num <= Side
      BY <1>3, <2>1, <2>2, <2>3
    <3>2. QED
      BY <1>3, <1>6, <2>1, <2>2, <3>1, NextNumCalls
  <2>5. solve_board' = [solve_board EXCEPT ![calls[m].at] = 0]
    BY <1>3, <1>6, <2>1, <2>2
  <2>6. n \in Nat /\ \A i \in 1..n : i <= m \/ i = n
    BY <2>1
  <2>7. spc' = "loop"
    BY <1>1, <1>6
  <2>8. QED
    BY <1>1, <1>2, <1>4, <2>1, <2>4, <2>5, <2>6, <2>7, NextNumberStep
<1>7. QED
  BY <1>5, <1>6 DEF ReturnFalse

(* Submit: a completed board is the solver's, the given numbers included.  *)
LEMMA SubmitStep == SudokuInv /\ Submit => SudokuInv'
<1> SUFFICES ASSUME SudokuInv, Submit
             PROVE  SudokuInv'
  OBVIOUS
<1> USE DEF SudokuInv
<1>1. /\ spc \in {"solved", "failed"} /\ spc' = "checked"
      /\ UNCHANGED <<origin_board, solve_board, cell, calls>>
      /\ service = origin_board
      /\ service' = [p \in Cells |-> IF origin_board[p] # 0 THEN service[p]
                                                            ELSE solve_board[p]]
  BY DEF Submit
<1>2. \A p \in Cells : service'[p] = solve_board[p] /\ solve_board[p] \in 0..Side
  <2>1. \A p \in Cells : /\ solve_board[p] \in 0..Side
                         /\ origin_board[p] # 0 => solve_board[p] = origin_board[p]
    BY CallFacts
  <2>2. QED
    BY <1>1, <2>1
<1>3. service' \in [Cells -> 0..Side]
  <2>1. service' = [p \in Cells |-> service'[p]]
    BY <1>1
  <2>2. QED
    BY <1>2, <2>1
<1>4. SudokuTypeOK'
  BY <1>1, <1>3 DEF SudokuTypeOK
<1>5. StackInv'
  BY <1>1 DEF StackInv
<1>6. BoardInv'
  <2>1. \A p \in Cells : HasCall(p)' <=> HasCall(p)
    BY <1>1 DEF HasCall
  <2>2. QED
    BY <1>1, <2>1 DEF BoardInv
<1>7. ASSUME spc = "solved"
      PROVE  Completes(service', origin_board)
  <2>1. ASSUME NEW p \in Cells
        PROVE  solve_board[p] # 0
    <3>0. origin_board[p] # 0 => solve_board[p] = origin_board[p]
      BY CallFacts
    <3>1. SUFFICES ASSUME solve_board[p] = 0, origin_board[p] = 0
                   PROVE  FALSE
      BY <3>0
    <3>2. p < cell
      BY <1>7, CellOrder DEF StackInv
    <3>3. PICK i \in 1..Len(calls) : calls[i].at = p
      BY <1>7, <3>1, <3>2 DEF BoardInv, HasCall
    <3>4. calls[i].num \in 1..(Side + 1)
      BY CallFacts
    <3>5. QED
      BY <1>7, <3>1, <3>3, <3>4, SideType DEF StackInv
  <2>2. ASSUME NEW p \in Cells
        PROVE  /\ service'[p] \in 1..Side
               /\ origin_board[p] # 0 => service'[p] = origin_board[p]
               /\ \A r \in Peers(p) \ {p} : service'[r] # service'[p]
    <3>1. service'[p] \in 1..Side
      BY <1>2, <2>1, SideType
    <3>2. origin_board[p] # 0 => service'[p] = origin_board[p]
      BY <1>1
    <3>3. \A r \in Peers(p) \ {p} : service'[r] # service'[p]
      BY <1>2, <2>1, PeersBothWays DEF BoardInv
    <3>4. QED
      BY <3>1, <3>2, <3>3
  <2>3. QED
    BY <2>2 DEF Completes
<1>8. SolvesWhatCanBe'
  <2>1. CASE spc = "solved"
    BY <1>1, <1>7, <2>1 DEF SolvesWhatCanBe
  <2>2. CASE spc = "failed"
    BY <1>1, <2>2 DEF SolvesWhatCanBe
  <2>3. QED
    BY <1>1, <2>1, <2>2
<1>9. QED
  BY <1>1, <1>4, <1>5, <1>6, <1>8 DEF SearchInv

(* The invariant in the initial states, and in every step.                 *)
LEMMA SudokuInvInit == SudokuInit => SudokuInv
<1> SUFFICES ASSUME SudokuInit
             PROVE  SudokuInv
  OBVIOUS
<1>1. /\ origin_board \in Boards /\ solve_board = origin_board /\ service = origin_board
      /\ cell = 0 /\ calls = <<>> /\ spc = "call" /\ Len(calls) = 0
  BY DEF SudokuInit
<1>2. SudokuTypeOK
  BY <1>1, SudokuAssumption, CellOrder DEF SudokuTypeOK
<1>3. StackInv
  BY <1>1 DEF StackInv
<1>4. BoardInv
  <2>1. \A p \in Cells : ~(p < 0)
    BY CellOrder
  <2>2. QED
    BY <1>1, <2>1, SudokuAssumption DEF BoardInv
<1>5. SearchInv
  BY <1>1 DEF SearchInv, Ahead, OnPath
<1>6. QED
  BY <1>1, <1>2, <1>3, <1>4, <1>5 DEF SudokuInv, SolvesWhatCanBe

LEMMA SudokuInvNext == SudokuInv /\ [SudokuNext]_sudokuVars => SudokuInv'
<1> SUFFICES ASSUME SudokuInv, [SudokuNext]_sudokuVars
             PROVE  SudokuInv'
  OBVIOUS
<1>1. CASE SolveCall
  BY <1>1, SolveCallStep
<1>2. CASE TryNum
  BY <1>2, SafeNumberStep, UnsafeNumberStep DEF TryNum
<1>3. CASE ReturnFalse
  BY <1>3, ReturnFalseStep
<1>4. CASE Submit
  BY <1>4, SubmitStep
<1>5. CASE UNCHANGED sudokuVars
  <2> USE <1>5 DEF sudokuVars
  <2>1. SudokuTypeOK' /\ StackInv' /\ SolvesWhatCanBe'
    BY DEF SudokuInv, SudokuTypeOK, StackInv, SolvesWhatCanBe
  <2>2. BoardInv'
    BY DEF SudokuInv, BoardInv, HasCall, Top
  <2>3. SearchInv'
    BY DEF SudokuInv, SearchInv, Solutions, Ahead, BranchesOff, OnPath
  <2>4. QED
    BY <2>1, <2>2, <2>3 DEF SudokuInv
<1>6. QED
  BY <1>1, <1>2, <1>3, <1>4, <1>5 DEF SudokuNext

(* solveSudoku, for every size of board: the calls on the stack are the    *)
(* blanks before the cell in hand, the board never contradicts itself, and *)
(* no solution is ever behind the search.                                  *)
THEOREM SudokuCorrect == SudokuSpec => []SudokuInv
BY SudokuInvInit, SudokuInvNext, PTL DEF SudokuSpec

(* For every size of board and every board without a contradiction: what   *)
(* the solver submits completes the board if that can be done, and "no     *)
(* solution" is only said, with every blank blank again, where there is    *)
(* none (solveSudoku and main of solver.cpp).                              *)
THEOREM SudokuSolves == SudokuSpec => []SolvesWhatCanBe
<1>1. SudokuInv => SolvesWhatCanBe
  BY DEF SudokuInv
<1>2. QED
  BY <1>1, SudokuCorrect, PTL
=============================================================================
