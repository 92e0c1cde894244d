-------------------------------- MODULE Sudoku --------------------------------
(***************************************************************************)
(* The solver of lab_9_sudoku (solver.cpp): it takes a board from a        *)
(* service, completes it by backtracking, sends the number of each cell    *)
(* that was blank, and asks the service to check. The recursion of         *)
(* solveSudoku is a stack: calls that only pass their cell on return what  *)
(* the call they make returns, so only calls with a loop have a frame.     *)
(*                                                                         *)
(* The code fixes Box = 3. A cell is its number in row-major order.        *)
(***************************************************************************)
EXTENDS Integers, SequencesExt

CONSTANTS
    Box,          \* rows and columns of a box
    Boards        \* boards the service hands out

Side  == Box * Box
Cells == 0..(Side * Side - 1)
Row(p)   == p \div Side
Col(p)   == p % Side
BoxOf(p) == <<Row(p) \div Box, Col(p) \div Box>>
Peers(p) == {r \in Cells : Row(r) = Row(p) \/ Col(r) = Col(p) \/ BoxOf(r) = BoxOf(p)}

(* The service hands out boards whose numbers do not contradict each other.*)
ASSUME SudokuAssumption ==
    /\ Box \in Nat \ {0} /\ Boards \subseteq [Cells -> 0..Side]
    /\ \A b \in Boards : \A p \in Cells : \A r \in Peers(p) \ {p} :
          b[p] # 0 => b[p] # b[r]

VARIABLES
    origin_board, solve_board,
    cell,         \* the cell solveSudoku is called for
    calls,        \* frames in their loop: [at: cell, num: number]
    spc,          \* "call", "loop", "solved", "failed", "checked"
    service       \* the board at the service

sudokuVars == <<origin_board, solve_board, cell, calls, spc, service>>

SudokuTypeOK ==
    /\ origin_board \in Boards /\ solve_board \in [Cells -> 0..Side]
    /\ service \in [Cells -> 0..Side]
    /\ cell \in 0..(Side * Side)
    /\ calls \in Seq([at : Cells, num : 1..(Side + 1)])
    /\ spc \in {"call", "loop", "solved", "failed", "checked"}

SudokuInit ==
    /\ origin_board \in Boards /\ solve_board = origin_board /\ service = origin_board
    /\ cell = 0 /\ calls = <<>> /\ spc = "call"

isSafe(grid, p, num) == \A r \in Peers(p) : grid[r] # num

Top == calls[Len(calls)]
NextNum(s) == [s EXCEPT ![Len(s)].num = @ + 1]

(* solveSudoku(grid, cell): past the last cell every call returns true, a  *)
(* number that is there passes the call on, a blank starts a loop.         *)
SolveCall ==
    /\ spc = "call"
    /\ \/ /\ cell = Side * Side /\ spc' = "solved" /\ UNCHANGED <<cell, calls>>
       \/ /\ cell # Side * Side /\ solve_board[cell] > 0
          /\ cell' = cell + 1 /\ UNCHANGED <<spc, calls>>
       \/ /\ cell # Side * Side /\ solve_board[cell] = 0
          /\ calls' = Append(calls, [at |-> cell, num |-> 1])
          /\ spc' = "loop" /\ UNCHANGED cell
    /\ UNCHANGED <<origin_board, solve_board, service>>

(* Mutant: a loop with one number too many.                                *)
TryNumOnePast ==
    /\ spc = "loop" /\ Top.num <= Side + 1
    /\ \/ /\ isSafe(solve_board, Top.at, Top.num)
          /\ solve_board' = [solve_board EXCEPT ![Top.at] = Top.num]
          /\ cell' = Top.at + 1 /\ spc' = "call" /\ UNCHANGED calls
       \/ /\ ~isSafe(solve_board, Top.at, Top.num)
          /\ solve_board' = [solve_board EXCEPT ![Top.at] = 0]
          /\ calls' = NextNum(calls) /\ UNCHANGED <<cell, spc>>
    /\ UNCHANGED <<origin_board, service>>

(* One turn of the loop: a safe number is placed and the next cell called, *)
(* otherwise the cell is blank again and the next number has its turn.     *)
TryNum ==
    /\ spc = "loop" /\ Top.num <= Side
    /\ \/ /\ isSafe(solve_board, Top.at, Top.num)
          /\ solve_board' = [solve_board EXCEPT ![Top.at] = Top.num]
          /\ cell' = Top.at + 1 /\ spc' = "call" /\ UNCHANGED calls
       \/ /\ ~isSafe(solve_board, Top.at, Top.num)
          /\ solve_board' = [solve_board EXCEPT ![Top.at] = 0]
          /\ calls' = NextNum(calls) /\ UNCHANGED <<cell, spc>>
    /\ UNCHANGED <<origin_board, service>>

(* Mutants: the caller keeps its number when it goes on; it tries the same *)
(* number again.                                                           *)
ReturnFalseKeeps ==
    /\ spc = "loop" /\ Top.num > Side
    /\ LET callers == Front(calls)
       IN  IF callers = <<>> THEN calls' = <<>> /\ spc' = "failed"
                             ELSE calls' = NextNum(callers) /\ UNCHANGED spc
    /\ UNCHANGED <<origin_board, solve_board, cell, service>>
ReturnFalseRepeats ==
    /\ spc = "loop" /\ Top.num > Side
    /\ calls' = Front(calls)
    /\ IF calls' = <<>>
       THEN spc' = "failed" /\ UNCHANGED solve_board
       ELSE solve_board' = [solve_board EXCEPT ![calls'[Len(calls')].at] = 0]
            /\ UNCHANGED spc
    /\ UNCHANGED <<origin_board, cell, service>>

(* The loop is over: false is returned to the last call that is in its     *)
(* loop, which blanks its cell and takes its next number.                  *)
ReturnFalse ==
    /\ spc = "loop" /\ Top.num > Side
    /\ LET callers == Front(calls)
       IN  \/ callers = <<>> /\ calls' = <<>> /\ spc' = "failed" /\ UNCHANGED solve_board
           \/ /\ callers # <<>> /\ calls' = NextNum(callers)
              /\ solve_board' = [solve_board EXCEPT ![callers[Len(callers)].at] = 0]
              /\ UNCHANGED spc
    /\ UNCHANGED <<origin_board, cell, service>>

(* main sends every cell that was blank, solved or not, and then "C".      *)
Submit ==
    /\ spc \in {"solved", "failed"} /\ spc' = "checked"
    /\ service' = [p \in Cells |-> IF origin_board[p] # 0 THEN service[p]
                                                          ELSE solve_board[p]]
    /\ UNCHANGED <<origin_board, solve_board, cell, calls>>

SudokuNext == SolveCall \/ TryNum \/ ReturnFalse \/ Submit

SudokuSpec == SudokuInit /\ [][SudokuNext]_sudokuVars

-----------------------------------------------------------------------------
(* Correctness.                                                            *)

Completes(b, given) ==
    \A p \in Cells : /\ b[p] \in 1..Side /\ (given[p] # 0 => b[p] = given[p])
                     /\ \A r \in Peers(p) \ {p} : b[r] # b[p]

Blanks(given) == {p \in Cells : given[p] = 0}
Solvable(given) ==
    \E f \in [Blanks(given) -> 1..Side] :
        Completes([p \in Cells |-> IF given[p] = 0 THEN f[p] ELSE given[p]], given)

(* Backtracking leaves nothing out and nothing behind: the board that is   *)
(* checked at the service is a solution of the one it gave whenever that   *)
(* has one, and the search says there is none only where there is none.    *)
SolvesWhatCanBe ==
    /\ spc = "checked" => Completes(service, origin_board) \/ ~Solvable(origin_board)
    /\ spc = "failed" => ~Solvable(origin_board) /\ solve_board = origin_board

(* A search that is begun ends on every board, with blanks or without, and *)
(* the service is asked to check.                                          *)
SearchEnds == cell # 0 \/ spc # "call" ~> spc = "checked"

-----------------------------------------------------------------------------
(* The inductive invariant. The calls in their loop are blanks of the      *)
(* given board, from its start on; each has its number on the board, but   *)
(* for the last one while its loop looks for a number.                     *)
StackInv ==
    /\ \A i \in 1..Len(calls) :
          /\ origin_board[calls[i].at] = 0
          /\ solve_board[calls[i].at] =
                IF spc = "loop" /\ i = Len(calls) THEN 0 ELSE calls[i].num
          /\ spc = "call" => calls[i].at < cell
          /\ \A j \in 1..Len(calls) : i < j => calls[i].at < calls[j].at
    /\ spc = "loop" => calls # <<>>
    /\ spc = "solved" => cell = Side * Side
    /\ spc = "failed" => calls = <<>>

(* The board is the given one but for the calls' cells, no blank before    *)
(* the one in hand is passed over, and its numbers do not contradict each  *)
(* other.                                                                  *)
HasCall(p) == \E i \in 1..Len(calls) : calls[i].at = p

BoardInv ==
    /\ \A p \in Cells : solve_board[p] # origin_board[p] => HasCall(p)
    /\ spc \in {"call", "loop", "solved"} =>
          \A p \in Cells :
             /\ p < (IF spc = "loop" THEN Top.at ELSE cell)
             /\ origin_board[p] = 0
             => HasCall(p)
    /\ \A p \in Cells : \A r \in Peers(p) \ {p} :
          solve_board[p] # 0 => solve_board[p] # solve_board[r]

(* No solution is behind the search: each one is on the path the calls are *)
(* on, or branches off from it at a call that has yet to try its number.   *)
Solutions == {s \in [Cells -> 1..Side] : Completes(s, origin_board)}

OnPath(s, n) == \A j \in 1..n : s[calls[j].at] = calls[j].num

BranchesOff(s, i) ==
    /\ OnPath(s, i - 1)
    /\ \/ s[calls[i].at] > calls[i].num
       \/ spc = "loop" /\ i = Len(calls) /\ s[calls[i].at] = calls[i].num

Ahead(s) ==
    \/ spc # "loop" /\ OnPath(s, Len(calls))
    \/ \E i \in 1..Len(calls) : BranchesOff(s, i)

SearchInv ==
    spc \in {"call", "loop", "solved"} => \A s \in Solutions : Ahead(s)

SudokuInv ==
    /\ SudokuTypeOK /\ StackInv /\ BoardInv /\ SearchInv
    /\ spc # "checked" => service = origin_board
    /\ SolvesWhatCanBe
=============================================================================
