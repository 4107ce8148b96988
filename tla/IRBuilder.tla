----------------------------- MODULE IRBuilder ------------------------------
(***************************************************************************)
(* llvmlite.ir.IRBuilder on the blocks of one function: where it stands,   *)
(* what it inserts there, and the context managers that move it            *)
(* (goto_block, if_then, if_else).  An instruction is either "plain" or a  *)
(* terminator, "term".                                                     *)
(*                                                                         *)
(* A "with" statement is a frame of the stack: its body runs while the     *)
(* frame is on top.                                                        *)
(***************************************************************************)
EXTENDS Naturals, FiniteSets, SequencesExt

CONSTANTS
    Styles,     \* what the callers do: see MayInsert and MayBranch
    MaxBlocks, MaxCode, MaxFrames  \* bounds, for each style: blocks, instructions
                                   \* per block, and nested "with" statements

ASSUME IRBuilderAssumption ==
    /\ Styles \subseteq {"ends", "any"}
    /\ {MaxBlocks, MaxCode, MaxFrames} \subseteq [Styles -> Nat \ {0}]

VARIABLES
    code,        \* code[b]: Block.instructions of the function's b-th block
    terminated,  \* terminated[b]: Block.is_terminated
    block,       \* IRBuilder._block
    anchor,      \* IRBuilder._anchor
    stack,       \* the "with" statements being executed
    style        \* what the caller of this builder does; it does not change

vars == <<code, terminated, block, anchor, stack, style>>

(***************************************************************************)
(* goto  goto_block(...): old is old_block                                 *)
(* then  if_then(...): end is bbend                                        *)
(* both  if_else(...): arms are the blocks not entered yet                 *)
(* arm   _branch_helper(...) of an if_else: end is bbexit                  *)
(***************************************************************************)
Blocks == 1 .. Len(code)
Goto(b) == [kind |-> "goto", old |-> b]
Then(b) == [kind |-> "then", end |-> b]
Both(b, arms) == [kind |-> "both", end |-> b, arms |-> arms]
Arm(b) == [kind |-> "arm", end |-> b]

Top == Last(stack)
In(kind) == stack # <<>> /\ Top.kind = kind
Push(frame) == stack' = Append(stack, frame)
Pop == stack' = Front(stack)

\* position_at_end, in the blocks as they are after the step
PositionAtEnd(b) == block' = b /\ anchor' = Len(code'[b])

\* _insert
Insert(kind) == code' = [code EXCEPT ![block] = InsertAt(@, anchor + 1, kind)]

\* The code of c after append_basic_block has been called n times.
AppendBlocks(c, n) == c \o [i \in 1..n |-> <<>>]

Room(n) == Len(code) + n <= MaxBlocks[style]
RoomIn(b) == Len(code[b]) < MaxCode[style]
RoomFor(n) == Len(stack) < MaxFrames[style] + n

\* The blocks that a "with" statement goes back to, or has yet to enter.
Pending(frame) ==
    CASE frame.kind = "goto" -> {frame.old}
      [] frame.kind = "both" -> {frame.end} \cup frame.arms
      [] OTHER -> {frame.end}

\* What the caller does outside the body of an if_else (but in its arms).
\* "ends"    It builds at the ends of blocks: plain instructions go into the
\*           current block until it is terminated, or into any block by
\*           goto_block, which positions "before any terminator"; control flow
\*           goes at the end of the current block, outside goto_block.
\* "any"     It moves, inserts and branches anywhere, and the body of a "with"
\*           statement may raise.
MayInsert ==
    /\ ~In("both")
    /\ style = "ends" => In("goto") \/ ~terminated[block]

MayBranch ==
    /\ ~In("both")
    /\ style = "ends" => ~In("goto") /\ ~terminated[block]

-----------------------------------------------------------------------------
\* IRBuilder(function.append_basic_block())
Init ==
    /\ code = << <<>> >>
    /\ terminated = <<FALSE>>
    /\ block = 1
    /\ anchor = 0
    /\ stack = <<>>
    /\ style \in Styles

\* Any method that inserts an instruction other than a terminator.
InsertPlain ==
    /\ MayInsert
    /\ RoomIn(block)
    /\ Insert("plain")
    /\ anchor' = anchor + 1
    /\ UNCHANGED <<terminated, block, stack, style>>

\* _set_terminator: "assert not self.block.is_terminated"
SetTerminator ==
    /\ ~terminated[block]
    /\ Insert("term")
    /\ terminated' = [terminated EXCEPT ![block] = TRUE]
    /\ anchor' = anchor + 1

\* branch, cbranch, switch, ret...
Terminate ==
    /\ MayBranch
    /\ RoomIn(block)
    /\ SetTerminator
    /\ UNCHANGED <<block, stack, style>>

\* position_at_start, position_at_end, position_before, position_after: "the
\* current block is also changed to the instruction's basic block".
Move ==
    /\ style # "ends" /\ ~In("both")
    /\ \E b \in Blocks : \E a \in 0 .. Len(code[b]) :
          block' = b /\ anchor' = a
    /\ UNCHANGED <<code, terminated, stack, style>>

\* Mutant of remove: the block keeps its terminator.
RemoveKeepsTerminator(i) ==
    /\ ~In("both")
    /\ style = "ends" => code[block][i] = "plain"
    /\ code' = [code EXCEPT ![block] = RemoveAt(@, i)]
    /\ anchor' = IF anchor > i - 1 THEN anchor - 1 ELSE anchor
    /\ UNCHANGED <<terminated, block, stack, style>>

\* remove, of the i-th instruction of the current block
RemoveInstruction(i) ==
    /\ ~In("both")
    /\ style = "ends" => code[block][i] = "plain"
    /\ code' = [code EXCEPT ![block] = RemoveAt(@, i)]
    /\ terminated' = [terminated EXCEPT ![block] = @ /\ code[block][i] # "term"]
    /\ anchor' = IF anchor > i - 1 THEN anchor - 1 ELSE anchor
    /\ UNCHANGED <<block, stack, style>>

-----------------------------------------------------------------------------
MayEnter == RoomFor(0) /\ ~In("both")

\* Mutant: goto_block without the test for a terminator.
EnterGotoAtEnd(b) ==
    /\ MayEnter
    /\ style = "ends" => ~In("goto")
    /\ Push(Goto(block))
    /\ UNCHANGED <<code, terminated, style>>
    /\ PositionAtEnd(b)

\* goto_block, goto_entry_block: position before the terminator, or at the end.
EnterGoto(b) ==
    /\ MayEnter
    /\ style = "ends" => ~In("goto")
    /\ Push(Goto(block))
    /\ UNCHANGED <<code, terminated, style>>
    /\ IF terminated[b]
       THEN block' = b /\ anchor' = SelectInSeq(code[b], LAMBDA k : k = "term") - 1
       ELSE PositionAtEnd(b)

\* The body ends, or raises: the position is set in a finally clause.
LeaveGoto ==
    /\ In("goto")
    /\ Pop
    /\ UNCHANGED <<code, terminated, style>>
    /\ PositionAtEnd(Top.old)

\* if_then: two blocks are appended, the current one is terminated, and the
\* body begins in the first.
EnterThen ==
    /\ MayEnter /\ MayBranch
    /\ Room(2) /\ RoomIn(block)
    /\ ~terminated[block]
    /\ LET bbif == Len(code) + 1
           bbend == Len(code) + 2
       IN  /\ code' = AppendBlocks([code EXCEPT ![block] =
                                       InsertAt(@, anchor + 1, "term")], 2)
           /\ terminated' = [terminated EXCEPT ![block] = TRUE]
                               \o <<FALSE, FALSE>>
           /\ PositionAtEnd(bbif)
           /\ Push(Then(bbend))
    /\ UNCHANGED style

\* if_else: three blocks; the body, which is to enter the two arms, begins
\* where the builder was.
EnterBoth ==
    /\ MayEnter /\ MayBranch
    /\ Room(3) /\ RoomIn(block)
    /\ ~terminated[block]
    /\ LET bbif == Len(code) + 1
           bbelse == Len(code) + 2
           bbend == Len(code) + 3
       IN  /\ code' = AppendBlocks([code EXCEPT ![block] =
                                       InsertAt(@, anchor + 1, "term")], 3)
           /\ terminated' = [terminated EXCEPT ![block] = TRUE]
                               \o <<FALSE, FALSE, FALSE>>
           /\ Push(Both(bbend, {bbif, bbelse}))
    /\ anchor' = anchor + 1
    /\ UNCHANGED <<block, style>>

\* if_then or if_else (n blocks) in a block that is terminated: the blocks have
\* been appended when the assertion of _set_terminator fails.
EnterFails(n) ==
    /\ MayEnter /\ MayBranch
    /\ Room(n)
    /\ terminated[block]
    /\ code' = AppendBlocks(code, n)
    /\ terminated' = terminated \o [i \in 1..n |-> FALSE]
    /\ UNCHANGED <<block, anchor, stack, style>>

\* One of the two context managers that if_else yields.
EnterArm(b) ==
    /\ In("both")
    /\ RoomFor(1)
    /\ b \in Top.arms
    /\ stack' = Append([stack EXCEPT ![Len(stack)].arms = @ \ {b}], Arm(Top.end))
    /\ UNCHANGED <<code, terminated, style>>
    /\ PositionAtEnd(b)

\* Mutant: _branch_helper does not branch.
BranchHelperNoBranch == UNCHANGED <<code, terminated>>

\* _branch_helper, after its body: "if self.basic_block.terminator is None:
\* self.branch(bbexit)", at the anchor.
BranchHelper ==
    IF terminated[block]
    THEN UNCHANGED <<code, terminated>>
    ELSE /\ Insert("term")
         /\ terminated' = [terminated EXCEPT ![block] = TRUE]

LeaveThen ==
    /\ In("then")
    /\ BranchHelper
    /\ PositionAtEnd(Top.end)
    /\ Pop
    /\ UNCHANGED style

LeaveArm ==
    /\ In("arm")
    /\ BranchHelper
    /\ IF terminated[block] THEN UNCHANGED anchor ELSE anchor' = anchor + 1
    /\ Pop
    /\ UNCHANGED <<block, style>>

\* if_else ends; nothing makes the caller enter both arms.
LeaveBoth ==
    /\ In("both")
    /\ style = "ends" => Top.arms = {}
    /\ UNCHANGED <<code, terminated, style>>
    /\ PositionAtEnd(Top.end)
    /\ Pop

\* The body of an if_then, an if_else or an arm raises: nothing is cleaned up.
Raise ==
    /\ style = "any"
    /\ stack # <<>> /\ ~In("goto")
    /\ Pop
    /\ UNCHANGED <<code, terminated, block, anchor, style>>

Next ==
    \/ InsertPlain \/ Terminate \/ Move
    \/ \E i \in 1 .. Len(code[block]) : RemoveInstruction(i)
    \/ \E b \in Blocks : EnterGoto(b) \/ EnterArm(b)
    \/ LeaveGoto
    \/ EnterThen \/ EnterBoth \/ LeaveThen \/ LeaveArm \/ LeaveBoth
    \/ \E n \in {2, 3} : EnterFails(n)
    \/ Raise

Spec == Init /\ [][Next]_vars

-----------------------------------------------------------------------------
(* Properties *)

Frame ==
    [kind : {"goto"}, old : Blocks]
        \cup [kind : {"then", "arm"}, end : Blocks]
        \cup [kind : {"both"}, end : Blocks, arms : SUBSET Blocks]

TypeOK ==
    /\ code \in Seq(Seq({"plain", "term"})) /\ Len(code) >= 1
    /\ terminated \in [Blocks -> BOOLEAN]
    /\ block \in Blocks
    /\ anchor \in 0 .. Len(code[block])
    /\ stack \in Seq(Frame)
    /\ style \in Styles

\* Block.terminator is an instruction of the block, and the only terminator in
\* it, whatever has been inserted, removed and raised.
OneTerminator ==
    \A b \in Blocks :
        Cardinality({i \in 1 .. Len(code[b]) : code[b][i] = "term"})
            = IF terminated[b] THEN 1 ELSE 0

\* A terminator is the last instruction of its block ("a control flow
\* instruction (branch) can only appear as the last instruction", Block), if the
\* caller builds at the ends of blocks.
TerminatorLast ==
    style = "ends" =>
        \A b \in Blocks : \A i \in 1 .. Len(code[b]) :
            code[b][i] = "term" => i = Len(code[b])

\* The helpers leave no block open behind them: a block without a terminator is
\* the current one, or one that a "with" statement still has to come back to.
OpenBlocksArePending ==
    style = "ends" => \A b \in Blocks :
        \/ terminated[b]
        \/ b = block
        \/ \E i \in 1 .. Len(stack) : b \in Pending(stack[i])
=============================================================================
