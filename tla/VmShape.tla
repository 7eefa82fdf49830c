------------------------------- MODULE VmShape -------------------------------
(***************************************************************************)
(* The discipline of the code generator, for any code: what it needs to     *)
(* keep to for the VM to find on the stack what it expects there.           *)
(*                                                                         *)
(* A shape says of every instruction what its function has on the stack     *)
(* when it is reached, whichever way: the blocks above the return address,  *)
(* each with the offsets it was pushed with, and where argument_offset and   *)
(* local_var_offset point.                                                  *)
(***************************************************************************)
EXTENDS VmStack

CONSTANT Shape  \* the shape of the program

\* Where an offset points: at the n-th block of the function for n > 0, at the
\* header the function was called with, or anywhere.
Offsets == Nat \union {-1}
Anywhere == -1
OwnHeader == 0

LocalKinds == {"var", "ctx", "locals", "header"}
ShapeBlocks == [kind : LocalKinds, n : Int, arg : Offsets, loc : Offsets]
Shapes == [blocks : Seq(ShapeBlocks), arg : Offsets, loc : Offsets]

AtEntry == [blocks |-> <<>>, arg |-> OwnHeader, loc |-> Anywhere]

\* One may expect less than what is known: nothing at all.
Expects(place, known) == place \in {Anywhere, known}

\* The block an instruction that finds the stack as in now pushes.
PushedShape(i, now) ==
  [kind |-> KindOf(i.op), n |-> IF i.op \in {"alloc_vars", "alloc_args"} THEN i.n ELSE 0,
   arg |-> now.arg, loc |-> now.loc]

\* The innermost block of the kind is the n-th one.
Innermost(blocks, n, kind) ==
  /\ n \in DOMAIN blocks
  /\ blocks[n].kind = kind
  /\ \A j \in n + 1 .. Len(blocks) : blocks[j].kind # kind

\* An instruction finds the blocks it needs, and they are its function's own.
Finding(i, now) ==
  LET count == Len(now.blocks)
  IN /\ i.op \in ReleaseOps => count > 0 /\ now.blocks[count].kind = KindOf(i.op)
     /\ i.op = "free_vars" => now.loc = count
     /\ i.op = "free_args" => now.arg = count
     /\ i.op \in LocalOps => Innermost(now.blocks, now.loc, "locals")
     /\ i.op \in (CallOps \ {"set_return"}) \union {"call"} =>
          Innermost(now.blocks, now.arg, "header")
     /\ i.op = "set_return" =>
          \/ Innermost(now.blocks, now.arg, "header")
          \/ now.arg = OwnHeader /\ \A j \in 1 .. count : now.blocks[j].kind # "header"
     /\ i.op = "set_call_arg" => i.n < now.blocks[now.arg].n
     /\ i.op = "alloc_vars" => now.loc = Anywhere
     /\ i.op = "return" => now.blocks = <<>> /\ now.arg = OwnHeader

\* What argument_offset is when a block is gone, or was never pushed: what it
\* was before the block, but a header does not bring it back.
ArgBehind(block) == IF block.kind = "header" THEN Anywhere ELSE block.arg

\* An instruction leaves what the next one expects.
Leaving(i, now, next) ==
  LET count == Len(now.blocks)
      top == now.blocks[count]
  IN CASE i.op \in PushOps ->
            /\ next.blocks = Append(now.blocks, PushedShape(i, now))
            /\ Expects(next.arg, IF i.op = "alloc_args" THEN count + 1 ELSE now.arg)
            /\ Expects(next.loc, IF i.op = "alloc_vars" THEN count + 1 ELSE now.loc)
       [] i.op \in ReleaseOps ->
            /\ now.blocks = Append(next.blocks, top)
            /\ Expects(next.arg, ArgBehind(top)) /\ Expects(next.loc, top.loc)
            /\ i.op # "restore_ctx" => Expects(next.arg, now.arg)
            /\ i.op \notin {"restore_ctx", "free_vars"} => Expects(next.loc, now.loc)
       [] OTHER ->
            /\ next.blocks = now.blocks
            /\ Expects(next.arg, now.arg)
            /\ Expects(next.loc, IF i.op = "call" THEN Anywhere ELSE now.loc)

\* A jump leaves everything as it is.
Landing(now, there) ==
  there.blocks = now.blocks /\ Expects(there.arg, now.arg) /\ Expects(there.loc, now.loc)

JumpOps == {"jmp", "jmp_if_zero", "jmp_if_not_zero"}

WellShaped(code, shape) ==
  LET inside == {i \in DOMAIN code : code[i].op # "save_arg_offset"}
  IN /\ DOMAIN code \subseteq Nat \ {0}
     /\ \A i \in DOMAIN code :
          /\ code[i].n \in Int
          /\ shape[i] \in Shapes
          /\ i \notin inside => shape[i] = AtEntry
          /\ Finding(code[i], shape[i])
          /\ code[i].op # "return" => i + 1 \in inside /\ Leaving(code[i], shape[i], shape[i + 1])
          /\ code[i].op \in JumpOps =>
               LET target == i + 1 + code[i].n
               IN target \in inside /\ Landing(shape[i], shape[target])

ASSUME VmShapeAssumption == WellShaped(Code, Shape)
=============================================================================
