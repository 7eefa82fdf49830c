------------------------------- MODULE VmStack -------------------------------
(***************************************************************************)
(* The stack of the virtual machine, and its unwinding after a crash.       *)
(*                                                                         *)
(* The stack holds blocks: saved registers, saved contexts, headers of      *)
(* calls, return addresses and local variables.  An offset into the stack   *)
(* is the number of blocks below it.  A program that crashes stops at the   *)
(* instruction that failed; when the VM is reset, the reverse VM runs the    *)
(* code from there in a straight line, doing only what takes blocks off the *)
(* stack, and skips the release of what the walk itself would have pushed.  *)
(*                                                                         *)
(* What the registers hold is left out: any jump may be taken, a call may   *)
(* reach any function, and what depends on a value may fail.                *)
(***************************************************************************)
EXTENDS Integers, Sequences, SequencesExt

CONSTANTS
  Bytecode,    \* the instructions of the program
  StackSize,   \* size of the stack, in the units blocks are aligned to
  BlockSize    \* size of a block of each kind, without its variables

Code == Bytecode

\* Where the functions of the program start; the main function is the first.
Main == 1
Entries == {i \in DOMAIN Code : Code[i].op = "save_arg_offset"}

Kinds == {"var", "ctx", "header", "return", "locals"}

ASSUME VmStackAssumption ==
  /\ Main \in Entries
  /\ StackSize \in Nat
  /\ BlockSize \in [Kinds -> Nat \ {0}]
  /\ BlockSize["header"] + BlockSize["return"] <= StackSize

VARIABLES
  mode,    \* created, running, crashed, unwinding, stopped or reset
  ip,      \* instruction_pointer, 0 for none
  stack,   \* the blocks
  saved,   \* saved_argument_offset: the header of the running function
  arg,     \* argument_offset: the header of the call being prepared
  loc,     \* local_var_offset: the locals of the running function
  skip     \* reverse_state: releases the reverse VM has to skip, per kind

vars == <<mode, ip, stack, saved, arg, loc, skip>>
frame == <<saved, arg, loc>>

Opcode == Code[ip].op
Top == stack[Len(stack)]
Pop(n) == SubSeq(stack, 1, Len(stack) - n)
TopIs(kind) == stack # <<>> /\ Top.kind = kind
IsBlock(offset, kind) == offset < Len(stack) /\ stack[offset + 1].kind = kind
IsTop(offset, kind) == offset = Len(stack) - 1 /\ TopIs(kind)

Block(kind, n, f) ==
  [kind |-> kind, n |-> n, saved |-> f[1], arg |-> f[2], loc |-> f[3],
   ip |-> 0, vm_exit |-> FALSE]
SizeOf(b) == BlockSize[b.kind] + b.n
Used == FoldLeft(LAMBDA sum, b : sum + SizeOf(b), 0, stack)

Fits(b) == Used + SizeOf(b) <= StackSize

\* Opcodes by the part of the stack they use.
LocalOps == {"get_loc", "set_loc", "get_loc_ref"}
FunctionOps == {"get_arg", "set_arg", "get_arg_ref", "get_this", "get_super"}
CallOps == {"set_call_arg", "set_call_this", "set_call_super", "set_return"}
FallibleOps == {"get_prop", "set_prop", "delete_prop", "set_std_flags"}
PlainOps == {"label", "load", "mov", "init", "alu", "convert_boolean", "get_ref",
             "set_ref", "get_type", "create_obj"}
PushOps == {"save_var", "save_ctx", "alloc_vars", "alloc_args"}

\* What an instruction takes off the stack, or reaches through an offset, is
\* what it expects there.
Finds(op) ==
  CASE op = "restore_var" -> TopIs("var")
    [] op = "restore_ctx" -> TopIs("ctx")
    [] op = "free_vars" -> loc > 0 /\ IsTop(loc, "locals")
    [] op = "free_args" -> IsTop(arg, "header")
    [] op = "return" -> TopIs("return") /\ (Top.vm_exit => arg = Len(stack) - 2)
    [] op \in LocalOps -> loc > 0 /\ IsBlock(loc, "locals")
    [] op \in FunctionOps -> IsBlock(saved, "header")
    [] op \in CallOps \union {"call"} -> IsBlock(arg, "header")
    [] OTHER -> TRUE

-----------------------------------------------------------------------------
(* What an instruction does to the stack and the offsets.                   *)

Push(b) == stack' = Append(stack, b)

RestoreVar == stack' = Pop(1) /\ UNCHANGED frame

\* Mutant: argument_offset is not restored.
RestoreCtxKeepsArg ==
  /\ stack' = Pop(1)
  /\ saved' = Top.saved
  /\ loc' = Top.loc
  /\ UNCHANGED arg

RestoreCtx ==
  /\ stack' = Pop(1)
  /\ saved' = Top.saved
  /\ arg' = Top.arg
  /\ loc' = Top.loc

FreeVars == stack' = Pop(1) /\ loc' = Top.loc /\ UNCHANGED <<saved, arg>>

FreeArgs == stack' = Pop(1) /\ UNCHANGED frame

\* The return of the main function frees its header too, and stops the VM.
Return ==
  /\ stack' = Pop(IF Top.vm_exit THEN 2 ELSE 1)
  /\ saved' = Top.saved
  /\ arg' = Top.arg
  /\ ip' = Top.ip
  /\ mode' = IF Top.vm_exit THEN "stopped" ELSE mode
  /\ UNCHANGED <<loc, skip>>

-----------------------------------------------------------------------------
(* The VM.                                                                 *)

Running(ops) == mode = "running" /\ Opcode \in ops /\ Finds(Opcode)
Step == ip' = ip + 1 /\ UNCHANGED <<mode, skip>>

\* simplejs_vm_call_function with the main function, as the program does it.
\* The slot for argument_offset is given the argument count.
CallMain ==
  /\ mode = "created"
  /\ stack' = << Block("header", 0, <<0, 0, 0>>),
                 [Block("return", 0, <<saved, 0, 0>>) EXCEPT !.vm_exit = TRUE] >>
  /\ mode' = "running"
  /\ ip' = Main
  /\ arg' = 0
  /\ UNCHANGED <<saved, loc, skip>>

\* What a pushing instruction pushes, and the offsets it sets.
Pushed ==
  CASE Opcode \in {"save_var", "save_ctx"} -> Block(IF Opcode = "save_var" THEN "var" ELSE "ctx", 0, frame)
    [] Opcode = "alloc_vars" -> Block("locals", Code[ip].n, frame)
    [] Opcode = "alloc_args" -> Block("header", Code[ip].n, frame)

\* alloc_vars and alloc_args set their offset before they look for room.
SetOffsets ==
  /\ loc' = IF Opcode = "alloc_vars" THEN Len(stack) ELSE loc
  /\ arg' = IF Opcode = "alloc_args" THEN Len(stack) ELSE arg
  /\ UNCHANGED saved

VmPush ==
  /\ Running(PushOps)
  /\ Fits(Pushed)
  /\ Push(Pushed)
  /\ SetOffsets
  /\ Step

Overflow ==
  /\ Running(PushOps)
  /\ ~Fits(Pushed)
  /\ SetOffsets
  /\ mode' = "crashed"
  /\ UNCHANGED <<ip, stack, skip>>

VmRestoreVar == Running({"restore_var"}) /\ RestoreVar /\ Step
VmRestoreCtx == Running({"restore_ctx"}) /\ RestoreCtx /\ Step
VmFreeVars == Running({"free_vars"}) /\ FreeVars /\ Step
VmFreeArgs == Running({"free_args"}) /\ FreeArgs /\ Step

VmSaveArgOffset ==
  /\ Running({"save_arg_offset"})
  /\ saved' = arg
  /\ UNCHANGED <<stack, arg, loc>>
  /\ Step

ReturnBlock == [Block("return", 0, frame) EXCEPT !.ip = ip + 1]

VmCallNative(entry) ==
  /\ Running({"call"})
  /\ Fits(ReturnBlock)
  /\ Push(ReturnBlock)
  /\ ip' = entry
  /\ UNCHANGED <<mode, frame, skip>>

\* A function of a plugin or of a builtin object: it leaves the stack alone.
VmCallProxy == Running({"call"}) /\ UNCHANGED <<stack, frame>> /\ Step

VmReturn == Running({"return"}) /\ Return

VmJump(taken) ==
  /\ Running({"jmp", "jmp_if_zero", "jmp_if_not_zero"})
  /\ Opcode = "jmp" => taken
  /\ ip' = ip + 1 + (IF taken THEN Code[ip].n ELSE 0)
  /\ UNCHANGED <<mode, stack, frame, skip>>

VmPlain ==
  /\ Running(PlainOps \union LocalOps \union FunctionOps \union CallOps \union FallibleOps)
  /\ UNCHANGED <<stack, frame>>
  /\ Step

\* Not a function, a failing proxy, no room for the return address; or no
\* object, or an object that refuses.
VmFail ==
  /\ Running(FallibleOps \union {"call"})
  /\ mode' = "crashed"
  /\ UNCHANGED <<ip, stack, frame, skip>>

-----------------------------------------------------------------------------
(* The reset of the VM: unwinding, then everything is cleared.              *)

NoSkips == [k \in {"var", "ctx", "locals", "header"} |-> 0]

\* Mutant: only a program that crashed in a function it called is unwound.
StartUnwindingInCalls ==
  /\ mode = "crashed"
  /\ mode' = IF ip = 0 \/ saved = 0 THEN "stopped" ELSE "unwinding"
  /\ skip' = NoSkips
  /\ UNCHANGED <<ip, stack, frame>>

\* The stack of a program that did not exit is unwound, whatever is on it.
StartUnwinding ==
  /\ mode = "crashed"
  /\ mode' = IF ip = 0 \/ stack = <<>> THEN "stopped" ELSE "unwinding"
  /\ skip' = NoSkips
  /\ UNCHANGED <<ip, stack, frame>>

KindOf(op) ==
  CASE op \in {"save_var", "restore_var"} -> "var"
    [] op \in {"save_ctx", "restore_ctx"} -> "ctx"
    [] op \in {"alloc_vars", "free_vars"} -> "locals"
    [] op \in {"alloc_args", "free_args"} -> "header"

ReleaseOps == {"restore_var", "restore_ctx", "free_vars", "free_args"}
Skipped == Opcode \in ReleaseOps /\ skip[KindOf(Opcode)] > 0
Unwinding(ops) == mode = "unwinding" /\ Opcode \in ops

ReversePush ==
  /\ Unwinding(PushOps)
  /\ skip' = [skip EXCEPT ![KindOf(Opcode)] = @ + 1]
  /\ ip' = ip + 1
  /\ UNCHANGED <<mode, stack, frame>>

ReverseSkip ==
  /\ Unwinding(ReleaseOps)
  /\ Skipped
  /\ skip' = [skip EXCEPT ![KindOf(Opcode)] = @ - 1]
  /\ ip' = ip + 1
  /\ UNCHANGED <<mode, stack, frame>>

ReverseRelease ==
  /\ Unwinding(ReleaseOps)
  /\ ~Skipped
  /\ Finds(Opcode)
  /\ \/ Opcode = "restore_var" /\ RestoreVar
     \/ Opcode = "restore_ctx" /\ RestoreCtx
     \/ Opcode = "free_vars" /\ FreeVars
     \/ Opcode = "free_args" /\ FreeArgs
  /\ Step

ReverseReturn == Unwinding({"return"}) /\ Finds(Opcode) /\ Return

\* Mutant: the walk follows the jumps of the program.
ReverseNopJumps ==
  /\ mode = "unwinding"
  /\ Opcode \notin PushOps \union ReleaseOps \union {"return"}
  /\ ip' = ip + 1 + (IF Opcode = "jmp" THEN Code[ip].n ELSE 0)
  /\ UNCHANGED <<mode, stack, frame, skip>>

ReverseNop ==
  /\ mode = "unwinding"
  /\ Opcode \notin PushOps \union ReleaseOps \union {"return"}
  /\ UNCHANGED <<stack, frame>>
  /\ Step

\* The state of the VM is cleared with whatever is left on the stack.
Reset ==
  /\ mode = "stopped"
  /\ mode' = "reset"
  /\ ip' = 0
  /\ stack' = <<>>
  /\ saved' = 0 /\ arg' = 0 /\ loc' = 0
  /\ UNCHANGED skip

Done == mode = "reset" /\ UNCHANGED vars

Init ==
  /\ mode = "created"
  /\ ip = 0
  /\ stack = <<>>
  /\ saved = 0 /\ arg = 0 /\ loc = 0
  /\ skip = NoSkips

Execute ==
  \/ VmPush \/ Overflow \/ VmRestoreVar \/ VmRestoreCtx \/ VmFreeVars \/ VmFreeArgs
  \/ VmSaveArgOffset \/ VmCallProxy \/ VmReturn \/ VmPlain \/ VmFail
  \/ \E entry \in Entries : VmCallNative(entry)
  \/ \E taken \in BOOLEAN : VmJump(taken)

Unwind ==
  \/ StartUnwinding \/ ReversePush \/ ReverseSkip \/ ReverseRelease
  \/ ReverseReturn \/ ReverseNop \/ Reset

Next == CallMain \/ Execute \/ Unwind \/ Done

Spec == Init /\ [][Next]_vars

\* Resetting a VM is one loop of the thread that ran it.
FairSpec == Spec /\ WF_vars(Unwind)

-----------------------------------------------------------------------------
(* Properties.                                                             *)

\* Running or unwinding, no instruction takes a block off the stack that is not
\* of the kind it releases, nor one below the top, nor reaches a block of
\* another kind through an offset.
FindsItsBlocks ==
  \/ mode = "running"
  \/ mode = "unwinding" /\ Opcode \in ReleaseOps \union {"return"} /\ ~Skipped
  => Finds(Opcode)

\* An instruction reaches the locals and the arguments of the function that
\* runs it, and a call it prepares is the innermost one, with a slot for every
\* argument: save_ctx, restore_ctx and the return blocks bring the offsets of
\* every function back, whatever it called.
OwnFrame ==
  mode = "running" =>
    LET above(offset, kind) == \E i \in (offset + 2) .. Len(stack) : stack[i].kind = kind
    IN /\ Opcode \in LocalOps \union {"free_vars"} => ~above(loc, "locals")
       /\ Opcode \in FunctionOps =>
            \E i \in (saved + 2) .. Len(stack) :
              /\ stack[i].kind = "return"
              /\ ~above(i - 1, "return")
              /\ \A j \in (saved + 2) .. i : stack[j].kind # "header"
       /\ Opcode \in CallOps \union {"call", "free_args"} =>
            ~above(arg, "header") /\ (Opcode # "set_return" => ~above(arg, "return"))
       /\ Opcode = "set_call_arg" => IsBlock(arg, "header") /\ Code[ip].n < stack[arg + 1].n

\* What compiled code finds on the stack is what it left there, and its own.
StackAgrees == FindsItsBlocks /\ OwnFrame

\* Whatever instruction failed, and however deep, the straight walk of the
\* reverse VM has taken every block off the stack when the VM is cleared: no
\* variable is dropped that still counts as a holder of an object.
NothingLeftAtReset == [][mode' = "reset" /\ mode # "reset" => stack = <<>>]_vars

\* The walk never loops: a VM that crashed is reset.
CrashEndsInReset == mode = "crashed" ~> mode = "reset"
=============================================================================
