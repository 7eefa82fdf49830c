------------------------------ MODULE Compiler ------------------------------
(***************************************************************************)
(* The code generator: from a syntax tree to the instructions of the VM.    *)
(*                                                                         *)
(* A node is [t |-> type, n |-> slot, count or name, c |-> children].  An   *)
(* instruction names up to three registers, has a number and, when it jumps *)
(* to a label of its function, the name of the label.  A jump is relative    *)
(* to the next instruction.  A label keeps a place of its own in the code,  *)
(* where the compiler emits nothing.  The load of a literal names its type  *)
(* and number, an operation has the number of its node.  The names the      *)
(* compiler loads itself and debug information are left out.                *)
(***************************************************************************)
EXTENDS Integers, Sequences

Instr(op, r, q, out, n) ==
  [op |-> op, r |-> r, q |-> q, out |-> out, n |-> n, label |-> ""]
Op(op, r) == Instr(op, r, "", "", 0)
Jump(op, r, n) == Instr(op, r, "", "", n)
Goto(name) == [Instr("jmp", "", "", "", 0) EXCEPT !.label = name]
Label(name) == [Instr("label", "", "", "", 0) EXCEPT !.label = name]

\* simplejs_compiler_reg_info_t: where an expression leaves its value.  Without
\* have_parent, reg_parent is reg_a and reg_super the super register.
Info(type, reg) ==
  [type |-> type, a |-> reg, b |-> reg, parent |-> reg, super |-> "super",
   sub_op |-> FALSE, sub_assign |-> FALSE, refetch |-> TRUE]

SubOp(R, reg) == [Info("read", reg) EXCEPT !.sub_op = ~R.sub_op]

\* Argument or local, read, written or referred to.
VariableCode(R, s) ==
  CASE R.type \in {"read", "read_ref", "write_ref"} ->
         <<Instr("get_" \o s.t, R.a, "", "", s.n)>>
    [] R.type = "write" -> <<Instr("set_" \o s.t, R.b, "", "", s.n)>>
    [] R.type = "get_ref" -> <<Instr("get_" \o s.t \o "_ref", R.a, "", "", s.n)>>
    [] OTHER -> <<Instr("mov", "class", "class", "", s.n)>>

RECURSIVE Operation(_, _), ArgumentsCode(_, _)

\* An argument goes to its slot as soon as its value is known.
ArgumentsCode(args, i) ==
  IF i > Len(args) THEN <<>>
  ELSE Operation(Info("read", "argument"), args[i])
         \o <<Instr("set_call_arg", "argument", "", "", i - 1)>>
         \o ArgumentsCode(args, i + 1)

ConstructorCode ==
  << Op("set_call_super", "function"), Instr("create_obj", "class", "function", "", 0),
     Op("load", "property"), Op("save_var", "class"), Op("set_call_this", "class"),
     Instr("get_prop", "class", "property", "function", 0) >>

\* A call, and with type "new" the creation of the object it initialises.
CallCode(R, s) ==
  LET reference == s.c[1]
      args == Tail(s.c)
      new == R.type = "new"
      target == [Info("read", "function") EXCEPT !.parent = "this"]
  IN <<Op("save_ctx", ""), Instr("alloc_args", R.a, "", "", Len(args))>>
     \o ArgumentsCode(args, 1)
     \o (IF reference.t = "property" THEN <<>>
         ELSE <<Op("init", "this"), Op("init", "super")>>)
     \o Operation(target, reference)
     \o (IF new THEN ConstructorCode
         ELSE <<Op("set_call_this", "this"), Op("set_call_super", "super")>>)
     \o <<Op("call", "function")>>
     \o (IF new THEN <<Op("restore_var", "class"), Op("set_return", "class")>>
         ELSE <<>>)
     \o <<Op("free_args", ""), Op("restore_ctx", "")>>

PropertyCode(R, s) ==
  LET property == IF R.sub_op THEN "property_b" ELSE "property"
      parent == IF s.c[1].t \in {"this", "super"} THEN R.a ELSE R.parent
      object == [Info("read", parent) EXCEPT !.parent = R.parent, !.super = R.super]
      access == CASE R.type = "write" -> "set_prop"
                  [] R.type = "delete" -> "delete_prop"
                  [] R.type = "read" -> "get_prop"
                  [] OTHER -> "mov"
  IN Operation(SubOp(R, property), s.c[2])
     \o <<Op("save_var", property)>>
     \o (IF R.refetch THEN Operation(object, s.c[1]) ELSE <<>>)
     \o <<Op("restore_var", property), Op("init", R.super),
          Instr(access, parent, property, R.b, 0)>>

LogicalCode(R, s) ==
  LET right == Operation(SubOp(R, "op_a"), s.c[2])
  IN Operation(SubOp(R, "op_a"), s.c[1])
     \o <<Jump(IF s.t = "and" THEN "jmp_if_zero" ELSE "jmp_if_not_zero",
               "op_a", Len(right))>>
     \o right
     \o <<Instr("convert_boolean", R.a, "op_a", "", 0)>>

\* ++ and --: the operand is evaluated to be read and again to be written.
StepCode(R, s) ==
  LET move == <<Instr("mov", R.a, "op_a", "", 0)>>
      assign_first == s.n = 1
  IN Operation(SubOp(R, "op_a"), s.c[1])
     \o (IF assign_first THEN move ELSE <<>>)
     \o <<Instr("alu", "op_a", "step", "", 0)>>
     \o Operation([Info("write", R.a) EXCEPT !.b = "op_a"], s.c[1])
     \o (IF assign_first THEN <<>> ELSE move)


\* With type "write" (an operation and assignment) the left side is an object
\* whose value is kept in the parent register, and is written at the end.
BinaryCode(R, s) ==
  LET is_assign == R.type = "write"
      left == IF is_assign
                THEN [SubOp(R, "op_a") EXCEPT !.parent = "parent", !.super = "class"]
                ELSE SubOp(R, "op_a")
      write == [Info("write", "parent") EXCEPT !.b = R.a, !.refetch = FALSE]
  IN Operation(left, s.c[1])
     \o (IF is_assign THEN <<Op("save_var", "parent")>> ELSE <<>>)
     \o <<Op("save_var", "op_a")>>
     \o Operation(SubOp(R, "op_b"), s.c[2])
     \o <<Op("restore_var", "op_a"), Instr("alu", "op_a", "op_b", R.a, s.n)>>
     \o (IF is_assign
           THEN <<Op("restore_var", "parent")>> \o Operation(write, s.c[1])
           ELSE <<>>)

AssignCode(R, s) ==
  LET reg_b == IF R.sub_assign THEN "assign_c" ELSE "assign_b"
  IN <<Op("save_var", R.a)>>
     \o Operation([Info("read", reg_b) EXCEPT !.sub_assign = ~R.sub_assign], s.c[2])
     \o <<Op("restore_var", R.a)>>
     \o Operation([Info("write", R.a) EXCEPT !.b = reg_b], s.c[1])

DereferenceCode(R, s) ==
  LET through == CASE R.type = "read" -> "read_ref"
                   [] R.type = "write" -> "write_ref"
                   [] OTHER -> R.type
  IN Operation([Info(through, R.a) EXCEPT !.b = R.b], s.c[1])
     \o (CASE R.type = "read" -> <<Instr("get_ref", R.a, R.a, "", 0)>>
           [] R.type = "write" -> <<Instr("set_ref", R.a, R.b, "", 0)>>
           [] OTHER -> <<>>)

SuperCode(R) ==
  <<Op("get_this", R.parent), Op("get_super", R.a), Op("load", "property"),
    Instr("get_prop", R.a, "property", R.a, 0)>>

\* simplejs_compile_ast_operation
Operation(R, s) ==
  CASE s.t \in {"undefined", "null", "number", "string", "function", "global"} ->
         <<Instr("load", R.a, s.t, "", s.n)>>
    [] s.t \in {"arg", "loc"} -> VariableCode(R, s)
    [] s.t = "call" -> CallCode(R, s)
    [] s.t = "property" -> PropertyCode(R, s)
    [] s.t = "this" -> <<Op("get_this", R.a), Instr("mov", R.parent, R.a, "", 0)>>
    [] s.t = "super" -> SuperCode(R)
    [] s.t \in {"and", "or"} -> LogicalCode(R, s)
    [] s.t = "step" -> StepCode(R, s)
    [] s.t = "unary" -> Operation(Info("read", R.a), s.c[1]) \o <<Instr("alu", R.a, "unary", "", 0)>>
    [] s.t = "binary" -> BinaryCode(R, s)
    [] s.t = "assign" -> AssignCode(R, s)
    [] s.t = "op_assign" -> Operation(Info("write", R.a), s.c[1])
    [] s.t = "typeof" ->
         Operation([Info("read", R.a) EXCEPT !.b = R.b], s.c[1]) \o <<Op("get_type", R.a)>>
    [] s.t = "new" -> Operation(Info("new", R.a), s.c[1])
    [] s.t = "delete" -> Operation(Info("delete", R.a), s.c[1])
    [] s.t = "reference" -> Operation([Info("get_ref", R.a) EXCEPT !.b = R.b], s.c[1])
    [] s.t = "dereference" -> DereferenceCode(R, s)
    [] s.t = "comma" -> Operation(R, s.c[1]) \o Operation(R, s.c[2])
    [] s.t = "var" ->
         IF s.c = <<>> THEN <<>>
         ELSE Operation(Info("read", "assign_b"), s.c[1])
                \o <<Instr("set_loc", "assign_b", "", "", s.n)>>

-----------------------------------------------------------------------------
(* Statements.                                                             *)

Evaluate(s) == Operation(Info("read", "assign_a"), s)

RECURSIVE Statement(_), Statements(_), Arms(_), Members(_)

Statements(list) ==
  IF list = <<>> THEN <<>> ELSE Statement(Head(list)) \o Statements(Tail(list))

\* if, else if and else: every arm ends with a jump behind the last one.
Arms(arms) ==
  IF arms = <<>> THEN <<>>
  ELSE LET arm == Head(arms)
           next == Arms(Tail(arms))
           body == Statements(IF arm.t = "else" THEN arm.c ELSE Tail(arm.c))
       IN (IF arm.t = "else" THEN <<>>
           ELSE Evaluate(arm.c[1]) \o <<Jump("jmp_if_zero", "assign_a", Len(body) + 1)>>)
          \o body \o <<Jump("jmp", "", Len(next))>> \o next

\* A loop of condition, code and step; its start is run once before.
LoopCode(condition, code, step) ==
  LET test == Evaluate(condition)
      body == Statement(code) \o step
  IN test \o <<Jump("jmp_if_zero", "assign_a", Len(body) + 1)>> \o body
     \o <<Jump("jmp", "", -(Len(test) + Len(body) + 2))>>

\* A member is declared, then its value stored as a property of the class.
Members(list) ==
  IF list = <<>> THEN <<>>
  ELSE LET m == Head(list)
           value == IF m.t = "function" THEN Op("load", "assign_a")
                    ELSE Instr("get_loc", "assign_a", "", "", m.n)
       IN (IF m.t = "function" THEN <<>> ELSE Statement(m))
          \o <<Op("load", "property"), value,
               Instr("set_prop", "class", "property", "assign_a", 0)>>
          \o Members(Tail(list))

\* The first child is what the class extends.
ClassCode(s) ==
  (IF s.c[1].t = "none" THEN <<>> ELSE Operation(Info("read", "assign_b"), s.c[1]))
  \o <<Instr("create_obj", "class", "assign_b", "", 0)>> \o Members(Tail(s.c))
  \o <<Op("load", "property"), Op("load", "assign_a"),
       Instr("set_prop", "class", "property", "assign_a", 0),
       Instr("set_loc", "class", "", "", s.n), Op("set_std_flags", "class")>>

\* simplejs_compile_single_ast
Statement(s) ==
  CASE s.t = "var" -> IF s.c = <<>> THEN <<>>
                      ELSE Evaluate(s.c[1]) \o <<Instr("set_loc", "assign_a", "", "", s.n)>>
    [] s.t = "return" ->
         (IF s.c = <<>> THEN <<>>
          ELSE Operation(Info("read", "assign_b"), s.c[1]) \o <<Op("set_return", "assign_b")>>)
         \o <<Goto("return")>>
    [] s.t = "label" -> <<Label(s.n)>>
    [] s.t = "goto" -> <<Goto(s.n)>>
    [] s.t = "branch" -> Arms(s.c)
    [] s.t = "for" -> Statement(s.c[1]) \o LoopCode(s.c[2], s.c[4], Evaluate(s.c[3]))
    [] s.t = "while" -> LoopCode(s.c[1], s.c[2], <<>>)
    [] s.t = "class" -> ClassCode(s)
    [] s.t = "block" -> Statements(s.c)
    [] OTHER -> Evaluate(s)

\* Jumps to labels become relative, as every other jump is.
Resolve(code) ==
  [i \in DOMAIN code |->
     IF code[i].op = "jmp" /\ code[i].label # ""
       THEN Jump("jmp", "", (CHOOSE k \in DOMAIN code : code[k] = Label(code[i].label)) - i - 1)
       ELSE code[i]]

FunctionCode(f) ==
  Resolve(<<Op("save_arg_offset", ""), Instr("alloc_vars", "", "", "", f.n)>>
          \o Statements(f.c)
          \o <<Label("return"), Op("free_vars", ""), Op("return", "")>>)

\* The main function is compiled first, every other one behind it.
RECURSIVE Program(_)
Program(functions) ==
  IF functions = <<>> THEN <<>>
  ELSE FunctionCode(Head(functions)) \o Program(Tail(functions))
=============================================================================
