----------------------------- MODULE QueryCompiler -----------------------------
(***************************************************************************)
(* From the expression of a query to its titles: the expression is         *)
(* converted to instructions on registers (parser/convert.rs), three       *)
(* passes simplify them (parser/optim.rs), and the solver carries them out *)
(* one by one, asking the wiki for links, members and so on                *)
(* (solver/mod.rs).                                                        *)
(*                                                                         *)
(* A limit may cut any answer of the wiki short: the solver then goes on   *)
(* with a part of it.                                                      *)
(*                                                                         *)
(* Every loop of the code is a loop here: one step is one node visited,    *)
(* one instruction looked at or carried out, or one item taken from the    *)
(* stack of the loop within.                                               *)
(***************************************************************************)
EXTENDS QueryMeaning

CONSTANT DefaultLimit   (* the limit of requests that have none of their own *)

ASSUME DefaultLimitIsNumber == DefaultLimit \in Int

VARIABLES
  expr,     (* the expression                                              *)
  phase,    (* the loop that runs                                          *)
  at,       (* the node or instruction it is at                            *)
  stack,    (* the stack of the loop within                                *)
  ir,       (* the instructions, in the order of their registers           *)
  out,      (* for each node visited the register of its answer            *)
  result,   (* the register of the answer of the query                     *)
  reg,      (* the registers that have a value, a function to sets         *)
  cut       (* whether a limit has cut an answer of the wiki short         *)

vars == <<expr, phase, at, stack, ir, out, result, reg, cut>>

Phases == {"convert", "talk", "empty", "nop", "solve",
           "solved", "rejected", "wrong", "unknown", "failed"}

Codes == Unaries \cup Binaries \cup {"set", "nop"}

Instruction(dest, code, args, titles) ==
  [dest |-> dest, code |-> code, args |-> args, titles |-> titles, cs |-> NoConstraint]

(* The instruction for register r, if there is one.  The code searches by  *)
(* bisection, which is the same as long as Sorted holds.                   *)
Has(r) == \E i \in DOMAIN ir : ir[i].dest = r
IndexOf(r) == CHOOSE i \in DOMAIN ir : ir[i].dest = r

Sorted(code) == \A i, j \in DOMAIN code : i < j => code[i].dest < code[j].dest

(* The loop over the instructions ends, and that of phase p begins.        *)
Proceed(p) ==
  /\ phase' = p
  /\ at' = 1
  /\ UNCHANGED <<expr, stack, ir, out, reg, cut>>

(* A query ends, in phase p.                                               *)
Ends(p) == phase' = p /\ UNCHANGED <<expr, at, stack, ir, out, result, reg, cut>>

-----------------------------------------------------------------------------
(* Conversion: the nodes one after the other.  New registers are numbered  *)
(* from 0.                                                                 *)

Visiting(kind) ==
  /\ phase = "convert" /\ stack = <<>> /\ at <= Len(expr)
  /\ expr[at].kind = kind

Emit(code, args, titles) ==
  /\ ir' = Append(ir, Instruction(Len(ir), code, args, titles))
  /\ out' = Append(out, Len(ir))
  /\ at' = at + 1
  /\ UNCHANGED <<expr, phase, stack, result, reg, cut>>

Page == Visiting("page") /\ Emit("set", <<>>, expr[at].titles)

Unary == Visiting("unary") /\ Emit(expr[at].op, <<Len(ir) - 1>>, {})

Binary ==
  /\ Visiting("binary")
  /\ Emit(expr[at].op, <<out[expr[at].args[1]], out[expr[at].args[2]]>>, {})

(* The list of constraints is put on the stack for the last register.      *)
Constrain ==
  /\ Visiting("constrained")
  /\ IF Consistent(expr[at].list)
     THEN /\ stack' = <<<<Len(ir) - 1, FromList(expr[at].list)>>>>
          /\ out' = Append(out, Len(ir) - 1)
          /\ at' = at + 1
          /\ UNCHANGED <<expr, phase, ir, result, reg, cut>>
     ELSE Ends("rejected")

(* Mutant: the filter is handed on as it is.                               *)
Toggled_Same(con) == con

(* The filter for the pages whose talk pages pass the filter of con.       *)
Toggled(con) ==
  IF con.ns = None THEN con ELSE [con EXCEPT !.ns = {TalkOf(n) : n \in @}]

(* What takes the place of constraint con on instruction inst: binary      *)
(* operations hand it to both operands, toggles and Nops to theirs.        *)
HandedOn(inst, con) ==
  CASE inst.code \in Binaries -> <<<<inst.args[1], con>>, <<inst.args[2], con>>>>
    [] inst.code = "toggle" -> <<<<inst.args[1], Toggled(con)>>>>
    [] inst.code = "nop" -> <<<<inst.args[1], con>>>>
    [] OTHER -> <<>>

(* The constraint on top of the stack is handed on, or merged into the     *)
(* instruction, which must admit it.                                       *)
Hand ==
  /\ phase = "convert" /\ stack # <<>>
  /\ LET r == stack[1][1]
         con == stack[1][2]
         inst == ir[IndexOf(r)]
         mergeable == Admits(inst.code, con) /\ Compatible(inst.cs, con)
     IN IF Has(r) /\ (inst.code \in Generators \cup {"set"} => mergeable)
        THEN /\ stack' = HandedOn(inst, con) \o Tail(stack)
             /\ ir' = IF inst.code \in Generators \cup {"set"}
                      THEN [ir EXCEPT ![IndexOf(r)].cs = Merge(@, con)]
                      ELSE ir
             /\ UNCHANGED <<expr, phase, at, out, result, reg, cut>>
        ELSE Ends("rejected")

Converted ==
  /\ phase = "convert" /\ stack = <<>> /\ at > Len(expr)
  /\ result' = Len(ir) - 1
  /\ Proceed("talk")

Convert == Page \/ Unary \/ Binary \/ Constrain \/ Hand \/ Converted

-----------------------------------------------------------------------------
(* The passes.                                                             *)

Looking(p) == phase = p /\ stack = <<>> /\ at <= Len(ir)
Looked(p) == phase = p /\ stack = <<>> /\ at > Len(ir)

AsNop(inst) == Instruction(inst.dest, "nop", inst.args, {})

(* Where a toggle is applied to a toggle, both become Nops.                *)
Talk ==
  /\ Looking("talk")
  /\ ir' = IF /\ ir[at].code = "toggle"
              /\ Has(ir[at].args[1])
              /\ ir[IndexOf(ir[at].args[1])].code = "toggle"
           THEN [ir EXCEPT ![at] = AsNop(@), ![IndexOf(ir[at].args[1])] = AsNop(@)]
           ELSE ir
  /\ at' = at + 1
  /\ UNCHANGED <<expr, phase, stack, out, result, reg, cut>>

(* Mutant: a filter on the results of a request is not looked at.          *)
NsEmpty_SetsOnly(inst) == inst.code = "set" /\ inst.cs.ns = {}

(* The filter of the instruction admits no namespace.                      *)
NsEmpty(inst) == inst.cs.ns = {}

(* What an instruction with an empty filter is computed from is cleared,   *)
(* beginning with itself.                                                  *)
Empty ==
  /\ Looking("empty")
  /\ stack' = IF NsEmpty(ir[at]) THEN <<ir[at].dest>> ELSE <<>>
  /\ at' = at + 1
  /\ UNCHANGED <<expr, phase, ir, out, result, reg, cut>>

Cleared(inst) ==
  CASE inst.code \in Unaries -> AsNop(inst)
    [] inst.code = "set" -> Instruction(inst.dest, "set", <<>>, {})
    [] OTHER -> inst

(* The instruction on top of the stack becomes empty, and then those it is *)
(* computed from.                                                          *)
Clear ==
  /\ phase = "empty" /\ stack # <<>>
  /\ IF Has(stack[1])
     THEN /\ ir' = [ir EXCEPT ![IndexOf(stack[1])] = Cleared(@)]
          /\ stack' = ir[IndexOf(stack[1])].args \o Tail(stack)
     ELSE stack' = Tail(stack) /\ ir' = ir
  /\ UNCHANGED <<expr, phase, at, out, result, reg, cut>>

WithoutAt(code, i) == SubSeq(code, 1, i - 1) \o SubSeq(code, i + 1, Len(code))

(* Mutant: nothing takes over the register of a deleted Nop.               *)
WithoutNop_Forgets == WithoutAt(ir, at)

(* The Nop is deleted, and the instruction it copies takes over its        *)
(* register.                                                               *)
WithoutNop ==
  WithoutAt([ir EXCEPT ![IndexOf(ir[at].args[1])].dest = ir[at].dest], at)

(* Mutant: the instruction after a deleted one is passed over.             *)
Nop_Skips ==
  /\ Looking("nop")
  /\ ir' = IF ir[at].code = "nop" THEN WithoutNop ELSE ir
  /\ at' = at + 1
  /\ UNCHANGED <<expr, phase, stack, out, result, reg, cut>>

Nop ==
  /\ Looking("nop")
  /\ IF ir[at].code = "nop" /\ Has(ir[at].args[1])
     THEN ir' = WithoutNop /\ UNCHANGED at
     ELSE at' = at + 1 /\ UNCHANGED ir
  /\ UNCHANGED <<expr, phase, stack, out, result, reg, cut>>

NextPass ==
  /\ \/ Looked("talk") /\ Proceed("empty")
     \/ Looked("empty") /\ Proceed("nop")
     \/ Looked("nop") /\ Proceed("solve")
  /\ UNCHANGED result

Optimise == Talk \/ Empty \/ Clear \/ Nop \/ NextPass

-----------------------------------------------------------------------------
(* The solver.                                                             *)

Inst == ir[at]
Operand(k) == reg[Inst.args[k]]
Solving(codes) == phase = "solve" /\ at <= Len(ir) /\ Inst.code \in codes
Known == \A k \in DOMAIN Inst.args : Inst.args[k] \in DOMAIN reg

Put(titles) ==
  /\ reg' = [r \in DOMAIN reg \cup {Inst.dest} |-> IF r = Inst.dest THEN titles ELSE reg[r]]
  /\ at' = at + 1
  /\ UNCHANGED <<expr, phase, stack, ir, out, result>>

(* What the solver computes by itself.                                     *)
Computed(inst) ==
  CASE inst.code \in Binaries -> Combined(inst.code, Operand(1), Operand(2))
    [] inst.code = "toggle" -> {TalkPage(t) : t \in Operand(1)}
    [] inst.code = "nop" -> Operand(1)
    [] inst.code = "set" -> {t \in inst.titles : Passes(t, inst.cs)}

Compute == Solving(Codes \ Generators) /\ Known /\ Put(Computed(Inst)) /\ UNCHANGED cut

(* The limit of a request; a negative one is none.                         *)
LimitOf(inst) == IF inst.cs.limit = None THEN DefaultLimit ELSE inst.cs.limit

Request ==
  /\ Solving(Generators)
  /\ Known
  /\ MayAsk(Inst.code, Operand(1))
  /\ LET whole == Listed(Inst.code, Operand(1), Inst.cs)
     IN \E titles \in SUBSET whole :
          /\ titles # whole => LimitOf(Inst) >= 0
          /\ Put(titles)
          /\ cut' = (cut \/ titles # whole)

(* Errors of the solver: "cannot access an intermediate value before it is *)
(* initialized", "cannot query for multiple pages" or "for members of      *)
(* something not a category".                                              *)
GiveUp ==
  /\ Solving(Codes)
  /\ Known => Inst.code \in Generators /\ ~MayAsk(Inst.code, Operand(1))
  /\ Ends(IF Known THEN "wrong" ELSE "unknown")

(* A request, or the making of a title, fails.  Nothing is asked about no  *)
(* page, nor for the prefix of a page that the filter excludes.            *)
RequestFails ==
  /\ \/ /\ Solving(Generators) /\ Known /\ MayAsk(Inst.code, Operand(1))
        /\ {x \in Operand(1) : Inst.code = "prefix" => Passes(x, Inst.cs)} # {}
     \/ Solving({"set"}) /\ Inst.titles # {}
  /\ Ends("failed")

Finish ==
  /\ Looked("solve")
  /\ Ends(IF result \in DOMAIN reg THEN "solved" ELSE "unknown")

Solve == Compute \/ Request \/ GiveUp \/ RequestFails \/ Finish

Init == /\ expr \in Expressions
        /\ phase = "convert" /\ at = 1 /\ stack = <<>>
        /\ ir = <<>> /\ out = <<>> /\ result = 0
        /\ reg = [r \in {} |-> {}] /\ cut = FALSE

Next == Convert \/ Optimise \/ Solve

Spec == Init /\ [][Next]_vars

-----------------------------------------------------------------------------
(* Properties.                                                             *)

Instructions ==
  [dest : Nat, code : Codes, args : Seq(Nat), titles : SUBSET Titles, cs : Constraints]

(* Types; no loop leaves its nodes or instructions, and registers hold     *)
(* sets of titles.                                                         *)
TypeOK ==
  /\ phase \in Phases
  /\ at \in 1 .. (IF phase \in {"convert", "rejected"} THEN Len(expr) ELSE Len(ir)) + 1
  /\ stack \in IF phase = "empty" THEN Seq(Nat) ELSE Seq(Nat \X Constraints)
  /\ ir \in Seq(Instructions)
  /\ out \in Seq(Nat) /\ result \in Nat
  /\ DOMAIN reg \subseteq Nat /\ \A r \in DOMAIN reg : reg[r] \subseteq Titles
  /\ cut \in BOOLEAN

(* Instructions are sorted by register, which the bisections of conversion *)
(* and passes rely on, and every operand and the result of the query are   *)
(* registers of earlier instructions: the solver never meets a register    *)
(* without a value, and no search fails.                                   *)
OperandsDefined ==
  /\ Sorted(ir)
  /\ \A i \in DOMAIN ir : \A k \in DOMAIN ir[i].args :
       \E j \in 1 .. i - 1 : ir[j].dest = ir[i].args[k]
  /\ phase \notin {"convert", "rejected"} => ir # <<>> /\ ir[Len(ir)].dest = result
  /\ phase = "convert" => \A k \in DOMAIN stack : Has(stack[k][1])
  /\ phase = "empty" => \A k \in DOMAIN stack : Has(stack[k])
  /\ phase # "unknown"

(* A query that is solved has the answer its expression means, whatever    *)
(* was pushed into its operands and optimised away, and one that is        *)
(* rejected or asks wrongly has none.  (A query without a meaning may be   *)
(* solved: what would ask about several pages can be optimised away.)      *)
(* Of answers this is claimed as long as no limit has cut a listing short, *)
(* and unless a filter by namespace was pushed into a request that         *)
(* resolves redirects: there it is applied before the resolution, and not  *)
(* to the answer.                                                          *)
AnswersQuery ==
  /\ phase = "rejected" => Meaning(expr) = {}
  /\ ~cut /\ ResolvesUnfiltered(expr) =>
       /\ phase = "solved" => Meaning(expr) \in {{}, {reg[result]}}
       /\ phase = "wrong" => Meaning(expr) = {}

(* Every instruction comes out of the conversion with the strictest of the *)
(* limits that apply to it, wherever they were written, and without one if *)
(* there is none: no request is sent with a limit that any of them forbids *)
(* and a negative limit further in or out lifts no other.                  *)
LimitsKept ==
  phase = "talk" /\ at = 1 =>
    \A i \in DOMAIN expr :
      LET node == expr[i]
          con == ir[IndexOf(out[i])].cs
          limits == LimitsAt(expr, i)
      IN node.kind = "page" \/ Asks(node) =>
           IF con.limit = None \/ con.limit < 0 THEN limits = {}
           ELSE con.limit \in limits /\ \A l \in limits : con.limit <= l

(* The solver is given no Nops, no toggle of a toggle, and nothing to ask  *)
(* the wiki for whose answer a filter without namespaces makes empty.      *)
NothingRedundant ==
  phase = "solve" =>
    \A i \in DOMAIN ir :
      /\ ir[i].code # "nop"
      /\ ir[i].cs.ns # {}
      /\ ir[i].code = "toggle" => ir[IndexOf(ir[i].args[1])].code # "toggle"
=============================================================================
