-------------------------- MODULE QueryCompilerProofs --------------------------
(***************************************************************************)
(* That the compiler and the solver are right, for every query.            *)
(***************************************************************************)
EXTENDS QueryCompiler, QueryMeaningProofs, SequenceTheorems

-----------------------------------------------------------------------------
(* Shapes.                                                                 *)

Copies == Unaries \cup {"nop"}
Leaves == Generators \cup {"set"}

(* An instruction has the operands its code wants, and a constraint only   *)
(* if it is one that takes constraints.                                    *)
Fits(inst) ==
  /\ inst.code \in Binaries => Len(inst.args) = 2
  /\ inst.code \in Copies => Len(inst.args) = 1
  /\ inst.code = "set" => inst.args = <<>>
  /\ inst.code \notin Leaves => inst.cs = NoConstraint

(* Operands are computed before they are used.                             *)
Earlier(code) ==
  \A i \in DOMAIN code : \A k \in DOMAIN code[i].args :
    \E j \in 1 .. i - 1 : code[j].dest = code[i].args[k]

(* The operand of a unary operation is the instruction before it.          *)
Adjacent(code) ==
  \A i \in DOMAIN code :
    code[i].code \in Copies => i - 1 \in DOMAIN code /\ code[i].args[1] = code[i - 1].dest

(* No register is used twice.                                              *)
Unshared(code) ==
  \A i, j \in DOMAIN code : \A k \in DOMAIN code[i].args, l \in DOMAIN code[j].args :
    code[i].args[k] = code[j].args[l] => i = j /\ k = l

WellFormed(code) ==
  /\ code \in Seq(Instructions)
  /\ \A i \in DOMAIN code : Fits(code[i])
  /\ Sorted(code)
  /\ Earlier(code)
  /\ Adjacent(code)
  /\ Unshared(code)

(* Before the last pass the registers are numbered from 0.                 *)
Numbered(code) == \A i \in DOMAIN code : code[i].dest = i - 1

(* Code that differs from code in neither registers nor operands, and in   *)
(* what is a copy only by not being one.                                   *)
Reshaped(code, new) ==
  /\ new \in Seq(Instructions) /\ Len(new) = Len(code)
  /\ \A i \in DOMAIN code :
       /\ new[i].dest = code[i].dest /\ new[i].args = code[i].args
       /\ Fits(new[i])
       /\ new[i].code \in Copies => code[i].code \in Copies

LEMMA InstructionsTyped ==
  ASSUME NEW code \in Seq(Instructions), NEW i \in DOMAIN code
  PROVE  /\ code[i] \in Instructions
         /\ code[i].dest \in Nat /\ code[i].code \in Codes /\ code[i].args \in Seq(Nat)
         /\ code[i].titles \in SUBSET Titles /\ code[i].cs \in Constraints
<1>1. code[i] \in Instructions
  OBVIOUS
<1> QED
  BY <1>1 DEF Instructions

LEMMA ReshapedIsWellFormed ==
  ASSUME NEW code, NEW new, WellFormed(code), Reshaped(code, new)
  PROVE  WellFormed(new)
<1>1. code \in Seq(Instructions) /\ new \in Seq(Instructions) /\ DOMAIN new = DOMAIN code
  BY DEF WellFormed, Reshaped
<1>2. \A i \in DOMAIN code : /\ new[i].dest = code[i].dest /\ new[i].args = code[i].args
                             /\ Fits(new[i])
                             /\ new[i].code \in Copies => code[i].code \in Copies
  BY DEF Reshaped
<1>3. Sorted(new)
  BY <1>1, <1>2 DEF WellFormed, Sorted
<1>4. Earlier(new)
  BY <1>1, <1>2 DEF WellFormed, Earlier
<1>5. Adjacent(new)
  BY <1>1, <1>2 DEF WellFormed, Adjacent
<1>6. Unshared(new)
  BY <1>1, <1>2 DEF WellFormed, Unshared
<1> QED
  BY <1>1, <1>2, <1>3, <1>4, <1>5, <1>6 DEF WellFormed

LEMMA ReshapedIsNumbered ==
  ASSUME NEW code, NEW new, WellFormed(code), Numbered(code), Reshaped(code, new)
  PROVE  Numbered(new)
  BY DEF WellFormed, Reshaped, Numbered

(* Registers are found where they are.                                     *)
LEMMA Found ==
  ASSUME WellFormed(ir), NEW i \in DOMAIN ir
  PROVE  Has(ir[i].dest) /\ IndexOf(ir[i].dest) = i
<1>1. \A j \in DOMAIN ir : ir[j].dest = ir[i].dest => j = i
  <2>1. ir \in Seq(Instructions) /\ DOMAIN ir \subseteq Nat
    BY DEF WellFormed
  <2>2. \A j \in DOMAIN ir : ir[j].dest \in Nat
    BY <2>1, InstructionsTyped
  <2> QED
    BY <2>1, <2>2 DEF WellFormed, Sorted
<1> QED
  BY <1>1 DEF Has, IndexOf

LEMMA Numbers ==
  ASSUME WellFormed(ir), Numbered(ir), NEW r \in Nat
  PROVE  /\ Has(r) <=> r < Len(ir)
         /\ Has(r) => IndexOf(r) = r + 1
<1>1. ir \in Seq(Instructions) /\ DOMAIN ir = 1 .. Len(ir) /\ Len(ir) \in Nat
  BY DEF WellFormed
<1>2. ASSUME r < Len(ir) PROVE Has(r) /\ IndexOf(r) = r + 1
  <2>1. r + 1 \in DOMAIN ir /\ ir[r + 1].dest = r
    BY <1>1, <1>2 DEF Numbered
  <2> QED
    BY <2>1, Found
<1>3. ASSUME Has(r) PROVE r < Len(ir)
  BY <1>1, <1>3 DEF Has, Numbered
<1> QED
  BY <1>2, <1>3

(* Code with one more instruction.                                         *)
LEMMA AppendedIsWellFormed ==
  ASSUME NEW code, WellFormed(code), Numbered(code), NEW inst \in Instructions,
         Fits(inst), inst.dest = Len(code),
         \A k \in DOMAIN inst.args : inst.args[k] \in 0 .. Len(code) - 1,
         \A k, l \in DOMAIN inst.args : inst.args[k] = inst.args[l] => k = l,
         inst.code \in Copies => inst.args[1] = Len(code) - 1,
         \A i \in DOMAIN code : \A l \in DOMAIN code[i].args :
           \A k \in DOMAIN inst.args : inst.args[k] # code[i].args[l]
  PROVE  WellFormed(Append(code, inst)) /\ Numbered(Append(code, inst))
<1> DEFINE new == Append(code, inst)
           n == Len(code)
<1>1. /\ code \in Seq(Instructions) /\ n \in Nat /\ DOMAIN code = 1 .. n
      /\ \A i \in 1 .. n : Fits(code[i]) /\ code[i].dest = i - 1
  BY DEF WellFormed, Numbered
<1>2. /\ new \in Seq(Instructions) /\ DOMAIN new = 1 .. n + 1
      /\ new[n + 1] = inst /\ \A i \in 1 .. n : new[i] = code[i]
  BY <1>1
<1> HIDE DEF new, n
<1>3. \A i \in 1 .. n + 1 : new[i].dest = i - 1 /\ Fits(new[i])
  BY <1>1, <1>2 DEF n
<1>4. Sorted(new)
  BY <1>1, <1>2, <1>3 DEF Sorted
<1>5. Earlier(new)
  <2>1. SUFFICES ASSUME NEW i \in 1 .. n + 1, NEW k \in DOMAIN new[i].args
                 PROVE  \E j \in 1 .. i - 1 : new[j].dest = new[i].args[k]
    BY <1>2 DEF Earlier
  <2>2. CASE i = n + 1
    <3>1. inst.args[k] \in 0 .. n - 1
      BY <1>2, <2>1, <2>2 DEF n
    <3>2. new[inst.args[k] + 1].dest = inst.args[k]
      BY <1>1, <1>3, <3>1
    <3> QED
      BY <1>1, <1>2, <2>2, <3>1, <3>2
  <2>3. CASE i \in 1 .. n
    <3>0. new[i] = code[i] /\ i \in DOMAIN code
      BY <1>1, <1>2, <2>3
    <3>1. PICK j \in 1 .. i - 1 : code[j].dest = code[i].args[k]
      BY <2>1, <3>0 DEF WellFormed, Earlier
    <3> QED
      BY <1>1, <1>2, <2>3, <3>1
  <2> QED
    BY <1>1, <2>2, <2>3
<1>6. Adjacent(new)
  <2>1. SUFFICES ASSUME NEW i \in 1 .. n + 1, new[i].code \in Copies
                 PROVE  i - 1 \in 1 .. n + 1 /\ new[i].args[1] = new[i - 1].dest
    BY <1>2 DEF Adjacent
  <2>2. CASE i = n + 1
    <3>1. Len(inst.args) = 1 /\ inst.args \in Seq(Nat)
      BY <1>2, <2>1, <2>2 DEF Fits, Instructions, Copies
    <3>2. inst.args[1] \in 0 .. n - 1 /\ inst.args[1] = n - 1
      BY <1>2, <2>1, <2>2, <3>1 DEF n
    <3> QED
      BY <1>1, <1>2, <1>3, <2>2, <3>2
  <2>3. CASE i \in 1 .. n
    <3>1. i - 1 \in 1 .. n /\ code[i].args[1] = code[i - 1].dest
      BY <1>1, <1>2, <2>1, <2>3 DEF WellFormed, Adjacent
    <3> QED
      BY <1>1, <1>2, <2>3, <3>1
  <2> QED
    BY <1>1, <2>2, <2>3
<1>7. Unshared(new)
  <2>1. SUFFICES ASSUME NEW i \in 1 .. n + 1, NEW j \in 1 .. n + 1,
                        NEW k \in DOMAIN new[i].args, NEW l \in DOMAIN new[j].args,
                        new[i].args[k] = new[j].args[l]
                 PROVE  i = j /\ k = l
    BY <1>2 DEF Unshared
  <2>2. CASE i \in 1 .. n /\ j \in 1 .. n
    <3>1. new[i] = code[i] /\ new[j] = code[j] /\ i \in DOMAIN code /\ j \in DOMAIN code
      BY <1>1, <1>2, <2>2
    <3> QED
      BY <2>1, <3>1 DEF WellFormed, Unshared
  <2>3. CASE i = n + 1 /\ j = n + 1
    BY <1>2, <2>1, <2>3
  <2>4. CASE i = n + 1 /\ j \in 1 .. n
    <3>1. new[i] = inst /\ new[j] = code[j] /\ j \in DOMAIN code
      BY <1>1, <1>2, <2>4
    <3> QED
      BY <2>1, <3>1
  <2>5. CASE i \in 1 .. n /\ j = n + 1
    <3>1. new[i] = code[i] /\ new[j] = inst /\ i \in DOMAIN code
      BY <1>1, <1>2, <2>5
    <3> QED
      BY <2>1, <3>1
  <2> QED
    BY <1>1, <2>2, <2>3, <2>4, <2>5
<1> QED
  BY <1>2, <1>3, <1>4, <1>5, <1>6, <1>7 DEF WellFormed, Numbered, new

(* Code without one instruction.                                           *)
LEMMA Deleted ==
  ASSUME NEW S, NEW code \in Seq(S), NEW n \in DOMAIN code
  PROVE  /\ WithoutAt(code, n) \in Seq(S)
         /\ Len(WithoutAt(code, n)) = Len(code) - 1
         /\ \A k \in 1 .. Len(code) - 1 :
              WithoutAt(code, n)[k] = IF k < n THEN code[k] ELSE code[k + 1]
<1> DEFINE a == SubSeq(code, 1, n - 1)
           b == SubSeq(code, n + 1, Len(code))
<1>1. Len(code) \in Nat /\ n \in 1 .. Len(code)
  OBVIOUS
<1>2. a \in Seq(S) /\ Len(a) = n - 1 /\ \A k \in 1 .. n - 1 : a[k] = code[k]
  BY <1>1
<1>3. b \in Seq(S) /\ Len(b) = Len(code) - n /\ \A k \in 1 .. Len(code) - n : b[k] = code[n + k]
  BY <1>1
<1> HIDE DEF a, b
<1>4. a \o b \in Seq(S) /\ Len(a \o b) = Len(code) - 1
  BY <1>1, <1>2, <1>3
<1>5. ASSUME NEW k \in 1 .. Len(code) - 1
      PROVE  (a \o b)[k] = IF k < n THEN code[k] ELSE code[k + 1]
  <2>1. CASE k < n
    BY <1>1, <1>2, <1>3, <2>1
  <2>2. CASE ~ (k < n)
    <3>1. k - (n - 1) \in 1 .. Len(code) - n
      BY <1>1, <2>2
    <3>0. k \in 1 .. Len(a) + Len(b) /\ Len(a) = n - 1 /\ ~ (k <= Len(a))
      BY <1>1, <1>2, <1>3, <2>2
    <3>4. (a \o b)[k] = IF k <= Len(a) THEN a[k] ELSE b[k - Len(a)]
      BY <1>2, <1>3, <3>0, ConcatProperties
    <3>2. (a \o b)[k] = b[k - (n - 1)]
      BY <3>0, <3>4
    <3>3. n + (k - (n - 1)) = k + 1
      BY <1>1
    <3> QED
      BY <1>3, <2>2, <3>1, <3>2, <3>3
  <2> QED
    BY <2>1, <2>2
<1> QED
  BY <1>4, <1>5 DEF WithoutAt, a, b

(* Code without the Nop at n, whose register its operand takes over.       *)
Spliced(code, n) == WithoutAt([code EXCEPT ![n - 1].dest = code[n].dest], n)

(* Where the instruction at k came from, and where its register.           *)
Source(n, k) == IF k < n THEN k ELSE k + 1
Slot(n, k) == IF k < n - 1 THEN k ELSE k + 1

LEMMA SplicedCode ==
  ASSUME NEW code, WellFormed(code), NEW n \in DOMAIN code, code[n].code = "nop"
  PROVE  /\ n - 1 \in DOMAIN code
         /\ Spliced(code, n) \in Seq(Instructions)
         /\ Len(Spliced(code, n)) = Len(code) - 1
         /\ \A k \in 1 .. Len(code) - 1 :
              Spliced(code, n)[k] =
                [code[Source(n, k)] EXCEPT !.dest = code[Slot(n, k)].dest]
<1>1. code \in Seq(Instructions) /\ Len(code) \in Nat /\ DOMAIN code = 1 .. Len(code)
  BY DEF WellFormed
<1>2. n - 1 \in DOMAIN code
  BY DEF WellFormed, Adjacent, Copies
<1> DEFINE new == [code EXCEPT ![n - 1].dest = code[n].dest]
<1>3. [code[n - 1] EXCEPT !.dest = code[n].dest] \in Instructions
  BY <1>1, <1>2, InstructionsTyped DEF Instructions
<1>4. /\ new \in Seq(Instructions) /\ Len(new) = Len(code) /\ DOMAIN new = DOMAIN code
      /\ \A k \in DOMAIN code : k # n - 1 => new[k] = code[k]
      /\ new[n - 1] = [code[n - 1] EXCEPT !.dest = code[n].dest]
  BY <1>1, <1>2, <1>3
<1> HIDE DEF new
<1>5. /\ WithoutAt(new, n) \in Seq(Instructions)
      /\ Len(WithoutAt(new, n)) = Len(code) - 1
      /\ \A k \in 1 .. Len(code) - 1 :
           WithoutAt(new, n)[k] = IF k < n THEN new[k] ELSE new[k + 1]
  <2>1. n \in DOMAIN new /\ new \in Seq(Instructions)
    BY <1>4
  <2>2. /\ WithoutAt(new, n) \in Seq(Instructions)
        /\ Len(WithoutAt(new, n)) = Len(new) - 1
        /\ \A k \in 1 .. Len(new) - 1 :
             WithoutAt(new, n)[k] = IF k < n THEN new[k] ELSE new[k + 1]
    BY <2>1, Deleted, Zenon
  <2> QED
    BY <1>4, <2>2
<1>6. ASSUME NEW k \in 1 .. Len(code) - 1
      PROVE  WithoutAt(new, n)[k] = [code[Source(n, k)] EXCEPT !.dest = code[Slot(n, k)].dest]
  <2>0. \A j \in DOMAIN code : [code[j] EXCEPT !.dest = code[j].dest] = code[j]
    BY <1>1, InstructionsTyped DEF Instructions
  <2>1. CASE k < n - 1
    <3>1. Source(n, k) = k /\ Slot(n, k) = k /\ k \in DOMAIN code
      BY <1>1, <2>1 DEF Source, Slot
    <3>2. WithoutAt(new, n)[k] = code[k]
      BY <1>1, <1>4, <1>5, <2>1, <3>1
    <3> QED
      BY <2>0, <3>1, <3>2, Zenon
  <2>2. CASE k = n - 1
    BY <1>1, <1>2, <1>4, <1>5, <2>2 DEF Source, Slot
  <2>3. CASE k >= n
    <3>1. Source(n, k) = k + 1 /\ Slot(n, k) = k + 1 /\ k + 1 \in DOMAIN code
      BY <1>1, <2>3 DEF Source, Slot
    <3>2. WithoutAt(new, n)[k] = code[k + 1]
      BY <1>1, <1>4, <1>5, <2>3, <3>1
    <3> QED
      BY <2>0, <3>1, <3>2, Zenon
  <2> QED
    BY <1>1, <2>1, <2>2, <2>3
<1> QED
  BY <1>2, <1>5, <1>6 DEF Spliced, new

LEMMA SplicedIsWellFormed ==
  ASSUME NEW code, WellFormed(code), NEW n \in DOMAIN code, code[n].code = "nop"
  PROVE  WellFormed(Spliced(code, n))
<1> DEFINE new == Spliced(code, n)
           N == Len(code)
<1>1. /\ code \in Seq(Instructions) /\ N \in Nat /\ DOMAIN code = 1 .. N
      /\ n \in 1 .. N /\ n - 1 \in 1 .. N
      /\ new \in Seq(Instructions) /\ Len(new) = N - 1 /\ DOMAIN new = 1 .. N - 1
  BY SplicedCode DEF WellFormed
<1> HIDE DEF N
<1>2. \A k \in 1 .. N - 1 :
        /\ Source(n, k) \in (1 .. N) \ {n} /\ Slot(n, k) \in (1 .. N) \ {n - 1}
        /\ new[k].dest = code[Slot(n, k)].dest
        /\ new[k].args = code[Source(n, k)].args
        /\ new[k].code = code[Source(n, k)].code
        /\ new[k].cs = code[Source(n, k)].cs
  <2>1. TAKE k \in 1 .. N - 1
  <2>2. Source(n, k) \in (1 .. N) \ {n} /\ Slot(n, k) \in (1 .. N) \ {n - 1}
    BY <1>1 DEF Source, Slot
  <2>3. new[k] = [code[Source(n, k)] EXCEPT !.dest = code[Slot(n, k)].dest]
    BY SplicedCode DEF N
  <2>4. code[Source(n, k)] \in Instructions
    BY <1>1, <2>2, InstructionsTyped
  <2> HIDE DEF new
  <2> QED
    BY <2>2, <2>3, <2>4 DEF Instructions
<1> HIDE DEF new
<1>3. \A k \in 1 .. N - 1 : Fits(new[k])
  <2>1. TAKE k \in 1 .. N - 1
  <2>2. Fits(code[Source(n, k)])
    BY <1>1, <1>2 DEF WellFormed
  <2> QED
    BY <1>2, <2>2 DEF Fits
<1>4. Sorted(new)
  <2>1. SUFFICES ASSUME NEW i \in 1 .. N - 1, NEW j \in 1 .. N - 1, i < j
                 PROVE  new[i].dest < new[j].dest
    BY <1>1 DEF Sorted
  <2>2. Slot(n, i) < Slot(n, j)
    BY <1>1, <2>1 DEF Slot
  <2> QED
    BY <1>1, <1>2, <2>2, ZenonT(40) DEF WellFormed, Sorted
<1>5. \A i \in 1 .. N : i # n - 1 => \E j \in 1 .. N - 1 : new[j].dest = code[i].dest /\ Slot(n, j) = i
  <2>1. TAKE i \in 1 .. N
  <2>2. HAVE i # n - 1
  <2>3. CASE i < n - 1
    <3>1. i \in 1 .. N - 1 /\ Slot(n, i) = i
      BY <1>1, <2>3 DEF Slot
    <3> QED
      BY <1>2, <3>1
  <2>4. CASE i > n - 1
    <3>1. i - 1 \in 1 .. N - 1 /\ Slot(n, i - 1) = i
      BY <1>1, <2>4 DEF Slot
    <3> QED
      BY <1>2, <3>1
  <2> QED
    BY <1>1, <2>2, <2>3, <2>4
<1>6. \A i \in 1 .. N - 1 : \A k \in DOMAIN new[i].args : new[i].args[k] # code[n - 1].dest
  <2>1. TAKE i \in 1 .. N - 1
  <2>2. TAKE k \in DOMAIN new[i].args
  <2>3. code[n].args[1] = code[n - 1].dest /\ 1 \in DOMAIN code[n].args
    BY InstructionsTyped, <1>1 DEF WellFormed, Adjacent, Fits, Copies
  <2>4. \A l \in DOMAIN code[Source(n, i)].args : code[Source(n, i)].args[l] # code[n].args[1]
    BY <1>1, <1>2, <2>3 DEF WellFormed, Unshared
  <2> QED
    BY <1>2, <2>3, <2>4
<1>7. Earlier(new)
  <2>1. SUFFICES ASSUME NEW i \in 1 .. N - 1, NEW k \in DOMAIN new[i].args
                 PROVE  \E j \in 1 .. i - 1 : new[j].dest = new[i].args[k]
    BY <1>1 DEF Earlier
  <2>2. PICK m \in 1 .. Source(n, i) - 1 : code[m].dest = new[i].args[k]
    BY <1>1, <1>2, <2>1 DEF WellFormed, Earlier
  <2>3. m \in 1 .. N /\ m # n - 1
    <3>1. m \in 1 .. N
      BY <1>1, <1>2
    <3>2. new[i].args[k] # code[n - 1].dest
      BY <1>6, <2>1
    <3> QED
      BY <2>2, <3>1, <3>2
  <2>4. PICK j \in 1 .. N - 1 : new[j].dest = code[m].dest /\ Slot(n, j) = m
    BY <1>5, <2>3
  <2>5. j < i
    BY <1>1, <2>2, <2>4 DEF Slot, Source
  <2> QED
    BY <1>1, <2>2, <2>4, <2>5
<1>8. Adjacent(new)
  <2>1. SUFFICES ASSUME NEW i \in 1 .. N - 1, new[i].code \in Copies
                 PROVE  i - 1 \in 1 .. N - 1 /\ new[i].args[1] = new[i - 1].dest
    BY <1>1 DEF Adjacent
  <2>2. /\ Source(n, i) - 1 \in 1 .. N
        /\ new[i].args[1] = code[Source(n, i) - 1].dest
    BY <1>1, <1>2, <2>1 DEF WellFormed, Adjacent
  <2>3. i - 1 \in 1 .. N - 1 /\ Slot(n, i - 1) = Source(n, i) - 1
    BY <1>1, <2>2 DEF Slot, Source
  <2> QED
    BY <1>2, <2>2, <2>3
<1>9. Unshared(new)
  <2>1. SUFFICES ASSUME NEW i \in 1 .. N - 1, NEW j \in 1 .. N - 1,
                        NEW k \in DOMAIN new[i].args, NEW l \in DOMAIN new[j].args,
                        new[i].args[k] = new[j].args[l]
                 PROVE  i = j /\ k = l
    BY <1>1 DEF Unshared
  <2>2. Source(n, i) = Source(n, j) /\ k = l
    <3> DEFINE a == Source(n, i)
               b == Source(n, j)
    <3>1. a \in DOMAIN code /\ b \in DOMAIN code
      BY <1>1, <1>2
    <3>2. /\ k \in DOMAIN code[a].args /\ l \in DOMAIN code[b].args
          /\ code[a].args[k] = code[b].args[l]
      BY <1>2, <2>1
    <3> HIDE DEF a, b
    <3>3. a = b /\ k = l
      BY <3>1, <3>2 DEF WellFormed, Unshared
    <3> QED
      BY <3>3 DEF a, b
  <2>3. i = j
    BY <1>1, <2>2 DEF Source
  <2> QED
    BY <2>2, <2>3
<1>10. WellFormed(new)
  BY <1>1, <1>3, <1>4, <1>7, <1>8, <1>9 DEF WellFormed
<1> QED
  BY <1>10 DEF new

-----------------------------------------------------------------------------
(* The invariant.                                                          *)

(* Node i was visited, and nothing it is an operand of.                    *)
Open(i) == i \in 1 .. at - 1 /\ \A j \in 1 .. at - 1 : ~OperandOf(expr, i, j)

(* Each of the open nodes has a register, which no instruction uses.       *)
Converting ==
  /\ Len(out) = at - 1
  /\ \A i \in 1 .. at - 1 : out[i] < Len(ir)
  /\ at > 1 => out[at - 1] = Len(ir) - 1
  /\ \A i, j : Open(i) /\ Open(j) /\ out[i] = out[j] => i = j
  /\ \A i : Open(i) => \A j \in DOMAIN ir : \A k \in DOMAIN ir[j].args : ir[j].args[k] # out[i]

Before == {"convert", "rejected", "talk", "empty"}

Shaped ==
  /\ expr \in Expressions
  /\ TypeOK
  /\ WellFormed(ir)
  /\ phase \in Before => Numbered(ir)
  /\ phase = "convert" => Converting /\ \A k \in DOMAIN stack : stack[k][1] < Len(ir)
  /\ phase \notin {"convert", "rejected"} => ir # <<>> /\ ir[Len(ir)].dest = result
  /\ phase \in {"talk", "nop"} => stack = <<>>
  /\ phase = "empty" => \A k \in DOMAIN stack : stack[k] < Len(ir)
  /\ phase \in Before \cup {"nop"} => DOMAIN reg = {}
  /\ phase = "solve" => DOMAIN reg = {ir[j].dest : j \in 1 .. at - 1}
  /\ phase # "unknown"

LEMMA ShapedTypes ==
  ASSUME Shaped
  PROVE  /\ IsExpression(expr) /\ expr \in Seq(Nodes) /\ Len(expr) \in Nat /\ DOMAIN expr = 1 .. Len(expr)
         /\ ir \in Seq(Instructions) /\ Len(ir) \in Nat /\ DOMAIN ir = 1 .. Len(ir)
         /\ at \in Nat \ {0} /\ out \in Seq(Nat) /\ result \in Nat
         /\ phase \in Phases
<1>1. IsExpression(expr)
  BY ExpressionsAreTrees DEF Shaped
<1>2. expr \in Seq(Nodes)
  BY <1>1 DEF IsExpression
<1>3. ir \in Seq(Instructions)
  BY DEF Shaped, WellFormed
<1>4. at \in Nat \ {0}
  BY DEF Shaped, TypeOK
<1>5. out \in Seq(Nat) /\ result \in Nat /\ phase \in Phases
  BY DEF Shaped, TypeOK
<1> QED
  BY <1>1, <1>2, <1>3, <1>4, <1>5

LEMMA ShapedImplies == Shaped => TypeOK /\ OperandsDefined
<1> SUFFICES ASSUME Shaped PROVE OperandsDefined
  BY DEF Shaped
<1>1. Sorted(ir) /\ Earlier(ir)
  BY DEF Shaped, WellFormed
<1>2. ASSUME phase = "convert", NEW k \in DOMAIN stack PROVE Has(stack[k][1])
  <2>1. stack[k][1] \in Nat
    BY <1>2 DEF Shaped, TypeOK
  <2> QED
    BY <1>2, <2>1, Numbers DEF Shaped, Before
<1>3. ASSUME phase = "empty", NEW k \in DOMAIN stack PROVE Has(stack[k])
  <2>1. stack[k] \in Nat
    BY <1>3 DEF Shaped, TypeOK
  <2> QED
    BY <1>3, <2>1, Numbers DEF Shaped, Before
<1> QED
  BY <1>1, <1>2, <1>3 DEF Shaped, OperandsDefined, Earlier

LEMMA InitShaped == Init => Shaped
<1> SUFFICES ASSUME Init PROVE Shaped
  OBVIOUS
<1>1. IsExpression(expr)
  BY ExpressionsAreTrees DEF Init
<1>2. TypeOK
  <2>1. cut \in BOOLEAN
    BY DEF Init
  <2> QED
    BY <1>1, <2>1 DEF Init, TypeOK, Phases, IsExpression
<1>3. WellFormed(ir) /\ Numbered(ir)
  BY DEF Init, WellFormed, Sorted, Earlier, Adjacent, Unshared, Numbered
<1>4. Converting
  BY DEF Init, Converting, Open
<1> QED
  BY <1>2, <1>3, <1>4 DEF Init, Shaped

-----------------------------------------------------------------------------
(* Conversion keeps the invariant.                                         *)

LEMMA OperandsBelow ==
  ASSUME NEW code, WellFormed(code), Numbered(code),
         NEW i \in DOMAIN code, NEW l \in DOMAIN code[i].args
  PROVE  code[i].args[l] \in 0 .. i - 2 /\ code[i].args[l] < Len(code)
<1>1. code \in Seq(Instructions) /\ DOMAIN code = 1 .. Len(code) /\ Len(code) \in Nat
  BY DEF WellFormed
<1>2. PICK j \in 1 .. i - 1 : code[j].dest = code[i].args[l]
  BY DEF WellFormed, Earlier
<1>3. j \in DOMAIN code
  BY <1>1, <1>2
<1>4. code[j].dest = j - 1
  BY <1>3 DEF Numbered
<1> QED
  BY <1>1, <1>2, <1>3, <1>4

(* The operands of the next node are open.                                 *)
LEMMA OperandsAreOpen ==
  ASSUME Shaped, phase = "convert", at <= Len(expr), NEW k \in DOMAIN expr[at].args
  PROVE  /\ Open(expr[at].args[k])
         /\ out[expr[at].args[k]] \in 0 .. Len(ir) - 1
<1>1. at \in DOMAIN expr
  BY ShapedTypes
<1> DEFINE i == expr[at].args[k]
<1>2. i \in DOMAIN expr /\ i < at
  BY <1>1, ShapedTypes, OperandsOfNodes
<1>3. OperandOf(expr, i, at)
  BY DEF OperandOf
<1> HIDE DEF i
<1>4. ASSUME NEW j \in 1 .. at - 1, OperandOf(expr, i, j) PROVE FALSE
  <2>1. j \in DOMAIN expr /\ j # at
    BY <1>1, ShapedTypes
  <2> QED
    BY <1>1, <1>3, <1>4, <2>1, OneParent, ShapedTypes
<1>5. i \in 1 .. at - 1
  BY <1>1, <1>2, ShapedTypes
<1>6. out[i] < Len(ir) /\ Len(out) = at - 1
  BY <1>5 DEF Shaped, Converting
<1>7. out[i] \in Nat
  BY <1>5, <1>6, ShapedTypes
<1> QED
  BY <1>4, <1>5, <1>6, <1>7, ShapedTypes DEF Open, i

LEMMA EmitShaped ==
  ASSUME Shaped, phase = "convert", stack = <<>>, at <= Len(expr),
         NEW code \in Codes, NEW args \in Seq(Nat), NEW titles \in SUBSET Titles,
         Len(args) = Len(expr[at].args),
         \A k \in DOMAIN args : args[k] = out[expr[at].args[k]],
         Fits(Instruction(Len(ir), code, args, titles)),
         code \in Copies => expr[at].kind = "unary",
         Emit(code, args, titles)
  PROVE  Shaped'
<1> DEFINE inst == Instruction(Len(ir), code, args, titles)
           n == Len(ir)
<1>0. /\ IsExpression(expr) /\ at \in DOMAIN expr /\ at \in Nat \ {0} /\ n \in Nat
      /\ ir \in Seq(Instructions) /\ DOMAIN ir = 1 .. n /\ out \in Seq(Nat) /\ Len(out) = at - 1
  BY ShapedTypes DEF Shaped, Converting
<1>1. DOMAIN args = DOMAIN expr[at].args
  BY <1>0, OperandsOfNodes
<1>2. \A k \in DOMAIN args : Open(expr[at].args[k]) /\ args[k] \in 0 .. n - 1
  BY <1>1, OperandsAreOpen
<1>3. \A k, l \in DOMAIN args : args[k] = args[l] => k = l
  <2>1. TAKE k, l \in DOMAIN args
  <2>2. HAVE args[k] = args[l]
  <2>3. expr[at].args[k] = expr[at].args[l]
    <3>1. \A i, j : Open(i) /\ Open(j) /\ out[i] = out[j] => i = j
      BY DEF Shaped, Converting
    <3> QED
      BY <1>2, <2>2, <3>1
  <2> QED
    BY <1>0, <1>1, <2>3, OperandsOfNodes
<1>4. /\ inst \in Instructions /\ inst.dest = n /\ inst.args = args /\ inst.code = code
      /\ Fits(inst)
  BY <1>0, NoConstraintType DEF Instruction, Instructions
<1>5. inst.code \in Copies => inst.args[1] = n - 1
  <2>1. SUFFICES ASSUME code \in Copies PROVE args[1] = n - 1
    BY <1>4
  <2>2. at - 1 \in DOMAIN expr /\ expr[at].args = <<at - 1>>
    BY <1>0, <2>1, NodesTyped
  <2>3. 1 \in DOMAIN args /\ expr[at].args[1] = at - 1
    BY <1>1, <2>2
  <2>4. at > 1
    BY <1>0, <2>2 DEF IsExpression
  <2> QED
    BY <2>3, <2>4 DEF Shaped, Converting
<1>6. \A i \in DOMAIN ir : \A l \in DOMAIN ir[i].args : \A k \in DOMAIN args :
        args[k] # ir[i].args[l]
  <2>1. \A i : Open(i) => \A j \in DOMAIN ir : \A k \in DOMAIN ir[j].args : ir[j].args[k] # out[i]
    BY DEF Shaped, Converting
  <2> QED
    BY <1>2, <2>1, SMTT(30)
<1> HIDE DEF inst, n
<1>7. /\ ir' = Append(ir, inst) /\ out' = Append(out, n) /\ at' = at + 1
      /\ UNCHANGED <<expr, phase, stack, result, reg, cut>>
  BY DEF Emit, inst, n
<1>8. WellFormed(ir') /\ Numbered(ir')
  <2>1. WellFormed(ir) /\ Numbered(ir)
    BY DEF Shaped, Before
  <2>2. /\ \A k \in DOMAIN inst.args : inst.args[k] \in 0 .. Len(ir) - 1
        /\ \A k, l \in DOMAIN inst.args : inst.args[k] = inst.args[l] => k = l
        /\ \A i \in DOMAIN ir : \A l \in DOMAIN ir[i].args :
             \A k \in DOMAIN inst.args : inst.args[k] # ir[i].args[l]
        /\ inst.code \in Copies => inst.args[1] = Len(ir) - 1
        /\ inst.dest = Len(ir)
    BY <1>2, <1>3, <1>4, <1>5, <1>6 DEF n
  <2>3. WellFormed(Append(ir, inst)) /\ Numbered(Append(ir, inst))
    BY <1>4, <2>1, <2>2, AppendedIsWellFormed, Zenon
  <2> QED
    BY <1>7, <2>3
<1>9. /\ ir' \in Seq(Instructions) /\ DOMAIN ir' = 1 .. n + 1 /\ Len(ir') = n + 1
      /\ ir'[n + 1] = inst /\ \A i \in 1 .. n : ir'[i] = ir[i]
  BY <1>0, <1>4, <1>7 DEF n
<1>10. /\ out' \in Seq(Nat) /\ Len(out') = at /\ out'[at] = n
       /\ \A i \in 1 .. at - 1 : out'[i] = out[i]
  BY <1>0, <1>7
<1>11. \A i : Open(i)' => \/ i = at
                          \/ /\ i \in 1 .. at - 1 /\ Open(i)
                             /\ \A k \in DOMAIN args : expr[at].args[k] # i
  <2>1. SUFFICES ASSUME NEW i, Open(i)', i # at
                 PROVE  /\ i \in 1 .. at - 1 /\ Open(i)
                        /\ \A k \in DOMAIN args : expr[at].args[k] # i
    OBVIOUS
  <2>2. i \in 1 .. at /\ \A j \in 1 .. at : ~OperandOf(expr, i, j)
    <3>1. at' - 1 = at /\ expr' = expr
      BY <1>0, <1>7
    <3> QED
      BY <2>1, <3>1 DEF Open, OperandOf
  <2>3. Open(i) /\ i \in 1 .. at - 1
    BY <1>0, <2>1, <2>2 DEF Open
  <2>4. ~OperandOf(expr, i, at)
    BY <1>0, <2>2
  <2> QED
    BY <1>1, <2>3, <2>4 DEF OperandOf
<1>12. \A i \in DOMAIN ir : \A l \in DOMAIN ir[i].args : ir[i].args[l] < n
  BY <1>0, OperandsBelow DEF Shaped, Before, n
<1>13. Converting'
  <2>1. Len(out') = at' - 1
    BY <1>0, <1>7, <1>10
  <2>2. \A i \in 1 .. at - 1 : out[i] \in Nat /\ out[i] < n
    BY <1>0 DEF Shaped, Converting, n
  <2>3. \A i \in 1 .. at' - 1 : out'[i] < Len(ir')
    <3>1. SUFFICES ASSUME NEW i \in 1 .. at PROVE out'[i] < n + 1
      BY <1>0, <1>7, <1>9, SMTT(30)
    <3>2. CASE i = at
      BY <1>0, <1>10, <3>2
    <3>3. CASE i # at
      <4>1. i \in 1 .. at - 1
        BY <1>0, <3>1, <3>3
      <4> QED
        BY <1>0, <1>10, <2>2, <4>1
    <3> QED
      BY <3>2, <3>3
  <2>4. at' > 1 => out'[at' - 1] = Len(ir') - 1
    BY <1>0, <1>7, <1>9, <1>10
  <2>5. ASSUME NEW i, NEW j, Open(i)', Open(j)', out'[i] = out'[j] PROVE i = j
    <3>1. CASE i = at \/ j = at
      BY <1>0, <1>10, <1>11, <2>2, <2>5, <3>1, SMTT(30)
    <3>2. CASE i # at /\ j # at
      BY <1>10, <1>11, <2>5, <3>2 DEF Shaped, Converting
    <3> QED
      BY <3>1, <3>2
  <2>6. ASSUME NEW i, Open(i)', NEW j \in DOMAIN ir', NEW k \in DOMAIN ir'[j].args
        PROVE  ir'[j].args[k] # out'[i]
    <3>1. CASE j = n + 1
      <4>1. ir'[j].args = args
        BY <1>4, <1>9, <3>1
      <4>2. args[k] \in 0 .. n - 1 /\ args[k] = out[expr[at].args[k]] /\ Open(expr[at].args[k])
        BY <1>2, <2>6, <4>1
      <4>3. CASE i = at
        BY <1>0, <1>10, <4>1, <4>2, <4>3, SMTT(30)
      <4>4. CASE i # at
        <5>1. Open(i) /\ expr[at].args[k] # i /\ out'[i] = out[i]
          BY <1>10, <1>11, <2>6, <4>1, <4>4
        <5> QED
          BY <4>1, <4>2, <5>1 DEF Shaped, Converting
      <4> QED
        BY <4>3, <4>4
    <3>2. CASE j \in 1 .. n
      <4>1. j \in DOMAIN ir /\ k \in DOMAIN ir[j].args /\ ir'[j].args = ir[j].args
        BY <1>0, <1>9, <2>6, <3>2
      <4>2. ir[j].args[k] < n
        BY <1>12, <4>1
      <4>3. CASE i = at
        BY <1>0, <1>10, <4>1, <4>2, <4>3
      <4>4. CASE i # at
        <5>1. Open(i) /\ out'[i] = out[i]
          BY <1>10, <1>11, <2>6, <4>4
        <5> QED
          BY <4>1, <5>1 DEF Shaped, Converting
      <4> QED
        BY <4>3, <4>4
    <3> QED
      BY <1>0, <1>9, <3>1, <3>2
  <2> QED
    BY <2>1, <2>3, <2>4, <2>5, <2>6 DEF Converting
<1>14. TypeOK'
  <2>1. at' \in 1 .. Len(expr) + 1
    BY <1>0, <1>7 DEF IsExpression
  <2>2. stack' = <<>>
    BY <1>7
  <2> QED
    BY <1>7, <1>9, <1>10, <2>1, <2>2 DEF Shaped, TypeOK
<1> QED
  BY <1>7, <1>8, <1>13, <1>14 DEF Shaped

LEMMA PageShaped == ASSUME Shaped, Page PROVE Shaped'
<1>1. /\ phase = "convert" /\ stack = <<>> /\ at <= Len(expr) /\ at \in DOMAIN expr
      /\ expr[at].kind = "page" /\ Emit("set", <<>>, expr[at].titles)
  BY ShapedTypes DEF Page, Visiting
<1>2. expr[at].titles \in SUBSET Titles /\ expr[at].args = <<>>
  BY <1>1, ShapedTypes, NodesTyped
<1>3. /\ <<>> \in Seq(Nat) /\ Len(<<>>) = Len(expr[at].args)
      /\ \A k \in DOMAIN <<>> : <<>>[k] = out[expr[at].args[k]]
  BY <1>2
<1>4. /\ "set" \in Codes /\ "set" \notin Copies
      /\ Fits(Instruction(Len(ir), "set", <<>>, expr[at].titles))
  BY DEF Codes, Copies, Unaries, Binaries, Generators, Fits, Instruction, Leaves
<1> QED
  BY <1>1, <1>2, <1>3, <1>4, EmitShaped

LEMMA UnaryShaped == ASSUME Shaped, Unary PROVE Shaped'
<1>1. /\ phase = "convert" /\ stack = <<>> /\ at <= Len(expr) /\ at \in DOMAIN expr
      /\ expr[at].kind = "unary" /\ Emit(expr[at].op, <<Len(ir) - 1>>, {})
  BY ShapedTypes DEF Unary, Visiting
<1> DEFINE args == <<Len(ir) - 1>>
<1>2. expr[at].op \in Unaries /\ expr[at].args = <<at - 1>> /\ at - 1 \in DOMAIN expr
  BY <1>1, ShapedTypes, NodesTyped
<1>3. at > 1 /\ 1 \in DOMAIN expr[at].args /\ expr[at].args[1] = at - 1 /\ Len(expr[at].args) = 1
  BY <1>2, ShapedTypes
<1>4. out[at - 1] = Len(ir) - 1 /\ Len(ir) - 1 \in Nat
  BY <1>1, <1>3, OperandsAreOpen DEF Shaped, Converting
<1>5. /\ args \in Seq(Nat) /\ Len(args) = 1 /\ \A k \in DOMAIN args : k = 1 /\ args[k] = Len(ir) - 1
  BY <1>4
<1>6. expr[at].op \in Codes /\ expr[at].op \notin Binaries \cup {"set"}
  BY <1>2 DEF Codes, Unaries, Binaries, Generators
<1>7. Fits(Instruction(Len(ir), expr[at].op, args, {}))
  BY <1>5, <1>6 DEF Fits, Instruction
<1> HIDE DEF args
<1>8. Len(args) = Len(expr[at].args) /\ \A k \in DOMAIN args : args[k] = out[expr[at].args[k]]
  BY <1>3, <1>4, <1>5
<1>9. Emit(expr[at].op, args, {})
  BY <1>1 DEF args
<1> QED
  BY <1>1, <1>5, <1>6, <1>7, <1>8, <1>9, EmitShaped

LEMMA BinaryShaped == ASSUME Shaped, Binary PROVE Shaped'
<1> DEFINE a == out[expr[at].args[1]]
           b == out[expr[at].args[2]]
           args == <<a, b>>
<1>1. /\ phase = "convert" /\ stack = <<>> /\ at <= Len(expr) /\ at \in DOMAIN expr
      /\ expr[at].kind = "binary" /\ Emit(expr[at].op, args, {})
  BY ShapedTypes DEF Binary, Visiting
<1>2. expr[at].op \in Binaries /\ Len(expr[at].args) = 2 /\ expr[at].args \in Seq(Nat)
  <2>1. IsExpression(expr)
    BY ShapedTypes
  <2>2. expr[at].op \in Binaries
    BY <1>1, <2>1, NodesTyped
  <2>3. Len(expr[at].args) = 2 /\ expr[at].args \in Seq(Nat)
    BY <1>1, <2>1, OperandsOfNodes
  <2> QED
    BY <2>2, <2>3
<1>3. 1 \in DOMAIN expr[at].args /\ 2 \in DOMAIN expr[at].args
  BY <1>2
<1>4. a \in Nat /\ b \in Nat
  BY <1>1, <1>3, OperandsAreOpen
<1> HIDE DEF a, b
<1>5. /\ args \in Seq(Nat) /\ Len(args) = 2
      /\ \A k \in DOMAIN args : (k = 1 /\ args[k] = a) \/ (k = 2 /\ args[k] = b)
  BY <1>4
<1>6. expr[at].op \in Codes /\ expr[at].op \notin Copies \cup {"set"}
  BY <1>2 DEF Codes, Unaries, Binaries, Generators, Copies
<1>7. Fits(Instruction(Len(ir), expr[at].op, args, {}))
  BY <1>5, <1>6 DEF Fits, Instruction
<1> HIDE DEF args
<1>8. Len(args) = Len(expr[at].args) /\ \A k \in DOMAIN args : args[k] = out[expr[at].args[k]]
  BY <1>2, <1>5 DEF a, b
<1> QED
  BY <1>1, <1>5, <1>6, <1>7, <1>8, EmitShaped

LEMMA RejectionShaped ==
  ASSUME Shaped, phase = "convert", Ends("rejected")
  PROVE  Shaped'
<1>1. TypeOK'
  BY DEF Shaped, TypeOK, Ends, Phases
<1> QED
  BY <1>1 DEF Shaped, Ends, Before

(* Nothing but the stack and the open nodes' registers change.             *)
LEMMA ConstrainShaped == ASSUME Shaped, Constrain PROVE Shaped'
<1>1. /\ phase = "convert" /\ stack = <<>> /\ at <= Len(expr) /\ at \in DOMAIN expr
      /\ expr[at].kind = "constrained"
  BY ShapedTypes DEF Constrain, Visiting
<1>2. CASE ~Consistent(expr[at].list)
  BY <1>1, <1>2, RejectionShaped DEF Constrain
<1>3. CASE Consistent(expr[at].list)
  <2> DEFINE con == FromList(expr[at].list)
             r == Len(ir) - 1
  <2>1. /\ stack' = <<<<r, con>>>> /\ out' = Append(out, r) /\ at' = at + 1
        /\ UNCHANGED <<expr, phase, ir, result, reg, cut>>
    BY <1>3 DEF Constrain
  <2>2. /\ expr[at].list \in Seq(Elements)
        /\ expr[at].args = <<at - 1>> /\ at - 1 \in DOMAIN expr
    BY <1>1, ShapedTypes, NodesTyped
  <2>3. con \in Constraints
    BY <2>2, FromListType
  <2>4. at > 1 /\ 1 \in DOMAIN expr[at].args /\ expr[at].args[1] = at - 1
    BY <2>2, ShapedTypes
  <2>5. Open(at - 1) /\ out[at - 1] = r /\ r \in Nat
    BY <1>1, <2>4, OperandsAreOpen DEF Shaped, Converting
  <2> HIDE DEF con, r
  <2>6. /\ out' \in Seq(Nat) /\ Len(out') = at /\ out'[at] = r
        /\ \A i \in 1 .. at - 1 : out'[i] = out[i]
    <3>1. out \in Seq(Nat) /\ at \in Nat \ {0} /\ Len(out) = at - 1
      BY <1>1, ShapedTypes DEF Shaped, Converting
    <3>2. out' = Append(out, r) /\ r \in Nat
      BY <2>1, <2>5
    <3> QED
      BY <3>1, <3>2
  <2>7. r < Len(ir) /\ r = Len(ir) - 1
    BY ShapedTypes DEF r
  <2>8. \A i : Open(i)' => i = at \/ (i \in 1 .. at - 1 /\ Open(i) /\ i # at - 1)
    <3>1. SUFFICES ASSUME NEW i, Open(i)', i # at
                   PROVE  i \in 1 .. at - 1 /\ Open(i) /\ i # at - 1
      OBVIOUS
    <3>2. i \in 1 .. at /\ \A j \in 1 .. at : ~OperandOf(expr, i, j)
      <4>1. at' - 1 = at /\ expr' = expr
        BY <2>1, ShapedTypes
      <4> QED
        BY <3>1, <4>1 DEF Open, OperandOf
    <3>3. Open(i) /\ i \in 1 .. at - 1
      BY <3>1, <3>2, ShapedTypes DEF Open
    <3>4. ~OperandOf(expr, i, at)
      BY <3>2, ShapedTypes
    <3> QED
      BY <2>4, <3>3, <3>4 DEF OperandOf
  <2>9. Converting'
    <3>1. \A i \in 1 .. at' - 1 : out'[i] < Len(ir')
      <4>1. at' - 1 = at /\ ir' = ir /\ at \in Nat \ {0} /\ Len(ir) \in Nat
        BY <2>1, ShapedTypes
      <4>2. \A i \in 1 .. at - 1 : out[i] < Len(ir)
        BY <1>1 DEF Shaped, Converting
      <4> QED
        BY <2>6, <2>7, <4>1, <4>2
    <3>2. ASSUME NEW i, NEW j, Open(i)', Open(j)', out'[i] = out'[j] PROVE i = j
      <4>1. /\ i # at => i \in 1 .. at - 1 /\ Open(i) /\ i # at - 1 /\ out'[i] = out[i]
            /\ j # at => j \in 1 .. at - 1 /\ Open(j) /\ j # at - 1 /\ out'[j] = out[j]
        BY <2>6, <2>8, <3>2
      <4>2. CASE i = at /\ j = at
        BY <4>2
      <4>3. CASE i = at /\ j # at
        BY <1>1, <2>5, <2>6, <3>2, <4>1, <4>3 DEF Shaped, Converting
      <4>4. CASE i # at /\ j = at
        BY <1>1, <2>5, <2>6, <3>2, <4>1, <4>4 DEF Shaped, Converting
      <4>5. CASE i # at /\ j # at
        BY <1>1, <3>2, <4>1, <4>5 DEF Shaped, Converting
      <4> QED
        BY <4>2, <4>3, <4>4, <4>5
    <3>3. ASSUME NEW i, Open(i)', NEW j \in DOMAIN ir', NEW k \in DOMAIN ir'[j].args
          PROVE  ir'[j].args[k] # out'[i]
      <4>0. j \in DOMAIN ir /\ k \in DOMAIN ir[j].args /\ ir'[j].args[k] = ir[j].args[k]
        BY <2>1, <3>3
      <4>1. CASE i = at
        BY <1>1, <2>5, <2>6, <4>0, <4>1 DEF Shaped, Converting
      <4>2. CASE i # at
        <5>1. Open(i) /\ out'[i] = out[i]
          BY <2>6, <2>8, <3>3, <4>2
        <5> QED
          BY <1>1, <4>0, <5>1 DEF Shaped, Converting
      <4> QED
        BY <4>1, <4>2
    <3>4. Len(out') = at' - 1 /\ (at' > 1 => out'[at' - 1] = Len(ir') - 1)
      BY <2>1, <2>6, <2>7, ShapedTypes
    <3> QED
      BY <3>1, <3>2, <3>3, <3>4 DEF Converting
  <2>10. stack' \in Seq(Nat \X Constraints) /\ \A k \in DOMAIN stack' : stack'[k][1] < Len(ir')
    BY <2>1, <2>3, <2>5, <2>7
  <2>11. TypeOK'
    <3>1. at' \in 1 .. Len(expr) + 1
      BY <1>1, <2>1, ShapedTypes
    <3> QED
      BY <1>1, <2>1, <2>6, <2>10, <3>1 DEF Shaped, TypeOK
  <2> QED
    BY <1>1, <2>1, <2>9, <2>10, <2>11 DEF Shaped
<1> QED
  BY <1>2, <1>3

LEMMA CodesAre ==
  ASSUME NEW c \in Codes
  PROVE  c \in Generators \/ c = "set" \/ c = "toggle" \/ c = "nop" \/ c \in Binaries
  BY DEF Codes, Unaries

LEMMA ToggledType ==
  ASSUME NEW con \in Constraints
  PROVE  Toggled(con) \in Constraints
<1>1. con.ns # None => {TalkOf(n) : n \in con.ns} \subseteq Namespaces
  BY EverythingHasTalk DEF Constraints
<1> QED
  BY <1>1 DEF Toggled, Constraints

LEMMA HandedOnType ==
  ASSUME NEW inst \in Instructions, Fits(inst), NEW con \in Constraints
  PROVE  /\ HandedOn(inst, con) \in Seq(Nat \X Constraints)
         /\ \A k \in DOMAIN HandedOn(inst, con) :
              \E l \in DOMAIN inst.args : HandedOn(inst, con)[k][1] = inst.args[l]
<1>1. inst.args \in Seq(Nat) /\ inst.code \in Codes
  BY DEF Instructions
<1>2. CASE inst.code \in Binaries
  <2> DEFINE a == inst.args[1]
             b == inst.args[2]
  <2>0. Len(inst.args) = 2
    BY <1>2 DEF Fits
  <2>1. 1 \in DOMAIN inst.args /\ 2 \in DOMAIN inst.args /\ a \in Nat /\ b \in Nat
    <3>1. DOMAIN inst.args = 1 .. 2 /\ \A k \in DOMAIN inst.args : inst.args[k] \in Nat
      BY <1>1, <2>0
    <3>2. 1 \in DOMAIN inst.args /\ 2 \in DOMAIN inst.args
      BY <3>1
    <3> QED
      BY <3>1, <3>2
  <2> HIDE DEF a, b
  <2>2. HandedOn(inst, con) = <<<<a, con>>, <<b, con>>>>
    <3>1. inst.code \in Binaries /\ inst.code # "toggle" /\ inst.code # "nop"
      BY <1>2 DEF Binaries
    <3> QED
      BY <3>1, Zenon DEF HandedOn, a, b
  <2>3. <<<<a, con>>, <<b, con>>>> \in Seq(Nat \X Constraints)
    BY <2>1
  <2>4. ASSUME NEW k \in DOMAIN HandedOn(inst, con)
        PROVE  \E l \in DOMAIN inst.args : HandedOn(inst, con)[k][1] = inst.args[l]
    BY <2>1, <2>2 DEF a, b
  <2> QED
    BY <2>2, <2>3, <2>4
<1>3. CASE inst.code \in {"toggle", "nop"}
  <2> DEFINE a == inst.args[1]
             new == IF inst.code = "toggle" THEN Toggled(con) ELSE con
  <2>1. 1 \in DOMAIN inst.args /\ a \in Nat
    BY <1>1, <1>3, SMTT(30) DEF Fits, Copies, Unaries
  <2>2. new \in Constraints
    BY ToggledType
  <2>3. HandedOn(inst, con) = <<<<a, new>>>>
    BY <1>3 DEF HandedOn, Binaries
  <2> HIDE DEF a, new
  <2>4. ASSUME NEW k \in DOMAIN HandedOn(inst, con)
        PROVE  \E l \in DOMAIN inst.args : HandedOn(inst, con)[k][1] = inst.args[l]
    BY <2>1, <2>3 DEF a
  <2> QED
    BY <2>1, <2>2, <2>3, <2>4
<1>4. CASE inst.code \in Leaves
  <2>1. HandedOn(inst, con) = <<>>
    BY <1>4 DEF HandedOn, Leaves, Generators, Binaries
  <2> QED
    BY <2>1
<1> QED
  BY <1>1, <1>2, <1>3, <1>4, CodesAre DEF Leaves

LEMMA Pushed ==
  ASSUME NEW S, NEW T, NEW a \in Seq(S), NEW b \in Seq(S), b # <<>>,
         \A k \in DOMAIN a : a[k] \in T, \A k \in DOMAIN b : b[k] \in T
  PROVE  a \o Tail(b) \in Seq(S) /\ \A k \in DOMAIN (a \o Tail(b)) : (a \o Tail(b))[k] \in T
<1>1. Tail(b) \in Seq(S) /\ Len(Tail(b)) = Len(b) - 1 /\ \A k \in DOMAIN Tail(b) : Tail(b)[k] \in T
  <2>1. Tail(b) \in Seq(S) /\ Len(Tail(b)) = Len(b) - 1 /\ \A k \in 1 .. Len(Tail(b)) : Tail(b)[k] = b[k + 1]
    BY HeadTailProperties
  <2> QED
    BY <2>1
<1> DEFINE c == Tail(b)
<1> HIDE DEF c
<1>2. /\ a \o c \in Seq(S)
      /\ \A k \in 1 .. Len(a) + Len(c) : (a \o c)[k] = IF k <= Len(a) THEN a[k] ELSE c[k - Len(a)]
      /\ Len(a \o c) = Len(a) + Len(c)
  BY <1>1, ConcatProperties DEF c
<1>3. ASSUME NEW k \in 1 .. Len(a) + Len(c) PROVE (a \o c)[k] \in T
  <2>1. CASE k <= Len(a)
    BY <1>2, <2>1
  <2>2. CASE ~ (k <= Len(a))
    <3>1. k - Len(a) \in DOMAIN c
      BY <1>1, <2>2 DEF c
    <3> QED
      BY <1>1, <1>2, <2>2, <3>1 DEF c
  <2> QED
    BY <2>1, <2>2
<1> QED
  BY <1>2, <1>3 DEF c

(* The instruction that the constraint on top of the stack is for.         *)
LEMMA HandLooksAt ==
  ASSUME Shaped, phase = "convert", stack # <<>>
  PROVE  /\ stack \in Seq(Nat \X Constraints)
         /\ stack[1][1] \in Nat /\ stack[1][2] \in Constraints
         /\ Has(stack[1][1])
         /\ IndexOf(stack[1][1]) = stack[1][1] + 1 /\ stack[1][1] + 1 \in DOMAIN ir
<1>1. stack \in Seq(Nat \X Constraints)
  BY DEF Shaped, TypeOK
<1>2. 1 \in DOMAIN stack
  BY <1>1
<1>3. stack[1] \in Nat \X Constraints
  BY <1>1, <1>2
<1>4. stack[1][1] < Len(ir)
  BY <1>2 DEF Shaped
<1>5. WellFormed(ir) /\ Numbered(ir)
  BY SMTT(30) DEF Shaped, Before
<1> QED
  BY <1>1, <1>3, <1>4, <1>5, Numbers, ShapedTypes

LEMMA HandShaped == ASSUME Shaped, Hand PROVE Shaped'
<1> DEFINE r == stack[1][1]
           con == stack[1][2]
           i == r + 1
           inst == ir[i]
           leaf == inst.code \in Leaves
<1>1. /\ phase = "convert" /\ stack # <<>>
      /\ stack \in Seq(Nat \X Constraints) /\ r \in Nat /\ con \in Constraints
      /\ Has(r) /\ IndexOf(r) = i /\ i \in DOMAIN ir
  BY HandLooksAt DEF Hand
<1>2. WellFormed(ir) /\ Numbered(ir) /\ Converting /\ inst \in Instructions /\ Fits(inst)
  BY <1>1, ShapedTypes, InstructionsTyped DEF Shaped, Before, WellFormed
<1>3. \/ Ends("rejected")
      \/ /\ stack' = HandedOn(inst, con) \o Tail(stack)
         /\ ir' = IF leaf THEN [ir EXCEPT ![i].cs = Merge(inst.cs, con)] ELSE ir
         /\ UNCHANGED <<expr, phase, at, out, result, reg, cut>>
  BY <1>1, SMTT(30) DEF Hand, Leaves
<1>4. CASE Ends("rejected")
  BY <1>1, <1>4, RejectionShaped
<1>5. CASE /\ stack' = HandedOn(inst, con) \o Tail(stack)
           /\ ir' = IF leaf THEN [ir EXCEPT ![i].cs = Merge(inst.cs, con)] ELSE ir
           /\ UNCHANGED <<expr, phase, at, out, result, reg, cut>>
  <2> DEFINE pushed == HandedOn(inst, con)
             T == {p \in Nat \X Constraints : p[1] < Len(ir)}
             new == [inst EXCEPT !.cs = Merge(inst.cs, con)]
  <2>1. pushed \in Seq(Nat \X Constraints) /\ \A k \in DOMAIN pushed : pushed[k] \in T
    <3>1. pushed \in Seq(Nat \X Constraints)
      BY <1>1, <1>2, HandedOnType
    <3>2. \A k \in DOMAIN pushed : \E l \in DOMAIN inst.args : pushed[k][1] = inst.args[l]
      BY <1>1, <1>2, HandedOnType
    <3>3. \A l \in DOMAIN inst.args : inst.args[l] < Len(ir)
      BY <1>1, <1>2, OperandsBelow
    <3> HIDE DEF pushed, inst
    <3> QED
      BY <3>1, <3>2, <3>3
  <2>2. \A k \in DOMAIN stack : stack[k] \in T
    BY <1>1 DEF Shaped
  <2>3. stack' \in Seq(Nat \X Constraints) /\ \A k \in DOMAIN stack' : stack'[k] \in T
    <3> HIDE DEF pushed, T
    <3>1. stack' = pushed \o Tail(stack)
      BY <1>5 DEF pushed
    <3>2. /\ pushed \o Tail(stack) \in Seq(Nat \X Constraints)
          /\ \A k \in DOMAIN (pushed \o Tail(stack)) : (pushed \o Tail(stack))[k] \in T
      BY <1>1, <2>1, <2>2, Pushed
    <3> QED
      BY <3>1, <3>2
  <2>4. Reshaped(ir, ir')
    <3>1. leaf => new \in Instructions /\ Fits(new)
      <4>1. Merge(inst.cs, con) \in Constraints
        BY <1>1, <1>2, MergeType DEF Instructions
      <4> QED
        BY <1>2, <4>1 DEF Instructions, Fits
    <3>2. /\ new.dest = inst.dest /\ new.args = inst.args /\ new.code = inst.code
      BY <1>2 DEF Instructions
    <3> HIDE DEF inst, new, con, i
    <3>3. CASE ~leaf
      BY <1>5, <1>2, <3>3 DEF Reshaped, WellFormed
    <3>4. CASE leaf
      <4>1. ir' = [ir EXCEPT ![i] = new]
        BY <1>5, <3>4 DEF new, inst
      <4>2. ir \in Seq(Instructions) /\ \A j \in DOMAIN ir : Fits(ir[j])
        BY <1>2 DEF WellFormed
      <4>3. ir' \in Seq(Instructions) /\ Len(ir') = Len(ir)
        BY <1>1, <3>1, <3>4, <4>1, <4>2
      <4>4. \A j \in DOMAIN ir : ir'[j] = IF j = i THEN new ELSE ir[j]
        BY <4>1, <4>2
      <4> QED
        BY <1>1, <3>1, <3>2, <3>4, <4>2, <4>3, <4>4 DEF Reshaped, inst
    <3> QED
      BY <3>3, <3>4
  <2>5. WellFormed(ir') /\ Numbered(ir') /\ Len(ir') = Len(ir) /\ DOMAIN ir' = DOMAIN ir
    <3>1. WellFormed(ir') /\ Numbered(ir')
      BY <1>2, <2>4, ReshapedIsWellFormed, ReshapedIsNumbered
    <3>2. Len(ir') = Len(ir) /\ ir' \in Seq(Instructions) /\ ir \in Seq(Instructions)
      BY <2>4, ShapedTypes DEF Reshaped
    <3> QED
      BY <3>1, <3>2
  <2>6. Converting'
    <3>1. \A j : Open(j)' <=> Open(j)
      BY <1>5 DEF Open, OperandOf
    <3>2. \A j \in DOMAIN ir' : ir'[j].args = ir[j].args
      BY <2>4, <2>5 DEF Reshaped
    <3> HIDE DEF r, con, i, inst, leaf
    <3>3. UNCHANGED <<out, at>>
      BY <1>5
    <3>4. \A j : Open(j)' => \A k \in DOMAIN ir' : \A l \in DOMAIN ir'[k].args : ir'[k].args[l] # out'[j]
      BY <1>2, <2>5, <3>1, <3>2, <3>3, SMTT(30) DEF Converting
    <3> QED
      BY <1>2, <2>5, <3>1, <3>3, <3>4 DEF Converting
  <2>7. TypeOK'
    BY <1>1, <1>5, <2>3, <2>5, Zenon DEF Shaped, TypeOK, WellFormed
  <2> QED
    BY <1>1, <1>5, <2>3, <2>5, <2>6, <2>7 DEF Shaped
<1> QED
  BY <1>3, <1>4, <1>5

LEMMA ConvertedShaped == ASSUME Shaped, Converted PROVE Shaped'
<1>1. /\ phase = "convert" /\ stack = <<>> /\ at > Len(expr)
      /\ phase' = "talk" /\ at' = 1 /\ result' = Len(ir) - 1
      /\ UNCHANGED <<expr, stack, ir, out, reg, cut>>
  BY DEF Converted, Proceed
<1>2. WellFormed(ir) /\ Numbered(ir) /\ Converting
  BY <1>1 DEF Shaped, Before
<1>3. at > 1 /\ at - 1 \in 1 .. at - 1 /\ out \in Seq(Nat)
  BY <1>1, ShapedTypes DEF IsExpression
<1>4. out[at - 1] \in Nat /\ out[at - 1] = Len(ir) - 1
  BY <1>2, <1>3 DEF Converting
<1>5. ir # <<>> /\ Len(ir) \in DOMAIN ir /\ result' \in Nat
  BY <1>1, <1>4, ShapedTypes
<1>6. ir[Len(ir)].dest = result'
  BY <1>1, <1>2, <1>5 DEF Numbered
<1>7. TypeOK'
  BY <1>1, <1>5, ShapedTypes DEF Shaped, TypeOK, Phases
<1> QED
  BY <1>1, <1>2, <1>5, <1>6, <1>7 DEF Shaped, Before

-----------------------------------------------------------------------------
(* The passes keep the invariant.                                          *)

LEMMA AsNopType ==
  ASSUME NEW inst \in Instructions, Fits(inst), inst.code \in Copies
  PROVE  /\ AsNop(inst) \in Instructions /\ Fits(AsNop(inst))
         /\ AsNop(inst).dest = inst.dest /\ AsNop(inst).args = inst.args
         /\ AsNop(inst).code = "nop" /\ AsNop(inst).cs = NoConstraint
  BY NoConstraintType DEF AsNop, Instruction, Instructions, Codes, Fits, Copies, Binaries, Leaves, Generators

LEMMA UnchangedIsReshaped == WellFormed(ir) => Reshaped(ir, ir)
  BY DEF WellFormed, Reshaped

LEMMA ChangedIsReshaped ==
  ASSUME WellFormed(ir), NEW i \in DOMAIN ir, NEW new \in Instructions,
         new.dest = ir[i].dest, new.args = ir[i].args, Fits(new),
         new.code \in Copies => ir[i].code \in Copies
  PROVE  Reshaped(ir, [ir EXCEPT ![i] = new])
<1>1. ir \in Seq(Instructions) /\ \A j \in DOMAIN ir : Fits(ir[j])
  BY DEF WellFormed
<1>2. [ir EXCEPT ![i] = new] \in Seq(Instructions) /\ Len([ir EXCEPT ![i] = new]) = Len(ir)
  BY <1>1
<1> QED
  BY <1>1, <1>2 DEF Reshaped

LEMMA ReshapedTwice ==
  ASSUME NEW a, NEW b, NEW c, WellFormed(a), Reshaped(a, b), Reshaped(b, c)
  PROVE  Reshaped(a, c)
<1>1. /\ a \in Seq(Instructions) /\ b \in Seq(Instructions) /\ c \in Seq(Instructions)
      /\ Len(b) = Len(a) /\ Len(c) = Len(b)
  BY DEF WellFormed, Reshaped
<1>2. DOMAIN b = DOMAIN a
  BY <1>1
<1> QED
  BY <1>1, <1>2 DEF Reshaped

(* What the first pass finds and does.                                     *)
LEMMA TalkLooksAt ==
  ASSUME Shaped, Talk
  PROVE  /\ at \in DOMAIN ir
         /\ \/ /\ ir' = ir
               /\ ir[at].code = "toggle" => at - 1 \in DOMAIN ir /\ ir[at - 1].code # "toggle"
            \/ /\ at - 1 \in DOMAIN ir /\ ir[at].code = "toggle" /\ ir[at - 1].code = "toggle"
               /\ ir' = [ir EXCEPT ![at] = AsNop(ir[at]), ![at - 1] = AsNop(ir[at - 1])]
<1>1. at \in DOMAIN ir /\ WellFormed(ir)
  BY ShapedTypes DEF Talk, Looking, Shaped
<1>2. ASSUME ir[at].code = "toggle"
      PROVE  /\ at - 1 \in DOMAIN ir
             /\ Has(ir[at].args[1]) /\ IndexOf(ir[at].args[1]) = at - 1
  <2>1. at - 1 \in DOMAIN ir /\ ir[at].args[1] = ir[at - 1].dest
    BY <1>1, <1>2 DEF WellFormed, Adjacent, Copies, Unaries
  <2> QED
    BY <1>1, <2>1, Found
<1>3. CASE ir[at].code # "toggle"
  BY <1>1, <1>3 DEF Talk
<1>4. CASE ir[at].code = "toggle" /\ ir[at - 1].code # "toggle"
  BY <1>1, <1>2, <1>4 DEF Talk
<1>5. CASE ir[at].code = "toggle" /\ ir[at - 1].code = "toggle"
  <2>1. ir' = [ir EXCEPT ![at] = AsNop(@), ![IndexOf(ir[at].args[1])] = AsNop(@)]
    BY <1>2, <1>5 DEF Talk
  <2>2. ir' = [ir EXCEPT ![at] = AsNop(ir[at]), ![at - 1] = AsNop(ir[at - 1])]
    <3>1. at # at - 1
      BY ShapedTypes
    <3> QED
      BY <1>2, <1>5, <2>1, <3>1
  <2> QED
    BY <1>1, <1>2, <1>5, <2>2
<1> QED
  BY <1>3, <1>4, <1>5

LEMMA TalkReshapes == ASSUME Shaped, Talk PROVE Reshaped(ir, ir')
<1>1. WellFormed(ir)
  BY DEF Shaped
<1>2. CASE ir' = ir
  BY <1>1, <1>2, UnchangedIsReshaped
<1>3. CASE /\ at - 1 \in DOMAIN ir /\ ir[at].code = "toggle" /\ ir[at - 1].code = "toggle"
           /\ ir' = [ir EXCEPT ![at] = AsNop(ir[at]), ![at - 1] = AsNop(ir[at - 1])]
  <2>1. at \in DOMAIN ir /\ at # at - 1
    BY TalkLooksAt, ShapedTypes
  <2>2. ASSUME NEW i \in {at - 1, at}
        PROVE  /\ AsNop(ir[i]) \in Instructions /\ Fits(AsNop(ir[i]))
               /\ AsNop(ir[i]).dest = ir[i].dest /\ AsNop(ir[i]).args = ir[i].args
               /\ ir[i].code \in Copies
    <3>1. ir[i].code \in Copies /\ ir[i] \in Instructions /\ Fits(ir[i])
      BY <1>1, <1>3, <2>1, InstructionsTyped, ShapedTypes DEF WellFormed, Copies, Unaries
    <3> QED
      BY <3>1, AsNopType
  <2> DEFINE a == AsNop(ir[at])
             b == AsNop(ir[at - 1])
  <2>3. /\ a \in Instructions /\ Fits(a) /\ a.dest = ir[at].dest /\ a.args = ir[at].args
        /\ b \in Instructions /\ Fits(b) /\ b.dest = ir[at - 1].dest /\ b.args = ir[at - 1].args
        /\ ir[at].code \in Copies /\ ir[at - 1].code \in Copies
    BY <2>2
  <2> HIDE DEF a, b
  <2>4. ir' = [ir EXCEPT ![at] = a, ![at - 1] = b]
    BY <1>3 DEF a, b
  <2>5. ir \in Seq(Instructions) /\ \A j \in DOMAIN ir : Fits(ir[j])
    BY <1>1 DEF WellFormed
  <2>6. ir' \in Seq(Instructions) /\ Len(ir') = Len(ir)
    BY <1>3, <2>1, <2>3, <2>4, <2>5
  <2>7. \A j \in DOMAIN ir : ir'[j] = IF j = at THEN a ELSE IF j = at - 1 THEN b ELSE ir[j]
    BY <2>1, <2>4, <2>5
  <2> QED
    BY <1>3, <2>1, <2>3, <2>5, <2>6, <2>7 DEF Reshaped
<1> QED
  BY <1>2, <1>3, TalkLooksAt

LEMMA LastKept ==
  ASSUME Shaped, Reshaped(ir, ir'), phase \in {"talk", "empty"}, UNCHANGED result
  PROVE  /\ WellFormed(ir') /\ Numbered(ir')
         /\ ir' \in Seq(Instructions) /\ Len(ir') = Len(ir)
         /\ ir' # <<>> /\ ir'[Len(ir')].dest = result'
<1>1. WellFormed(ir) /\ Numbered(ir) /\ ir # <<>> /\ ir[Len(ir)].dest = result
  BY DEF Shaped, Before
<1>2. WellFormed(ir') /\ Numbered(ir')
  BY <1>1, ReshapedIsWellFormed, ReshapedIsNumbered
<1>3. ir' \in Seq(Instructions) /\ Len(ir') = Len(ir) /\ Len(ir) \in DOMAIN ir
  BY <1>1, ShapedTypes DEF Reshaped
<1>4. ir'[Len(ir)].dest = ir[Len(ir)].dest
  BY <1>3 DEF Reshaped
<1> QED
  BY <1>1, <1>2, <1>3, <1>4, ShapedTypes

LEMMA TalkShaped == ASSUME Shaped, Talk PROVE Shaped'
<1>1. /\ phase = "talk" /\ stack = <<>> /\ at <= Len(ir) /\ at' = at + 1
      /\ UNCHANGED <<expr, phase, stack, out, result, reg, cut>>
  BY DEF Talk, Looking
<1>2. /\ WellFormed(ir') /\ Numbered(ir') /\ ir' # <<>> /\ ir'[Len(ir')].dest = result'
      /\ ir' \in Seq(Instructions) /\ Len(ir') = Len(ir)
  BY <1>1, LastKept, TalkReshapes
<1>3. TypeOK'
  BY <1>1, <1>2, ShapedTypes DEF Shaped, TypeOK
<1> QED
  BY <1>1, <1>2, <1>3 DEF Shaped

LEMMA EmptyShaped == ASSUME Shaped, Empty PROVE Shaped'
<1>1. /\ phase = "empty" /\ at <= Len(ir) /\ at' = at + 1 /\ at \in DOMAIN ir
      /\ UNCHANGED <<expr, phase, ir, out, result, reg, cut>>
      /\ stack' = IF NsEmpty(ir[at]) THEN <<ir[at].dest>> ELSE <<>>
  BY ShapedTypes DEF Empty, Looking
<1>2. ir[at].dest = at - 1 /\ ir[at].dest \in Nat /\ ir[at].dest < Len(ir)
  BY <1>1, ShapedTypes, InstructionsTyped DEF Shaped, Before, Numbered
<1>3. stack' \in Seq(Nat) /\ \A k \in DOMAIN stack' : stack'[k] < Len(ir')
  BY <1>1, <1>2
<1>4. TypeOK'
  BY <1>1, <1>3, ShapedTypes DEF Shaped, TypeOK
<1> QED
  BY <1>1, <1>3, <1>4 DEF Shaped, Before

LEMMA ClearedType ==
  ASSUME NEW inst \in Instructions, Fits(inst)
  PROVE  /\ Cleared(inst) \in Instructions /\ Fits(Cleared(inst))
         /\ Cleared(inst).dest = inst.dest /\ Cleared(inst).args = inst.args
         /\ Cleared(inst).code \in Copies => inst.code \in Copies
         /\ Cleared(inst).cs = NoConstraint
         /\ Cleared(inst).code # "toggle"
         /\ Cleared(inst).code = "nop" => inst.code \in Copies
<1>1. CASE inst.code \in Unaries
  <2>1. Cleared(inst) = AsNop(inst)
    BY <1>1 DEF Cleared, Unaries, Generators
  <2> QED
    BY <1>1, <2>1, AsNopType DEF Copies
<1>2. CASE inst.code = "set"
  <2>1. Cleared(inst) = Instruction(inst.dest, "set", <<>>, {})
    BY <1>2 DEF Cleared, Unaries, Generators
  <2> QED
    BY <1>2, <2>1, NoConstraintType
       DEF Fits, Instruction, Instructions, Codes, Copies, Unaries, Generators, Binaries
<1>3. CASE inst.code \notin Unaries \cup {"set"}
  <2>1. Cleared(inst) = inst
    BY <1>3 DEF Cleared
  <2>2. inst.cs = NoConstraint /\ inst.code # "toggle"
    BY <1>3 DEF Fits, Leaves, Unaries
  <2> QED
    BY <2>1, <2>2 DEF Copies
<1> QED
  BY <1>1, <1>2, <1>3

LEMMA ClearLooksAt ==
  ASSUME Shaped, Clear
  PROVE  /\ phase = "empty" /\ stack \in Seq(Nat) /\ stack # <<>>
         /\ stack[1] + 1 \in DOMAIN ir /\ ir[stack[1] + 1].dest = stack[1]
         /\ ir' = [ir EXCEPT ![stack[1] + 1] = Cleared(ir[stack[1] + 1])]
         /\ stack' = ir[stack[1] + 1].args \o Tail(stack)
         /\ UNCHANGED <<expr, phase, at, out, result, reg, cut>>
<1>1. phase = "empty" /\ stack # <<>> /\ stack \in Seq(Nat)
  BY DEF Clear, Shaped, TypeOK
<1>2. 1 \in DOMAIN stack /\ stack[1] \in Nat
  BY <1>1
<1>3. stack[1] < Len(ir) /\ WellFormed(ir) /\ Numbered(ir)
  BY <1>1, <1>2 DEF Shaped, Before
<1>4. Has(stack[1]) /\ IndexOf(stack[1]) = stack[1] + 1 /\ stack[1] + 1 \in DOMAIN ir
  BY <1>2, <1>3, Numbers, ShapedTypes
<1>5. ir[stack[1] + 1].dest = stack[1]
  BY <1>2, <1>3, <1>4 DEF Numbered
<1> QED
  BY <1>1, <1>4, <1>5 DEF Clear

LEMMA ClearReshapes == ASSUME Shaped, Clear PROVE Reshaped(ir, ir')
<1> DEFINE i == stack[1] + 1
<1>1. i \in DOMAIN ir /\ ir' = [ir EXCEPT ![i] = Cleared(ir[i])]
  BY ClearLooksAt
<1>2. WellFormed(ir) /\ ir[i] \in Instructions /\ Fits(ir[i])
  BY <1>1, ShapedTypes, InstructionsTyped DEF Shaped, WellFormed
<1> HIDE DEF i
<1> QED
  BY <1>1, <1>2, ClearedType, ChangedIsReshaped

LEMMA ClearShaped == ASSUME Shaped, Clear PROVE Shaped'
<1> DEFINE i == stack[1] + 1
           T == {r \in Nat : r < Len(ir)}
<1>1. /\ phase = "empty" /\ stack \in Seq(Nat) /\ stack # <<>> /\ i \in DOMAIN ir
      /\ stack' = ir[i].args \o Tail(stack)
      /\ UNCHANGED <<expr, phase, at, out, result, reg, cut>>
  BY ClearLooksAt
<1>2. /\ WellFormed(ir') /\ Numbered(ir') /\ ir' # <<>> /\ ir'[Len(ir')].dest = result'
      /\ ir' \in Seq(Instructions) /\ Len(ir') = Len(ir)
  BY <1>1, LastKept, ClearReshapes
<1>3. ir[i].args \in Seq(Nat) /\ \A k \in DOMAIN ir[i].args : ir[i].args[k] \in T
  <2>1. ir[i].args \in Seq(Nat)
    BY <1>1, ShapedTypes, InstructionsTyped
  <2>2. WellFormed(ir) /\ Numbered(ir)
    BY <1>1 DEF Shaped, Before
  <2>3. ASSUME NEW k \in DOMAIN ir[i].args PROVE ir[i].args[k] \in T
    <3>1. ir[i].args[k] < Len(ir)
      BY <1>1, <2>2, OperandsBelow
    <3>2. ir[i].args[k] \in Nat
      BY <2>1
    <3> QED
      BY <3>1, <3>2
  <2> QED
    BY <2>1, <2>3
<1>4. \A k \in DOMAIN stack : stack[k] \in T
  BY <1>1 DEF Shaped
<1>5. stack' \in Seq(Nat) /\ \A k \in DOMAIN stack' : stack'[k] \in T
  <2> DEFINE a == ir[i].args
  <2> HIDE DEF a, T
  <2>1. a \in Seq(Nat) /\ \A k \in DOMAIN a : a[k] \in T
    BY <1>3 DEF a
  <2>2. a \o Tail(stack) \in Seq(Nat) /\ \A k \in DOMAIN (a \o Tail(stack)) : (a \o Tail(stack))[k] \in T
    BY <1>1, <1>4, <2>1, Pushed
  <2>3. stack' = a \o Tail(stack)
    BY <1>1 DEF a
  <2> QED
    BY <2>2, <2>3
<1>6. TypeOK'
  BY <1>1, <1>2, <1>5, ShapedTypes DEF Shaped, TypeOK
<1> QED
  BY <1>1, <1>2, <1>5, <1>6 DEF Shaped

LEMMA NopLooksAt ==
  ASSUME Shaped, Nop
  PROVE  /\ at \in DOMAIN ir
         /\ \/ ir[at].code = "nop" /\ ir' = Spliced(ir, at) /\ at' = at
            \/ ir[at].code # "nop" /\ ir' = ir /\ at' = at + 1
<1>1. at \in DOMAIN ir /\ WellFormed(ir)
  BY ShapedTypes DEF Nop, Looking, Shaped
<1>2. ASSUME ir[at].code = "nop"
      PROVE  Has(ir[at].args[1]) /\ IndexOf(ir[at].args[1]) = at - 1
  <2>1. at - 1 \in DOMAIN ir /\ ir[at].args[1] = ir[at - 1].dest
    BY <1>1, <1>2 DEF WellFormed, Adjacent, Copies
  <2> QED
    BY <1>1, <2>1, Found
<1> QED
  BY <1>1, <1>2 DEF Nop, WithoutNop, Spliced

LEMMA NopShaped == ASSUME Shaped, Nop PROVE Shaped'
<1>1. /\ phase = "nop" /\ stack = <<>>
      /\ UNCHANGED <<expr, phase, stack, out, result, reg, cut>>
  BY DEF Nop, Looking
<1>2. WellFormed(ir) /\ at \in 1 .. Len(ir)
  BY NopLooksAt, ShapedTypes DEF Shaped
<1>3. CASE ir[at].code # "nop" /\ ir' = ir /\ at' = at + 1
  <2>1. TypeOK'
    BY <1>1, <1>2, <1>3, ShapedTypes DEF Shaped, TypeOK
  <2> QED
    BY <1>1, <1>3, <2>1 DEF Shaped
<1>4. CASE ir[at].code = "nop" /\ ir' = Spliced(ir, at) /\ at' = at
  <2>1. WellFormed(ir')
    BY <1>2, <1>4, NopLooksAt, SplicedIsWellFormed
  <2>2. /\ at - 1 \in DOMAIN ir /\ ir' \in Seq(Instructions) /\ Len(ir') = Len(ir) - 1
        /\ \A k \in 1 .. Len(ir) - 1 :
             ir'[k] = [ir[Source(at, k)] EXCEPT !.dest = ir[Slot(at, k)].dest]
    BY <1>2, <1>4, NopLooksAt, SplicedCode
  <2>3. Len(ir) - 1 \in 1 .. Len(ir) - 1 /\ Slot(at, Len(ir) - 1) = Len(ir)
    BY <1>2, <2>2, ShapedTypes DEF Slot
  <2>4. ir'[Len(ir')].dest = ir[Len(ir)].dest
    <3>1. Source(at, Len(ir) - 1) \in DOMAIN ir
      BY <1>2, <2>3, ShapedTypes DEF Source
    <3>2. ir[Source(at, Len(ir) - 1)] \in Instructions
      BY <3>1, ShapedTypes, InstructionsTyped
    <3>3. ir'[Len(ir) - 1] = [ir[Source(at, Len(ir) - 1)] EXCEPT !.dest = ir[Len(ir)].dest]
      BY <2>2, <2>3
    <3> QED
      BY <2>2, <3>2, <3>3 DEF Instructions
  <2>5. ir' # <<>>
    BY <2>2, <2>3
  <2>6. TypeOK'
    BY <1>1, <1>2, <1>4, <2>2, <2>3, ShapedTypes DEF Shaped, TypeOK
  <2> QED
    BY <1>1, <1>4, <2>1, <2>4, <2>5, <2>6 DEF Shaped, Before
<1> QED
  BY <1>3, <1>4, NopLooksAt

LEMMA NextPassShaped == ASSUME Shaped, NextPass PROVE Shaped'
<1>1. /\ phase \in {"talk", "empty", "nop"} /\ stack = <<>> /\ at' = 1
      /\ phase' = CASE phase = "talk" -> "empty" [] phase = "empty" -> "nop" [] OTHER -> "solve"
      /\ UNCHANGED <<expr, stack, ir, out, reg, result, cut>>
  BY DEF NextPass, Looked, Proceed
<1>2. phase' \in {"empty", "nop", "solve"}
  BY <1>1
<1>3. TypeOK'
  <2>1. at' \in 1 .. Len(ir') + 1
    BY <1>1, ShapedTypes
  <2>2. stack' = <<>>
    BY <1>1
  <2> QED
    BY <1>1, <1>2, <2>1, <2>2 DEF Shaped, TypeOK, Phases
<1>4. phase' = "solve" => DOMAIN reg' = {ir'[j].dest : j \in 1 .. at' - 1}
  <2>1. DOMAIN reg' = {}
    BY <1>1 DEF Shaped, Before
  <2>2. 1 .. at' - 1 = {}
    BY <1>1
  <2> QED
    BY <2>1, <2>2
<1>5. phase' \in Before => phase \in Before
  BY <1>1 DEF Before
<1>6. phase' \in Before \cup {"nop"} => DOMAIN reg' = {}
  BY <1>1 DEF Shaped, Before
<1> QED
  BY <1>1, <1>2, <1>3, <1>4, <1>5, <1>6 DEF Shaped

-----------------------------------------------------------------------------
(* The solver keeps the invariant.                                         *)

(* It knows every operand.                                                 *)
LEMMA OperandsKnown ==
  ASSUME Shaped, phase = "solve", at <= Len(ir)
  PROVE  at \in DOMAIN ir /\ Known
<1>1. at \in DOMAIN ir
  BY ShapedTypes
<1>2. ASSUME NEW k \in DOMAIN ir[at].args PROVE ir[at].args[k] \in DOMAIN reg
  <2>1. PICK j \in 1 .. at - 1 : ir[j].dest = ir[at].args[k]
    BY <1>1 DEF Shaped, WellFormed, Earlier
  <2> QED
    BY <2>1 DEF Shaped
<1> QED
  BY <1>1, <1>2 DEF Known, Inst

LEMMA EndShaped ==
  ASSUME Shaped, phase = "solve", NEW p \in {"solved", "wrong", "failed"}, Ends(p)
  PROVE  Shaped'
<1>1. TypeOK'
  BY DEF Shaped, TypeOK, Ends, Phases
<1> QED
  BY <1>1 DEF Shaped, Ends, Before

LEMMA PutShaped ==
  ASSUME Shaped, phase = "solve", at <= Len(ir), NEW titles \in SUBSET Titles, Put(titles),
         cut' \in BOOLEAN
  PROVE  Shaped'
<1>1. /\ at' = at + 1 /\ UNCHANGED <<expr, phase, stack, ir, out, result>>
      /\ reg' = [r \in DOMAIN reg \cup {ir[at].dest} |-> IF r = ir[at].dest THEN titles ELSE reg[r]]
  BY DEF Put, Inst
<1>2. at \in DOMAIN ir /\ ir[at].dest \in Nat
  BY OperandsKnown, ShapedTypes, InstructionsTyped
<1>3. DOMAIN reg' = {ir[j].dest : j \in 1 .. at' - 1}
  <2>1. 1 .. at' - 1 = (1 .. at - 1) \cup {at}
    BY <1>1, ShapedTypes
  <2>2. DOMAIN reg = {ir[j].dest : j \in 1 .. at - 1}
    BY DEF Shaped
  <2>3. DOMAIN reg' = DOMAIN reg \cup {ir[at].dest}
    BY <1>1
  <2> QED
    BY <2>1, <2>2, <2>3
<1>4. DOMAIN reg' \subseteq Nat /\ \A r \in DOMAIN reg' : reg'[r] \subseteq Titles
  BY <1>1, <1>2 DEF Shaped, TypeOK
<1>5. TypeOK'
  <2>1. at' \in 1 .. Len(ir') + 1
    BY <1>1, ShapedTypes
  <2> QED
    BY <1>1, <1>4, <2>1 DEF Shaped, TypeOK
<1> QED
  BY <1>1, <1>3, <1>5 DEF Shaped, Before

LEMMA OperandsTyped ==
  ASSUME Shaped, phase = "solve", at <= Len(ir), NEW k \in DOMAIN Inst.args
  PROVE  Operand(k) \subseteq Titles
<1>1. Inst.args[k] \in DOMAIN reg
  BY OperandsKnown DEF Known
<1> QED
  BY <1>1 DEF Operand, Shaped, TypeOK

LEMMA ComputedType ==
  ASSUME Shaped, phase = "solve", at <= Len(ir), ir[at].code \notin Generators
  PROVE  Computed(Inst) \subseteq Titles
<1>1. at \in DOMAIN ir /\ Inst \in Instructions /\ Fits(Inst) /\ Inst = ir[at]
  BY OperandsKnown, ShapedTypes, InstructionsTyped DEF Inst, Shaped, WellFormed
<1>2. Inst.args \in Seq(Nat) /\ Inst.code \in Codes /\ Inst.titles \in SUBSET Titles
  BY <1>1 DEF Instructions
<1>3. CASE Inst.code \in Binaries
  <2>1. Len(Inst.args) = 2
    BY <1>1, <1>3 DEF Fits
  <2>2. 1 \in DOMAIN Inst.args /\ 2 \in DOMAIN Inst.args
    BY <1>2, <2>1
  <2>3. Operand(1) \subseteq Titles /\ Operand(2) \subseteq Titles
    BY <2>2, OperandsTyped
  <2>4. Computed(Inst) = Combined(Inst.code, Operand(1), Operand(2))
    <3>1. Inst.code # "toggle" /\ Inst.code # "nop" /\ Inst.code # "set"
      BY <1>3 DEF Binaries
    <3> QED
      BY <1>3, <3>1, Zenon DEF Computed
  <2> QED
    BY <1>3, <2>3, <2>4 DEF Combined, Binaries
<1>4. CASE Inst.code \in {"toggle", "nop"}
  <2>1. Len(Inst.args) = 1
    BY <1>1, <1>4 DEF Fits, Copies, Unaries
  <2>2. 1 \in DOMAIN Inst.args
    BY <1>2, <2>1
  <2>3. Operand(1) \subseteq Titles
    BY <2>2, OperandsTyped
  <2>4. Inst.code \notin Binaries
    BY <1>4 DEF Binaries
  <2> QED
    BY <1>4, <2>3, <2>4, EverythingHasTalk DEF Computed
<1>5. CASE Inst.code = "set"
  <2>1. Computed(Inst) = {t \in Inst.titles : Passes(t, Inst.cs)}
    BY <1>5 DEF Computed, Binaries
  <2> QED
    BY <1>2, <2>1
<1> QED
  BY <1>1, <1>2, <1>3, <1>4, <1>5, CodesAre

LEMMA SolveShaped == ASSUME Shaped, Solve PROVE Shaped'
<1>1. phase = "solve"
  BY DEF Solve, Compute, Request, GiveUp, RequestFails, Finish, Solving, Looked
<1>2. CASE Compute
  <2>1. at <= Len(ir) /\ ir[at].code \notin Generators /\ Put(Computed(Inst)) /\ cut' = cut
    BY <1>2 DEF Compute, Solving, Inst
  <2>2. cut' \in BOOLEAN
    BY <2>1 DEF Shaped, TypeOK
  <2> QED
    BY <1>1, <2>1, <2>2, ComputedType, PutShaped
<1>3. CASE Request
  <2>1. PICK titles \in SUBSET Listed(Inst.code, Operand(1), Inst.cs) :
          Put(titles) /\ cut' = (cut \/ titles # Listed(Inst.code, Operand(1), Inst.cs))
    BY <1>3 DEF Request
  <2>2. titles \in SUBSET Titles
    BY ListedType
  <2>3. at <= Len(ir) /\ cut' \in BOOLEAN
    BY <1>3, <2>1 DEF Request, Solving
  <2> QED
    BY <1>1, <2>1, <2>2, <2>3, PutShaped
<1>4. CASE GiveUp
  <2>1. at <= Len(ir)
    BY <1>4 DEF GiveUp, Solving
  <2>2. Ends("wrong")
    BY <1>1, <1>4, <2>1, OperandsKnown DEF GiveUp
  <2> QED
    BY <1>1, <2>2, EndShaped
<1>5. CASE RequestFails
  BY <1>1, <1>5, EndShaped DEF RequestFails
<1>6. CASE Finish
  <2>1. at = Len(ir) + 1
    BY <1>1, <1>6, ShapedTypes DEF Finish, Looked, Shaped, TypeOK
  <2>2. Len(ir) \in 1 .. at - 1 /\ ir[Len(ir)].dest = result
    BY <1>1, <2>1, ShapedTypes DEF Shaped
  <2>3. result \in DOMAIN reg
    BY <1>1, <2>2 DEF Shaped
  <2> QED
    BY <1>1, <1>6, <2>3, EndShaped DEF Finish
<1> QED
  BY <1>2, <1>3, <1>4, <1>5, <1>6 DEF Solve

LEMMA NextShaped == ASSUME Shaped, [Next]_vars PROVE Shaped'
<1>1. CASE Convert
  BY <1>1, PageShaped, UnaryShaped, BinaryShaped, ConstrainShaped, HandShaped, ConvertedShaped
     DEF Convert
<1>2. CASE Optimise
  BY <1>2, TalkShaped, EmptyShaped, ClearShaped, NopShaped, NextPassShaped DEF Optimise
<1>3. CASE UNCHANGED vars
  <2>1. TypeOK'
    BY <1>3 DEF vars, Shaped, TypeOK
  <2>2. Converting' <=> Converting
    BY <1>3 DEF vars, Converting, Open, OperandOf
  <2> QED
    BY <1>3, <2>1, <2>2 DEF vars, Shaped
<1> QED
  BY <1>1, <1>2, <1>3, SolveShaped DEF Next

LEMMA AlwaysShaped == Spec => []Shaped
  BY InitShaped, NextShaped, PTL DEF Spec

(* Whatever the query, no loop leaves its nodes and instructions, and      *)
(* registers hold titles.                                                  *)
THEOREM TypeCorrect == Spec => []TypeOK
  BY AlwaysShaped, ShapedImplies, PTL

(* The instructions stay sorted by register through conversion and passes, *)
(* so that bisection finds what is there, and each operand is computed     *)
(* before it is used: the solver never meets a register without a value.   *)
THEOREM OperandsAlwaysDefined == Spec => []OperandsDefined
  BY AlwaysShaped, ShapedImplies, PTL

-----------------------------------------------------------------------------
(* What the passes leave.                                                  *)

Twice == {"toggle", "nop"}

(* The instruction at i copies a toggle.                                   *)
OverToggle(i) ==
  i - 1 \in DOMAIN ir /\ ir[i].code \in Twice /\ ir[i - 1].code = "toggle"

(* The first pass leaves no toggle of a toggle, not even where deleted     *)
(* Nops would bring two together.  The second makes Nops of toggles, but   *)
(* then of the toggles below as well; only one instruction it has passed   *)
(* can have an empty filter, and that one is next to be cleared.           *)
Simplified ==
  /\ phase = "convert" => \A i \in DOMAIN ir : ir[i].code # "nop"
  /\ phase = "talk" => \A i \in DOMAIN ir : IF i < at THEN ~OverToggle(i)
                                                     ELSE ir[i].code # "nop"
  /\ phase = "empty" =>
       /\ \A i \in DOMAIN ir : OverToggle(i) =>
            ir[i].code = "nop" /\ \E k \in DOMAIN stack : stack[k] = ir[i - 1].dest
       /\ \A i \in DOMAIN ir : i < at /\ NsEmpty(ir[i]) => stack # <<>> /\ stack[1] = ir[i].dest
  /\ phase \in {"nop", "solve"} =>
       /\ \A i \in DOMAIN ir : ~OverToggle(i) /\ ~NsEmpty(ir[i])
       /\ \A i \in DOMAIN ir : i < at \/ phase = "solve" => ir[i].code # "nop"

LEMMA SimplifiedImplies == Shaped /\ Simplified => NothingRedundant
<1> SUFFICES ASSUME Shaped, Simplified, phase = "solve", NEW i \in DOMAIN ir
             PROVE  /\ ir[i].code # "nop" /\ ir[i].cs.ns # {}
                    /\ ir[i].code = "toggle" => ir[IndexOf(ir[i].args[1])].code # "toggle"
  BY DEF NothingRedundant
<1>1. ir[i].code # "nop" /\ ~NsEmpty(ir[i]) /\ ~OverToggle(i)
  BY DEF Simplified
<1>2. ASSUME ir[i].code = "toggle" PROVE ir[IndexOf(ir[i].args[1])].code # "toggle"
  <2>1. WellFormed(ir)
    BY DEF Shaped
  <2>2. i - 1 \in DOMAIN ir /\ ir[i].args[1] = ir[i - 1].dest
    BY <1>2, <2>1 DEF WellFormed, Adjacent, Copies, Unaries
  <2>3. IndexOf(ir[i].args[1]) = i - 1
    BY <2>1, <2>2, Found
  <2> QED
    BY <1>1, <1>2, <2>2, <2>3 DEF OverToggle, Twice
<1> QED
  BY <1>1, <1>2 DEF NsEmpty

LEMMA EmitSimplified ==
  ASSUME Shaped, Simplified, phase = "convert", NEW code, code # "nop", NEW args, NEW titles,
         Emit(code, args, titles)
  PROVE  Simplified'
<1>1. phase' = "convert" /\ ir' = Append(ir, Instruction(Len(ir), code, args, titles))
  BY DEF Emit
<1>2. Instruction(Len(ir), code, args, titles).code # "nop"
  BY DEF Instruction
<1>3. \A i \in DOMAIN ir' : ir'[i].code # "nop"
  <2>1. \A i \in DOMAIN ir : ir[i].code # "nop"
    BY DEF Simplified
  <2> QED
    BY <1>1, <1>2, <2>1, ShapedTypes
<1> QED
  BY <1>1, <1>3 DEF Simplified

LEMMA ConvertSimplified == ASSUME Shaped, Simplified, Convert PROVE Simplified'
<1>1. phase = "convert" /\ \A i \in DOMAIN ir : ir[i].code # "nop"
  BY DEF Convert, Page, Unary, Binary, Constrain, Hand, Converted, Visiting, Simplified
<1>2. CASE Page
  BY <1>1, <1>2, EmitSimplified DEF Page
<1>3. CASE Unary
  <2>1. expr[at].op \in Unaries /\ Emit(expr[at].op, <<Len(ir) - 1>>, {})
    BY <1>3, NodesTyped, ShapedTypes DEF Unary, Visiting
  <2> QED
    BY <1>1, <2>1, EmitSimplified DEF Unaries, Generators
<1>4. CASE Binary
  <2> DEFINE args == <<out[expr[at].args[1]], out[expr[at].args[2]]>>
  <2>1. expr[at].op \in Binaries /\ Emit(expr[at].op, args, {})
    BY <1>4, NodesTyped, ShapedTypes DEF Binary, Visiting
  <2> HIDE DEF args
  <2> QED
    BY <1>1, <2>1, EmitSimplified DEF Binaries
<1>5. CASE Constrain
  <2>1. ir' = ir /\ phase' \in {"convert", "rejected"}
    BY <1>1, <1>5 DEF Constrain, Ends
  <2> QED
    BY <1>1, <2>1 DEF Simplified
<1>6. CASE Hand
  <2> DEFINE i == IndexOf(stack[1][1])
             inst == ir[i]
             new == Merge(inst.cs, stack[1][2])
  <2>1. i \in DOMAIN ir
    BY <1>6, HandLooksAt DEF Hand
  <2>2. inst \in Instructions
    BY <2>1, ShapedTypes, InstructionsTyped
  <2>3. /\ phase' \in {"convert", "rejected"}
        /\ ir' \in {ir, [ir EXCEPT ![i].cs = new]}
    BY <1>1, <1>6 DEF Hand, Ends
  <2> HIDE DEF i, new
  <2>4. \A j \in DOMAIN ir' : ir'[j].code # "nop"
    BY <1>1, <2>1, <2>2, <2>3, ShapedTypes DEF Instructions
  <2> QED
    BY <2>3, <2>4 DEF Simplified
<1>7. CASE Converted
  <2>1. phase' = "talk" /\ at' = 1 /\ ir' = ir
    BY <1>7 DEF Converted, Proceed
  <2> QED
    BY <1>1, <2>1, ShapedTypes DEF Simplified
<1> QED
  BY <1>2, <1>3, <1>4, <1>5, <1>6, <1>7 DEF Convert

LEMMA TalkSimplified == ASSUME Shaped, Simplified, Talk PROVE Simplified'
<1>1. /\ phase = "talk" /\ phase' = "talk" /\ at' = at + 1 /\ at \in DOMAIN ir
      /\ \A i \in DOMAIN ir : IF i < at THEN ~OverToggle(i) ELSE ir[i].code # "nop"
  BY TalkLooksAt DEF Talk, Looking, Simplified
<1>2. ir \in Seq(Instructions) /\ DOMAIN ir = 1 .. Len(ir) /\ Len(ir) \in Nat /\ at \in Nat
  BY ShapedTypes
<1>3. DOMAIN ir' = DOMAIN ir
  BY TalkReshapes, <1>2 DEF Reshaped
<1>4. CASE /\ ir' = ir
           /\ ir[at].code = "toggle" => at - 1 \in DOMAIN ir /\ ir[at - 1].code # "toggle"
  <2>1. ASSUME NEW i \in DOMAIN ir', i < at + 1 PROVE ~OverToggle(i)'
    <3>1. i < at \/ i = at
      BY <1>2, <1>4, <2>1
    <3> QED
      BY <1>1, <1>4, <2>1, <3>1 DEF OverToggle, Twice
  <2> QED
    BY <1>1, <1>2, <1>4, <2>1 DEF Simplified
<1>5. CASE /\ at - 1 \in DOMAIN ir /\ ir[at].code = "toggle" /\ ir[at - 1].code = "toggle"
           /\ ir' = [ir EXCEPT ![at] = AsNop(ir[at]), ![at - 1] = AsNop(ir[at - 1])]
  <2>1. \A i \in DOMAIN ir : ir'[i] = IF i \in {at - 1, at} THEN AsNop(ir[i]) ELSE ir[i]
    BY <1>2, <1>5
  <2>2. \A inst : AsNop(inst).code = "nop"
    BY DEF AsNop, Instruction
  <2>3. ASSUME NEW i \in DOMAIN ir', i < at + 1 PROVE ~OverToggle(i)'
    <3>1. SUFFICES ASSUME i - 1 \in DOMAIN ir, ir'[i].code \in Twice, ir'[i - 1].code = "toggle"
                   PROVE  FALSE
      BY <1>3 DEF OverToggle
    <3>2. i - 1 \notin {at - 1, at} /\ ir[i - 1].code = "toggle"
      BY <2>1, <2>2, <3>1
    <3>3. i < at /\ i \in DOMAIN ir
      BY <1>2, <1>3, <2>3, <3>1, <3>2
    <3>4. ir[i].code \in Twice
      BY <1>5, <2>1, <3>1, <3>3 DEF Twice
    <3> QED
      BY <1>1, <3>1, <3>2, <3>3, <3>4 DEF OverToggle
  <2>4. ASSUME NEW i \in DOMAIN ir', ~ (i < at + 1) PROVE ir'[i].code # "nop"
    BY <1>1, <1>2, <1>3, <2>1, <2>4
  <2> QED
    BY <1>1, <2>3, <2>4 DEF Simplified
<1> QED
  BY <1>4, <1>5, TalkLooksAt

Holds(s, x) == \E l \in DOMAIN s : s[l] = x

LEMMA PushedHas ==
  ASSUME NEW S, NEW a \in Seq(S), NEW b \in Seq(S), b # <<>>
  PROVE  /\ \A k \in DOMAIN a : Holds(a \o Tail(b), a[k])
         /\ \A k \in DOMAIN b : k # 1 => Holds(a \o Tail(b), b[k])
<1> DEFINE c == Tail(b)
<1>1. c \in Seq(S) /\ Len(c) = Len(b) - 1 /\ \A k \in 1 .. Len(c) : c[k] = b[k + 1]
  BY HeadTailProperties
<1> HIDE DEF c
<1>2. /\ a \o c \in Seq(S)
      /\ \A k \in 1 .. Len(a) + Len(c) : (a \o c)[k] = IF k <= Len(a) THEN a[k] ELSE c[k - Len(a)]
      /\ Len(a \o c) = Len(a) + Len(c)
  BY <1>1, ConcatProperties
<1>3. ASSUME NEW k \in DOMAIN a PROVE \E l \in DOMAIN (a \o c) : (a \o c)[l] = a[k]
  <2>1. k \in DOMAIN (a \o c) /\ k <= Len(a) /\ k \in 1 .. Len(a) + Len(c)
    BY <1>1, <1>2
  <2> QED
    BY <1>2, <2>1
<1>4. ASSUME NEW k \in DOMAIN b, k # 1 PROVE \E l \in DOMAIN (a \o c) : (a \o c)[l] = b[k]
  <2>1. /\ k - 1 \in 1 .. Len(c) /\ Len(a) + (k - 1) \in DOMAIN (a \o c)
        /\ Len(a) + (k - 1) \in 1 .. Len(a) + Len(c) /\ ~ (Len(a) + (k - 1) <= Len(a))
        /\ Len(a) + (k - 1) - Len(a) = k - 1 /\ (k - 1) + 1 = k
    BY <1>1, <1>2, <1>4
  <2>2. (a \o c)[Len(a) + (k - 1)] = c[k - 1]
    BY <1>2, <2>1
  <2> QED
    BY <1>1, <2>1, <2>2
<1> QED
  BY <1>3, <1>4 DEF c, Holds

LEMMA EmptySimplified == ASSUME Shaped, Simplified, Empty PROVE Simplified'
<1>1. /\ phase = "empty" /\ stack = <<>> /\ at' = at + 1
      /\ UNCHANGED <<phase, ir>>
      /\ stack' = IF NsEmpty(ir[at]) THEN <<ir[at].dest>> ELSE <<>>
  BY DEF Empty, Looking
<1>2. \A i \in DOMAIN ir : ~OverToggle(i)
  BY <1>1 DEF Simplified
<1>3. \A i \in DOMAIN ir : i < at => ~NsEmpty(ir[i])
  BY <1>1 DEF Simplified
<1>4. ASSUME NEW i \in DOMAIN ir, i < at + 1, NsEmpty(ir[i])
      PROVE  stack' # <<>> /\ stack'[1] = ir[i].dest
  <2>1. i = at
    BY <1>3, <1>4, ShapedTypes
  <2> QED
    BY <1>1, <1>4, <2>1
<1> QED
  BY <1>1, <1>2, <1>4 DEF Simplified, OverToggle

LEMMA ClearSimplified == ASSUME Shaped, Simplified, Clear PROVE Simplified'
<1> DEFINE n == stack[1] + 1
           new == Cleared(ir[n])
<1>1. /\ phase = "empty" /\ stack \in Seq(Nat) /\ stack # <<>> /\ n \in DOMAIN ir
      /\ ir[n].dest = stack[1]
      /\ ir' = [ir EXCEPT ![n] = new]
      /\ stack' = ir[n].args \o Tail(stack)
      /\ UNCHANGED <<expr, phase, at, out, result, reg>>
  BY ClearLooksAt
<1>2. /\ WellFormed(ir) /\ Numbered(ir) /\ ir \in Seq(Instructions)
      /\ ir[n] \in Instructions /\ Fits(ir[n]) /\ DOMAIN ir = 1 .. Len(ir) /\ Len(ir) \in Nat
  BY <1>1, ShapedTypes, InstructionsTyped DEF Shaped, Before, WellFormed
<1>3. /\ new.code # "toggle" /\ ~NsEmpty(new) /\ new.dest = ir[n].dest
      /\ new.code = "nop" => ir[n].code \in Copies
  <2>1. None # {}
    BY NoneIsNoValue
  <2> QED
    BY <1>2, <2>1, ClearedType DEF NsEmpty, NoConstraint
<1> HIDE DEF new
<1>4. DOMAIN ir' = DOMAIN ir /\ \A i \in DOMAIN ir : ir'[i] = IF i = n THEN new ELSE ir[i]
  BY <1>1, <1>2
<1>5. \A i \in DOMAIN ir : ir'[i].dest = ir[i].dest
  BY <1>3, <1>4
<1>6. ASSUME NEW i \in DOMAIN ir, i < at, NsEmpty(ir'[i])
      PROVE  FALSE
  <2>1. i # n /\ NsEmpty(ir[i])
    BY <1>3, <1>4, <1>6
  <2>2. stack[1] = ir[i].dest
    BY <1>1, <1>6, <2>1 DEF Simplified
  <2>3. ir[i].dest = i - 1 /\ ir[n].dest = n - 1 /\ i \in Nat /\ n \in Nat
    <3>1. DOMAIN ir \subseteq Nat
      BY <1>2
    <3> HIDE DEF n
    <3> QED
      BY <1>1, <1>2, <3>1 DEF Numbered
  <2>4. ir[i].dest = ir[n].dest
    BY <1>1, <2>2
  <2> HIDE DEF n
  <2> QED
    BY <2>1, <2>3, <2>4
<1>7. ASSUME NEW i \in DOMAIN ir, i - 1 \in DOMAIN ir,
             ir'[i].code \in Twice, ir'[i - 1].code = "toggle"
      PROVE  ir'[i].code = "nop" /\ \E k \in DOMAIN stack' : stack'[k] = ir[i - 1].dest
  <2>1. i - 1 # n /\ ir[i - 1].code = "toggle"
    BY <1>3, <1>4, <1>7
  <2> DEFINE args == ir[n].args
             pushed == args \o Tail(stack)
  <2>2. args \in Seq(Nat)
    BY <1>2 DEF Instructions
  <2>5. /\ \A k \in DOMAIN args : Holds(pushed, args[k])
        /\ \A k \in DOMAIN stack : k # 1 => Holds(pushed, stack[k])
    <3> HIDE DEF args
    <3>1. stack \in Seq(Nat) /\ stack # <<>>
      BY <1>1
    <3> QED
      BY <2>2, <3>1, PushedHas, Zenon
  <2>6. stack' = pushed
    BY <1>1
  <2> HIDE DEF pushed
  <2>3. CASE i = n
    <3>1. ir'[i].code = "nop" /\ ir[n].code \in Copies
      BY <1>3, <1>4, <1>7, <2>3 DEF Twice
    <3>2. ir[n].args[1] = ir[i - 1].dest /\ 1 \in DOMAIN ir[n].args
      <4>1. ir[n].args[1] = ir[n - 1].dest
        BY <1>1, <1>2, <3>1 DEF WellFormed, Adjacent
      <4>2. Len(ir[n].args) = 1
        BY <1>2, <3>1 DEF Fits
      <4> QED
        BY <2>2, <2>3, <4>1, <4>2
    <3>3. \E k \in DOMAIN pushed : pushed[k] = args[1]
      BY <2>5, <3>2 DEF Holds
    <3> QED
      BY <2>6, <3>1, <3>2, <3>3
  <2>4. CASE i # n
    <3>1. OverToggle(i) /\ ir'[i].code = ir[i].code
      BY <1>4, <1>7, <2>1, <2>4 DEF OverToggle
    <3>2. ir[i].code = "nop" /\ \E k \in DOMAIN stack : stack[k] = ir[i - 1].dest
      BY <1>1, <3>1 DEF Simplified
    <3>3. PICK k \in DOMAIN stack : stack[k] = ir[i - 1].dest
      BY <3>2
    <3>4. k # 1
      <4>1. ir[i - 1].dest = i - 2
        BY <1>2, <1>7 DEF Numbered
      <4> QED
        BY <1>1, <1>2, <2>1, <3>3, <4>1
    <3>5. \E l \in DOMAIN pushed : pushed[l] = stack[k]
      BY <2>5, <3>4 DEF Holds
    <3> QED
      BY <2>6, <3>1, <3>2, <3>3, <3>5
  <2> QED
    BY <2>3, <2>4
<1>8. \A i \in DOMAIN ir' : OverToggle(i)' =>
        ir'[i].code = "nop" /\ \E k \in DOMAIN stack' : stack'[k] = ir'[i - 1].dest
  BY <1>4, <1>5, <1>7 DEF OverToggle
<1>9. \A i \in DOMAIN ir' : i < at' => ~NsEmpty(ir'[i])
  BY <1>1, <1>4, <1>6
<1>10. phase' = "empty"
  BY <1>1
<1> QED
  BY <1>8, <1>9, <1>10 DEF Simplified

LEMMA NopSimplified == ASSUME Shaped, Simplified, Nop PROVE Simplified'
<1>1. /\ phase = "nop" /\ phase' = "nop" /\ at \in DOMAIN ir /\ WellFormed(ir)
      /\ ir \in Seq(Instructions) /\ DOMAIN ir = 1 .. Len(ir) /\ Len(ir) \in Nat
      /\ \A i \in DOMAIN ir : ~OverToggle(i) /\ ~NsEmpty(ir[i])
      /\ \A i \in DOMAIN ir : i < at => ir[i].code # "nop"
  BY NopLooksAt, ShapedTypes DEF Nop, Looking, Shaped, Simplified
<1>2. CASE ir[at].code # "nop" /\ ir' = ir /\ at' = at + 1
  <2>1. \A i \in DOMAIN ir : i < at + 1 => ir[i].code # "nop"
    BY <1>1, <1>2
  <2> QED
    BY <1>1, <1>2, <2>1 DEF Simplified, OverToggle
<1>3. CASE ir[at].code = "nop" /\ ir' = Spliced(ir, at) /\ at' = at
  <2>1. /\ at - 1 \in DOMAIN ir /\ ir' \in Seq(Instructions) /\ Len(ir') = Len(ir) - 1
        /\ \A k \in 1 .. Len(ir) - 1 :
             ir'[k] = [ir[Source(at, k)] EXCEPT !.dest = ir[Slot(at, k)].dest]
    <3>1. WellFormed(ir) /\ at \in DOMAIN ir /\ ir[at].code = "nop"
      BY <1>1, <1>3
    <3> QED
      BY <1>3, <3>1, SplicedCode
  <2>2. DOMAIN ir' = 1 .. Len(ir) - 1
    BY <1>1, <2>1
  <2>3. ASSUME NEW k \in DOMAIN ir'
        PROVE  /\ Source(at, k) \in DOMAIN ir
               /\ ir'[k].code = ir[Source(at, k)].code /\ ir'[k].cs = ir[Source(at, k)].cs
    <3>1. Source(at, k) \in DOMAIN ir
      BY <1>1, <2>1, <2>2 DEF Source
    <3>2. ir[Source(at, k)] \in Instructions
      BY <1>1, <3>1, InstructionsTyped
    <3> QED
      BY <2>1, <2>2, <3>1, <3>2 DEF Instructions
  <2>4. ASSUME NEW k \in DOMAIN ir' PROVE ~OverToggle(k)'
    <3>1. SUFFICES ASSUME k - 1 \in DOMAIN ir', ir'[k].code \in Twice, ir'[k - 1].code = "toggle"
                   PROVE  FALSE
      BY DEF OverToggle
    <3>2. ir[Source(at, k)].code \in Twice /\ ir[Source(at, k - 1)].code = "toggle"
      BY <2>3, <3>1
    <3>3. CASE k = at
      <4>1. Source(at, k - 1) = at - 1
        BY <1>1, <3>3 DEF Source
      <4> QED
        BY <1>1, <1>3, <2>1, <3>2, <4>1 DEF OverToggle, Twice
    <3>4. CASE k # at
      <4>1. Source(at, k - 1) = Source(at, k) - 1
        BY <1>1, <2>2, <3>4 DEF Source
      <4> QED
        BY <1>1, <2>3, <3>1, <3>2, <4>1 DEF OverToggle
    <3> QED
      BY <3>3, <3>4
  <2>5. \A k \in DOMAIN ir' : ~NsEmpty(ir'[k])
    BY <1>1, <2>3 DEF NsEmpty
  <2>6. ASSUME NEW k \in DOMAIN ir', k < at PROVE ir'[k].code # "nop"
    <3>1. Source(at, k) = k
      BY <2>6 DEF Source
    <3> QED
      BY <1>1, <2>3, <2>6, <3>1
  <2> QED
    BY <1>1, <1>3, <2>4, <2>5, <2>6 DEF Simplified
<1> QED
  BY <1>2, <1>3, NopLooksAt

LEMMA NextPassSimplified == ASSUME Shaped, Simplified, NextPass PROVE Simplified'
<1>1. /\ stack = <<>> /\ at > Len(ir) /\ ir' = ir /\ stack' = stack /\ at' = 1
      /\ \/ phase = "talk" /\ phase' = "empty"
         \/ phase = "empty" /\ phase' = "nop"
         \/ phase = "nop" /\ phase' = "solve"
  BY DEF NextPass, Looked, Proceed
<1>2. /\ \A i \in DOMAIN ir : i < at /\ ~ (i < 1)
      /\ \A i : OverToggle(i)' <=> OverToggle(i)
  BY <1>1, ShapedTypes DEF OverToggle
<1>3. CASE phase = "talk" /\ phase' = "empty"
  <2>1. \A i \in DOMAIN ir : ~OverToggle(i)
    BY <1>2, <1>3 DEF Simplified
  <2> QED
    BY <1>1, <1>2, <1>3, <2>1 DEF Simplified
<1>4. CASE phase = "empty" /\ phase' = "nop"
  <2>1. \A i \in DOMAIN ir : ~OverToggle(i) /\ ~NsEmpty(ir[i])
    BY <1>1, <1>2, <1>4 DEF Simplified
  <2> QED
    BY <1>1, <1>2, <1>4, <2>1 DEF Simplified
<1>5. CASE phase = "nop" /\ phase' = "solve"
  <2>1. \A i \in DOMAIN ir : ~OverToggle(i) /\ ~NsEmpty(ir[i]) /\ ir[i].code # "nop"
    BY <1>2, <1>5 DEF Simplified
  <2> QED
    BY <1>1, <1>2, <1>5, <2>1 DEF Simplified
<1> QED
  BY <1>1, <1>3, <1>4, <1>5

LEMMA NextSimplified == ASSUME Shaped, Simplified, [Next]_vars PROVE Simplified'
<1>1. CASE Optimise
  BY <1>1, TalkSimplified, EmptySimplified, ClearSimplified, NopSimplified, NextPassSimplified
     DEF Optimise
<1>2. CASE Solve
  <2>1. phase = "solve" /\ ir' = ir /\ phase' \in {"solve", "solved", "unknown", "wrong", "failed"}
    BY <1>2 DEF Solve, Compute, Request, GiveUp, RequestFails, Finish, Solving, Looked, Put, Ends
  <2> QED
    BY <2>1 DEF Simplified, OverToggle
<1>3. CASE UNCHANGED vars
  BY <1>3 DEF vars, Simplified, OverToggle
<1> QED
  BY <1>1, <1>2, <1>3, ConvertSimplified DEF Next

(* The solver is given no Nops, no toggle of a toggle and nothing to ask   *)
(* for whose answer a filter without namespaces makes empty, whatever the  *)
(* order in which the passes meet and make them.                           *)
THEOREM NothingIsRedundant == Spec => []NothingRedundant
<1>1. Init => Simplified
  BY DEF Init, Simplified
<1>2. Shaped /\ Simplified /\ [Next]_vars => Simplified'
  BY NextSimplified
<1> QED
  BY <1>1, <1>2, AlwaysShaped, SimplifiedImplies, PTL DEF Spec

-----------------------------------------------------------------------------
(* How a constraint is handed on.                                          *)

(* The constraint that the operands of an instruction get.                 *)
HandedCon(inst, con) == IF inst.code = "toggle" THEN Toggled(con) ELSE con

LEMMA HandedOnItems ==
  ASSUME NEW inst \in Instructions, Fits(inst), NEW con \in Constraints
  PROVE  /\ \A k \in DOMAIN HandedOn(inst, con) :
              /\ inst.code \notin Leaves
              /\ \E l \in DOMAIN inst.args :
                   HandedOn(inst, con)[k] = <<inst.args[l], HandedCon(inst, con)>>
         /\ inst.code \notin Leaves =>
              \A l \in DOMAIN inst.args :
                Holds(HandedOn(inst, con), <<inst.args[l], HandedCon(inst, con)>>)
<1>1. inst.args \in Seq(Nat) /\ inst.code \in Codes
  BY DEF Instructions
<1>2. CASE inst.code \in Binaries
  <2> DEFINE a == <<inst.args[1], con>>
             b == <<inst.args[2], con>>
  <2>1. Len(inst.args) = 2 /\ DOMAIN inst.args = {1, 2}
    BY <1>1, <1>2 DEF Fits
  <2>2. inst.code # "toggle" /\ inst.code # "nop" /\ inst.code \notin Leaves
    BY <1>2 DEF Binaries, Leaves, Generators
  <2>3. HandedOn(inst, con) = <<a, b>> /\ HandedCon(inst, con) = con
    BY <1>2, <2>2, Zenon DEF HandedOn, HandedCon
  <2>4. a = <<inst.args[1], HandedCon(inst, con)>> /\ b = <<inst.args[2], HandedCon(inst, con)>>
    BY <2>3
  <2> HIDE DEF a, b
  <2>5. DOMAIN <<a, b>> = {1, 2} /\ <<a, b>>[1] = a /\ <<a, b>>[2] = b
    OBVIOUS
  <2> QED
    BY <2>1, <2>2, <2>3, <2>4, <2>5 DEF Holds
<1>3. CASE inst.code \in {"toggle", "nop"}
  <2> DEFINE a == <<inst.args[1], HandedCon(inst, con)>>
  <2>1. Len(inst.args) = 1 /\ DOMAIN inst.args = {1}
    BY <1>1, <1>3 DEF Fits, Copies, Unaries
  <2>2. inst.code \notin Leaves /\ inst.code \notin Binaries
    BY <1>3 DEF Binaries, Leaves, Generators
  <2>3. HandedOn(inst, con) = <<a>>
    BY <1>3, <2>2 DEF HandedOn, HandedCon
  <2> HIDE DEF a
  <2>4. DOMAIN <<a>> = {1} /\ <<a>>[1] = a
    OBVIOUS
  <2> QED
    BY <2>1, <2>2, <2>3, <2>4 DEF Holds, a
<1>4. CASE inst.code \in Leaves
  <2>1. HandedOn(inst, con) = <<>>
    BY <1>4 DEF HandedOn, Leaves, Generators, Binaries
  <2> QED
    BY <1>4, <2>1
<1> QED
  BY <1>1, <1>2, <1>3, <1>4, CodesAre DEF Leaves

LEMMA HandDoes ==
  ASSUME Shaped, Hand, phase' = "convert"
  PROVE  LET r == stack[1][1]
             con == stack[1][2]
             inst == ir[r + 1]
         IN /\ phase = "convert" /\ stack # <<>> /\ stack \in Seq(Nat \X Constraints)
            /\ r \in Nat /\ con \in Constraints /\ r + 1 \in DOMAIN ir
            /\ UNCHANGED <<expr, phase, at, out, result, reg>>
            /\ DOMAIN ir' = DOMAIN ir
            /\ \A j \in DOMAIN ir : j # r + 1 => ir'[j] = ir[j]
            /\ ir'[r + 1] = IF inst.code \in Leaves THEN [inst EXCEPT !.cs = Merge(@, con)]
                                                   ELSE inst
<1> DEFINE r == stack[1][1]
           con == stack[1][2]
           i == r + 1
           inst == ir[i]
           new == [inst EXCEPT !.cs = Merge(@, con)]
<1>1. /\ phase = "convert" /\ stack # <<>>
      /\ stack \in Seq(Nat \X Constraints) /\ r \in Nat /\ con \in Constraints
      /\ Has(r) /\ IndexOf(r) = i /\ i \in DOMAIN ir
  BY HandLooksAt DEF Hand
<1>2. ~Ends("rejected")
  BY DEF Ends
<1>3. /\ ir' = IF inst.code \in Leaves THEN [ir EXCEPT ![i].cs = Merge(@, con)] ELSE ir
      /\ UNCHANGED <<expr, phase, at, out, result, reg>>
  BY <1>1, <1>2 DEF Hand, Leaves
<1>4. ir \in Seq(Instructions)
  BY ShapedTypes
<1> HIDE DEF r, con, i
<1>5. [ir EXCEPT ![i].cs = Merge(@, con)] = [ir EXCEPT ![i] = new]
  BY <1>1, <1>4
<1> HIDE DEF inst, new
<1>6. /\ DOMAIN ir' = DOMAIN ir
      /\ \A j \in DOMAIN ir : j # i => ir'[j] = ir[j]
      /\ ir'[i] = IF inst.code \in Leaves THEN new ELSE inst
  BY <1>1, <1>3, <1>4, <1>5 DEF inst
<1> QED
  BY <1>1, <1>3, <1>6 DEF r, con, i, inst, new

(* What is on the stack then.                                              *)
LEMMA StackAfter ==
  ASSUME Shaped, Hand, phase' = "convert"
  PROVE  LET inst == ir[stack[1][1] + 1]
             con == HandedCon(inst, stack[1][2])
         IN /\ \A k \in DOMAIN stack' :
                 \/ \E l \in DOMAIN stack : stack'[k] = stack[l]
                 \/ /\ inst.code \notin Leaves
                    /\ \E l \in DOMAIN inst.args : stack'[k] = <<inst.args[l], con>>
            /\ \A k \in DOMAIN stack : k # 1 => Holds(stack', stack[k])
            /\ inst.code \notin Leaves =>
                 \A l \in DOMAIN inst.args : Holds(stack', <<inst.args[l], con>>)
<1> DEFINE r == stack[1][1]
           inst == ir[r + 1]
           con == HandedCon(inst, stack[1][2])
           pushed == HandedOn(inst, stack[1][2])
           S == Nat \X Constraints
           T == {x \in S : \/ \E l \in DOMAIN stack : x = stack[l]
                           \/ /\ inst.code \notin Leaves
                              /\ \E l \in DOMAIN inst.args : x = <<inst.args[l], con>>}
<1>1. /\ phase = "convert" /\ stack # <<>> /\ stack \in Seq(S) /\ stack[1][2] \in Constraints
      /\ IndexOf(r) = r + 1 /\ r + 1 \in DOMAIN ir
  BY HandLooksAt DEF Hand
<1>2. inst \in Instructions /\ Fits(inst)
  BY <1>1, ShapedTypes DEF Shaped, WellFormed
<1>3. ~Ends("rejected")
  BY DEF Ends
<1>4. stack' = pushed \o Tail(stack)
  BY <1>1, <1>3 DEF Hand
<1>5. pushed \in Seq(S)
  BY <1>1, <1>2, HandedOnType
<1>6. /\ \A k \in DOMAIN pushed : /\ inst.code \notin Leaves
                                  /\ \E l \in DOMAIN inst.args : pushed[k] = <<inst.args[l], con>>
      /\ inst.code \notin Leaves => \A l \in DOMAIN inst.args : Holds(pushed, <<inst.args[l], con>>)
  BY <1>1, <1>2, HandedOnItems
<1> HIDE DEF r, inst, con, pushed, S
<1>7. \A k \in DOMAIN pushed : pushed[k] \in T
  BY <1>5, <1>6
<1>8. \A k \in DOMAIN stack : stack[k] \in T
  BY <1>1
<1> HIDE DEF T
<1>9. \A k \in DOMAIN (pushed \o Tail(stack)) : (pushed \o Tail(stack))[k] \in T
  BY <1>1, <1>5, <1>7, <1>8, Pushed, Zenon
<1>10. /\ \A k \in DOMAIN pushed : Holds(pushed \o Tail(stack), pushed[k])
       /\ \A k \in DOMAIN stack : k # 1 => Holds(pushed \o Tail(stack), stack[k])
  BY <1>1, <1>5, PushedHas, Zenon
<1>11. \A k \in DOMAIN stack' : stack'[k] \in T
  BY <1>4, <1>9, Zenon
<1>12. \A k \in DOMAIN stack : k # 1 => Holds(stack', stack[k])
  BY <1>4, <1>10
<1>13. inst.code \notin Leaves => \A l \in DOMAIN inst.args : Holds(stack', <<inst.args[l], con>>)
  <2>1. SUFFICES ASSUME inst.code \notin Leaves, NEW l \in DOMAIN inst.args
                 PROVE  Holds(stack', <<inst.args[l], con>>)
    OBVIOUS
  <2>2. PICK k \in DOMAIN pushed : pushed[k] = <<inst.args[l], con>>
    BY <1>6, <2>1 DEF Holds
  <2> QED
    BY <1>4, <1>10, <2>2
<1> QED
  BY <1>11, <1>12, <1>13 DEF T, r, inst, con

-----------------------------------------------------------------------------
(* Which constraints the instructions have.                                *)

LeafNode(node) == node.kind = "page" \/ Asks(node)
CodeOf(node) == IF node.kind = "page" THEN "set" ELSE node.op

(* All lists that apply to node c apply to node n, and keep the same of    *)
(* both.                                                                   *)
Shares(e, n, c) ==
  /\ Applying(e)[c] \subseteq Applying(e)[n]
  /\ \A j \in Applying(e)[c] : KeptBy(e)[c][j] = KeptBy(e)[n][j]

(* Each node but a list of constraints has an instruction of its own, and  *)
(* each instruction such a node, computed from the same operands.  A list  *)
(* of constraints shares the register of what it stands behind, to which   *)
(* all the lists apply that apply to it.                                   *)
Linked(last) ==
  /\ \A n \in 1 .. last : expr[n].kind # "constrained" =>
       /\ ir[out[n] + 1].code = CodeOf(expr[n])
       /\ expr[n].kind = "page" => ir[out[n] + 1].titles = expr[n].titles
       /\ DOMAIN ir[out[n] + 1].args = DOMAIN expr[n].args
       /\ \A k \in DOMAIN expr[n].args : ir[out[n] + 1].args[k] = out[expr[n].args[k]]
  /\ \A i \in DOMAIN ir : \E n \in 1 .. last : expr[n].kind # "constrained" /\ out[n] = i - 1
  /\ \A n \in 1 .. last : expr[n].kind = "constrained" => out[n] = out[n - 1]
  /\ \A n, c \in 1 .. last : expr[n].kind # "constrained" /\ out[n] = out[c] =>
       Shares(expr, n, c) /\ (expr[c].kind # "constrained" => n = c)

(* Constraint con is that of the list at node j but for which namespaces   *)
(* it filters by.                                                          *)
IsOf(e, con, j) ==
  /\ \A f \in Agreeing \cup {"limit"} : con[f] = ConstraintAt(e, j)[f]
  /\ ConstraintAt(e, j).ns = None => con.ns = None

(* What is on the stack comes from the last list and is on its way to      *)
(* something that the list applies to.                                     *)
Handing ==
  stack # <<>> =>
    /\ at > 1 /\ expr[at - 1].kind = "constrained"
    /\ \A k \in DOMAIN stack :
         /\ IsOf(expr, stack[k][2], at - 1)
         /\ \A n \in 1 .. at - 1 :
              expr[n].kind # "constrained" /\ out[n] = stack[k][1] =>
                /\ at - 1 \in Applying(expr)[n]
                /\ Keeps(stack[k][2]) = KeptBy(expr)[n][at - 1]

Stacked(s, r) == \E k \in DOMAIN s : s[k][1] = r

(* The last list was handed to the registers R and from there on.          *)
Reached(R) ==
  /\ at > 1 /\ expr[at - 1].kind = "constrained" => out[at - 1] \in R \/ Stacked(stack, out[at - 1])
  /\ \A i \in DOMAIN ir : i - 1 \in R /\ ir[i].code \notin Leaves =>
       \A k \in DOMAIN ir[i].args : ir[i].args[k] \in R \/ Stacked(stack, ir[i].args[k])

(* The lists that apply to node n and have reached it.                     *)
Handed(R, n) == {j \in Applying(expr)[n] : j < at /\ (j = at - 1 => out[n] \in R)}

(* What the lists at the nodes js give of kind f.                          *)
Given(e, f, js) == {ConstraintAt(e, j)[f] : j \in js} \ {None}

(* Constraint con of node n is merged from the lists at the nodes js.      *)
Carries(e, n, con, js) ==
  /\ \A f \in Agreeing : IF Given(e, f, js) = {} THEN con[f] = None ELSE con[f] \in Given(e, f, js)
  /\ Strictest(con.limit, UNION {LimitsIn(e[j].list) : j \in js})
  /\ Keeps(con) = Kept(e, n, js)
  /\ (\A j \in js : ConstraintAt(e, j).ns = None) => con.ns = None

Carrying(R) ==
  \A n \in 1 .. at - 1 : LeafNode(expr[n]) => Carries(expr, n, ir[out[n] + 1].cs, Handed(R, n))

(* After the conversion each request and page has merged all lists that    *)
(* apply to it.                                                            *)
Complete ==
  \A n \in DOMAIN expr : LeafNode(expr[n]) => Carries(expr, n, ir[out[n] + 1].cs, Applying(expr)[n])

Merging ==
  /\ phase = "convert" => Linked(at - 1) /\ Handing /\ \E R \in SUBSET Nat : Reached(R) /\ Carrying(R)
  /\ phase = "talk" /\ at = 1 =>
       /\ Len(out) = Len(expr) /\ \A n \in DOMAIN expr : out[n] < Len(ir)
       /\ result = out[Len(expr)] /\ Linked(Len(expr))
       /\ Complete

LEMMA ListsTyped ==
  ASSUME IsExpression(expr), NEW j \in DOMAIN expr, expr[j].kind = "constrained"
  PROVE  /\ ConstraintAt(expr, j) \in Constraints
         /\ LimitsIn(expr[j].list) \in SUBSET Int
         /\ Strictest(ConstraintAt(expr, j).limit, LimitsIn(expr[j].list))
<1>1. expr[j].list \in Seq(Elements)
  BY NodesTyped
<1> QED
  BY <1>1, FromListType, ListStrictest DEF ConstraintAt

(* Merging one more list.                                                  *)
LEMMA CarriesMerged ==
  ASSUME IsExpression(expr), NEW cs \in Constraints, NEW con \in Constraints,
         NEW js \in SUBSET {n \in DOMAIN expr : expr[n].kind = "constrained"},
         NEW j \in DOMAIN expr, expr[j].kind = "constrained", NEW n,
         Carries(expr, n, cs, js), IsOf(expr, con, j), Keeps(con) = KeptBy(expr)[n][j]
  PROVE  Carries(expr, n, Merge(cs, con), js \cup {j})
<1> DEFINE Limits(ns) == UNION {LimitsIn(expr[m].list) : m \in ns}
<1>1. ASSUME NEW f \in Agreeing
      PROVE  IF Given(expr, f, js \cup {j}) = {} THEN Merge(cs, con)[f] = None
             ELSE Merge(cs, con)[f] \in Given(expr, f, js \cup {j})
  <2>1. Merge(cs, con)[f] = IF cs[f] = None THEN con[f] ELSE cs[f]
    BY DEF Merge, Agreeing
  <2>2. con[f] = ConstraintAt(expr, j)[f]
    BY DEF IsOf
  <2>3. Given(expr, f, js \cup {j}) = Given(expr, f, js) \cup ({con[f]} \ {None})
    BY <2>2 DEF Given
  <2>4. IF Given(expr, f, js) = {} THEN cs[f] = None ELSE cs[f] \in Given(expr, f, js)
    BY DEF Carries
  <2>5. None \notin Given(expr, f, js)
    BY Zenon DEF Given
  <2> QED
    BY <2>1, <2>3, <2>4, <2>5
<1>2. Strictest(Merge(cs, con).limit, Limits(js \cup {j}))
  <2>1. Merge(cs, con).limit = MergeLimit(cs.limit, con.limit)
    BY DEF Merge
  <2>2. con.limit = ConstraintAt(expr, j).limit
    BY DEF IsOf
  <2>3. Strictest(con.limit, LimitsIn(expr[j].list)) /\ LimitsIn(expr[j].list) \in SUBSET Int
    BY <2>2, ListsTyped
  <2>4. Limits(js) \in SUBSET Int
    BY ListsTyped
  <2>5. Strictest(cs.limit, Limits(js))
    BY DEF Carries
  <2>6. Limits(js \cup {j}) = Limits(js) \cup LimitsIn(expr[j].list)
    OBVIOUS
  <2>7. cs.limit \in {None} \cup Int /\ con.limit \in {None} \cup Int
    BY DEF Constraints
  <2> HIDE DEF Limits
  <2>8. Strictest(MergeLimit(cs.limit, con.limit), Limits(js) \cup LimitsIn(expr[j].list))
    BY <2>3, <2>4, <2>5, <2>7, StrictestMerged
  <2> QED
    BY <2>1, <2>6, <2>8
<1>3. Keeps(Merge(cs, con)) = Kept(expr, n, js \cup {j})
  <2>1. Keeps(Merge(cs, con)) = Keeps(cs) \cap Keeps(con)
    <3>1. \A t \in Titles : Passes(t, Merge(cs, con)) <=> Passes(t, cs) /\ Passes(t, con)
      BY FiltersConjoin
    <3> QED
      BY <3>1 DEF Keeps
  <2>2. Keeps(cs) = Kept(expr, n, js)
    BY DEF Carries
  <2>3. Kept(expr, n, js) \cap KeptBy(expr)[n][j] = Kept(expr, n, js \cup {j})
    BY DEF Kept
  <2> QED
    BY <2>1, <2>2, <2>3
<1>4. (\A m \in js \cup {j} : ConstraintAt(expr, m).ns = None) => Merge(cs, con).ns = None
  <2>1. Merge(cs, con).ns = MergeNs(cs.ns, con.ns)
    BY DEF Merge
  <2> QED
    BY <2>1 DEF Carries, IsOf, MergeNs
<1> QED
  BY <1>1, <1>2, <1>3, <1>4 DEF Carries

LEMMA NothingCarried ==
  ASSUME NEW js, js = {}, NEW n
  PROVE  Carries(expr, n, NoConstraint, js)
<1>1. \A f \in Agreeing : Given(expr, f, js) = {} /\ NoConstraint[f] = None
  BY DEF Given, Agreeing, NoConstraint
<1>2. UNION {LimitsIn(expr[j].list) : j \in js} = {}
  OBVIOUS
<1>3. Keeps(NoConstraint) = Kept(expr, n, js)
  BY DEF Keeps, Kept, Passes, NoConstraint
<1> QED
  BY <1>1, <1>2, <1>3 DEF Carries, Strictest, NoConstraint

LEMMA ConvertingTypes ==
  ASSUME Shaped, phase = "convert"
  PROVE  /\ Converting /\ WellFormed(ir) /\ Numbered(ir)
         /\ Len(out) = at - 1 /\ at - 1 \in Nat /\ at - 1 <= Len(expr)
         /\ \A n \in 1 .. at - 1 : /\ n \in DOMAIN expr
                                   /\ out[n] \in Nat /\ out[n] < Len(ir)
                                   /\ out[n] + 1 \in DOMAIN ir
<1>1. Converting /\ WellFormed(ir) /\ Numbered(ir)
  BY DEF Shaped, Before
<1>2. Len(out) = at - 1 /\ at - 1 \in Nat /\ at - 1 <= Len(expr)
  <2>1. at \in 1 .. Len(expr) + 1
    BY DEF Shaped, TypeOK
  <2> QED
    BY <1>1, <2>1, ShapedTypes DEF Converting
<1>3. ASSUME NEW n \in 1 .. at - 1
      PROVE  n \in DOMAIN expr /\ out[n] \in Nat /\ out[n] < Len(ir) /\ out[n] + 1 \in DOMAIN ir
  <2>1. out[n] \in Nat /\ out[n] < Len(ir)
    BY <1>1, <1>2, ShapedTypes DEF Converting
  <2> QED
    BY <1>2, <2>1, ShapedTypes
<1> QED
  BY <1>1, <1>2, <1>3

(* When the stack is empty the last list has reached everything it applies *)
(* to.                                                                     *)
LEMMA AllReached ==
  ASSUME Shaped, phase = "convert", stack = <<>>, Linked(at - 1), NEW R, Reached(R)
  PROVE  \A n \in 1 .. at - 1 : at - 1 \in Applying(expr)[n] => out[n] \in R
<1> DEFINE last == at - 1
           app == Applying(expr)
           S == {n \in 1 .. last : last \in app[n] => out[n] \in R}
<1>0. /\ last \in Nat /\ IsExpression(expr) /\ 1 .. last \subseteq DOMAIN expr
      /\ DOMAIN expr = 1 .. Len(expr) /\ Len(expr) \in Nat
  BY ShapedTypes, ConvertingTypes
<1>1. \A r : ~Stacked(stack, r)
  BY DEF Stacked
<1>2. ASSUME NEW i \in 1 .. last, \A m \in i + 1 .. last : m \in S
      PROVE  i \in S
  <2>1. SUFFICES ASSUME last \in app[i] PROVE out[i] \in R
    OBVIOUS
  <2>2. i \in DOMAIN expr /\ last \in DOMAIN expr /\ i < last /\ expr[last].kind = "constrained"
    BY <1>0, <2>1, ApplyingIs
  <2>3. i # Len(expr)
    BY <1>0, <2>2
  <2>4. PICK p \in DOMAIN expr : OperandOf(expr, i, p)
    BY <1>0, <2>2, <2>3 DEF IsExpression
  <2>5. PICK k \in DOMAIN expr[p].args : expr[p].args[k] = i
    BY <2>4 DEF OperandOf
  <2>6. i < p
    BY <1>0, <2>5, OperandsOfNodes
  <2>7. app[i] = Inherited(expr, app, p)
    BY <1>0, <2>2, <2>4, ApplyingIs
  <2>8. ~Asks(expr[p]) /\ (last \in app[p] \/ (last = p /\ expr[p].kind = "constrained"))
    BY <2>1, <2>7 DEF Inherited
  <2>9. p \in i + 1 .. last /\ p \in 1 .. last
    <3>1. p <= last
      BY <1>0, <2>8, ApplyingIs
    <3> QED
      BY <1>0, <2>6, <3>1
  <2>10. out[p] \in R
    <3>1. CASE last \in app[p]
      <4>1. p \in S
        BY <1>2, <2>9
      <4> QED
        BY <3>1, <4>1
    <3>2. CASE last = p
      <4>1. at > 1 /\ expr[at - 1].kind = "constrained"
        BY <1>0, <2>2, ShapedTypes
      <4>2. out[at - 1] \in R \/ Stacked(stack, out[at - 1])
        BY <4>1 DEF Reached
      <4> QED
        BY <1>1, <3>2, <4>2
    <3> QED
      BY <2>8, <3>1, <3>2
  <2>11. CASE expr[p].kind = "constrained"
    <3>1. expr[p].args = <<p - 1>>
      BY <1>0, <2>11, NodesTyped
    <3>2. i = p - 1
      BY <2>5, <3>1
    <3>3. out[p] = out[p - 1]
      BY <2>9, <2>11 DEF Linked
    <3> QED
      BY <2>10, <3>2, <3>3
  <2>12. CASE expr[p].kind # "constrained"
    <3>1. /\ ir[out[p] + 1].code = CodeOf(expr[p]) /\ k \in DOMAIN ir[out[p] + 1].args
          /\ ir[out[p] + 1].args[k] = out[i]
      BY <2>5, <2>9, <2>12 DEF Linked
    <3>2. CodeOf(expr[p]) \notin Leaves
      <4>1. expr[p].kind # "page"
        BY <1>0, <2>5, OperandsOfNodes
      <4>2. expr[p].op \in Unaries \cup Binaries /\ (expr[p].kind = "unary" => expr[p].op \notin Generators)
        BY <1>0, <2>8, <2>12, <4>1, NodesTyped DEF Asks
      <4>3. expr[p].kind # "unary" => expr[p].op \in Binaries
        BY <1>0, <2>12, <4>1, NodesTyped
      <4> QED
        <5>1. CodeOf(expr[p]) = expr[p].op
          BY <4>1 DEF CodeOf
        <5>2. expr[p].op \in Unaries \ Generators \/ expr[p].op \in Binaries
          BY <4>2, <4>3
        <5> QED
          BY <5>1, <5>2 DEF Leaves, Generators, Binaries, Unaries
    <3>3. out[p] \in Nat /\ out[p] + 1 \in DOMAIN ir /\ (out[p] + 1) - 1 = out[p]
      BY <2>9, ConvertingTypes
    <3> QED
      BY <1>1, <2>10, <3>1, <3>2, <3>3 DEF Reached
  <2> QED
    BY <2>11, <2>12
<1>3. \A n \in 1 .. last : n \in S
  <2> HIDE DEF S
  <2> QED
    BY <1>0, <1>2, InductionDown
<1> QED
  BY <1>3

LEMMA CodeOfLeaf ==
  ASSUME IsExpression(expr), NEW n \in DOMAIN expr, expr[n].kind # "constrained"
  PROVE  CodeOf(expr[n]) \in Leaves <=> LeafNode(expr[n])
<1>1. CASE expr[n].kind = "page"
  BY <1>1 DEF CodeOf, LeafNode, Leaves
<1>2. CASE expr[n].kind = "unary"
  <2>1. expr[n].op \in Unaries
    BY <1>2, NodesTyped
  <2> QED
    BY <1>2, <2>1 DEF CodeOf, LeafNode, Leaves, Asks, Unaries, Generators
<1>3. CASE expr[n].kind = "binary"
  <2>1. expr[n].op \in Binaries
    BY <1>3, NodesTyped
  <2> QED
    BY <1>3, <2>1 DEF CodeOf, LeafNode, Leaves, Asks, Binaries, Generators
<1> QED
  BY <1>1, <1>2, <1>3, NodesTyped

(* What visiting a node that is no list of constraints emits.              *)
LEMMA Emitted ==
  ASSUME Shaped, Page \/ Unary \/ Binary
  PROVE  /\ phase = "convert" /\ stack = <<>> /\ at <= Len(expr) /\ at \in DOMAIN expr
         /\ expr[at].kind # "constrained"
         /\ \E args \in Seq(Nat), titles \in SUBSET Titles :
              /\ DOMAIN args = DOMAIN expr[at].args
              /\ \A k \in DOMAIN args : args[k] = out[expr[at].args[k]]
              /\ expr[at].kind = "page" => titles = expr[at].titles
              /\ Emit(CodeOf(expr[at]), args, titles)
<1>1. /\ phase = "convert" /\ stack = <<>> /\ at <= Len(expr) /\ at \in DOMAIN expr
      /\ IsExpression(expr)
  BY ShapedTypes DEF Page, Unary, Binary, Visiting
<1>2. CASE Page
  <2>1. expr[at].kind = "page" /\ Emit("set", <<>>, expr[at].titles)
    BY <1>2 DEF Page, Visiting
  <2>2. expr[at].titles \in SUBSET Titles /\ expr[at].args = <<>>
    BY <1>1, <2>1, NodesTyped
  <2>3. CodeOf(expr[at]) = "set"
    BY <2>1 DEF CodeOf
  <2>4. /\ <<>> \in Seq(Nat) /\ DOMAIN <<>> = DOMAIN expr[at].args
        /\ \A k \in DOMAIN <<>> : <<>>[k] = out[expr[at].args[k]]
    BY <2>2
  <2> QED
    BY <1>1, <2>1, <2>2, <2>3, <2>4, Zenon
<1>3. CASE Unary
  <2> DEFINE args == <<Len(ir) - 1>>
  <2>1. expr[at].kind = "unary" /\ Emit(expr[at].op, args, {})
    BY <1>3 DEF Unary, Visiting
  <2>2. expr[at].args = <<at - 1>> /\ at - 1 \in DOMAIN expr
    BY <1>1, <2>1, NodesTyped
  <2>3. at > 1 /\ DOMAIN expr[at].args = {1} /\ expr[at].args[1] = at - 1
    BY <1>1, <2>2, ShapedTypes
  <2>4. out[at - 1] = Len(ir) - 1 /\ Len(ir) - 1 \in Nat
    BY <1>1, <2>3, OperandsAreOpen DEF Shaped, Converting
  <2>5. args \in Seq(Nat) /\ DOMAIN args = {1} /\ args[1] = Len(ir) - 1
    BY <2>4
  <2>6. CodeOf(expr[at]) = expr[at].op
    BY <2>1 DEF CodeOf
  <2> HIDE DEF args
  <2>7. DOMAIN args = DOMAIN expr[at].args /\ \A k \in DOMAIN args : args[k] = out[expr[at].args[k]]
    BY <2>3, <2>4, <2>5
  <2>8. {} \in SUBSET Titles /\ expr[at].kind # "constrained" /\ expr[at].kind # "page"
    BY <2>1
  <2>9. Emit(CodeOf(expr[at]), args, {})
    BY <2>1, <2>6
  <2> QED
    BY <1>1, <2>5, <2>7, <2>8, <2>9, Zenon
<1>4. CASE Binary
  <2> DEFINE a == out[expr[at].args[1]]
             b == out[expr[at].args[2]]
             args == <<a, b>>
  <2>1. expr[at].kind = "binary" /\ Emit(expr[at].op, args, {})
    BY <1>4 DEF Binary, Visiting
  <2>2. Len(expr[at].args) = 2 /\ expr[at].args \in Seq(Nat)
    BY <1>1, <2>1, OperandsOfNodes
  <2>3. DOMAIN expr[at].args = {1, 2}
    BY <2>2
  <2>4. a \in Nat /\ b \in Nat
    BY <1>1, <2>3, OperandsAreOpen
  <2> HIDE DEF a, b
  <2>5. args \in Seq(Nat) /\ DOMAIN args = {1, 2} /\ args[1] = a /\ args[2] = b
    BY <2>4
  <2>6. CodeOf(expr[at]) = expr[at].op
    BY <2>1 DEF CodeOf
  <2> HIDE DEF args
  <2>7. DOMAIN args = DOMAIN expr[at].args /\ \A k \in DOMAIN args : args[k] = out[expr[at].args[k]]
    BY <2>3, <2>5 DEF a, b
  <2>8. {} \in SUBSET Titles /\ expr[at].kind # "constrained" /\ expr[at].kind # "page"
    BY <2>1
  <2>9. Emit(CodeOf(expr[at]), args, {})
    BY <2>1, <2>6
  <2> QED
    BY <1>1, <2>5, <2>7, <2>8, <2>9, Zenon
<1> QED
  BY <1>2, <1>3, <1>4

LEMMA EmitDoes ==
  ASSUME Shaped, phase = "convert", stack = <<>>, at \in DOMAIN expr,
         NEW code, NEW args, NEW titles, Emit(code, args, titles)
  PROVE  /\ UNCHANGED <<expr, phase, stack, result, reg>> /\ at' = at + 1
         /\ Len(ir) \in Nat /\ DOMAIN ir' = 1 .. Len(ir) + 1
         /\ ir'[Len(ir) + 1] = Instruction(Len(ir), code, args, titles)
         /\ \A i \in DOMAIN ir : ir'[i] = ir[i]
         /\ out'[at] = Len(ir)
         /\ \A n \in 1 .. at - 1 : out'[n] = out[n]
<1>1. /\ ir' = Append(ir, Instruction(Len(ir), code, args, titles)) /\ out' = Append(out, Len(ir))
      /\ at' = at + 1 /\ UNCHANGED <<expr, phase, stack, result, reg>>
  BY DEF Emit
<1>2. ir \in Seq(Instructions) /\ Len(ir) \in Nat /\ out \in Seq(Nat) /\ Len(out) = at - 1 /\ at \in Nat
  BY ShapedTypes, ConvertingTypes
<1> DEFINE inst == Instruction(Len(ir), code, args, titles)
<1> HIDE DEF inst
<1>3. /\ DOMAIN ir' = 1 .. Len(ir) + 1 /\ ir'[Len(ir) + 1] = inst
      /\ \A i \in DOMAIN ir : ir'[i] = ir[i]
  BY <1>1, <1>2 DEF inst
<1>4. out'[at] = Len(ir) /\ \A n \in 1 .. at - 1 : out'[n] = out[n]
  BY <1>1, <1>2
<1> QED
  BY <1>1, <1>2, <1>3, <1>4 DEF inst

LEMMA EmitMerging ==
  ASSUME Shaped, Merging, phase = "convert", stack = <<>>, at \in DOMAIN expr,
         expr[at].kind # "constrained",
         NEW args, NEW titles, DOMAIN args = DOMAIN expr[at].args,
         \A k \in DOMAIN args : args[k] = out[expr[at].args[k]],
         expr[at].kind = "page" => titles = expr[at].titles,
         Emit(CodeOf(expr[at]), args, titles)
  PROVE  Merging'
<1> DEFINE n1 == Len(ir)
           app == Applying(expr)
<1>0. /\ IsExpression(expr) /\ DOMAIN expr = 1 .. Len(expr) /\ Len(expr) \in Nat
      /\ at \in Nat /\ at > 0 /\ DOMAIN ir = 1 .. n1 /\ n1 \in Nat
  BY ShapedTypes
<1>1. /\ UNCHANGED <<expr, phase, stack>> /\ at' = at + 1 /\ DOMAIN ir' = 1 .. n1 + 1
      /\ \A i \in DOMAIN ir : ir'[i] = ir[i]
      /\ out'[at] = n1
      /\ \A n \in 1 .. at - 1 : out'[n] = out[n]
  BY EmitDoes
<1>2. /\ ir'[n1 + 1].code = CodeOf(expr[at]) /\ ir'[n1 + 1].args = args
      /\ ir'[n1 + 1].cs = NoConstraint
      /\ expr[at].kind = "page" => ir'[n1 + 1].titles = expr[at].titles
  <2>1. ir'[n1 + 1] = Instruction(n1, CodeOf(expr[at]), args, titles)
    BY EmitDoes
  <2> QED
    BY <2>1 DEF Instruction
<1>3. \A n \in 1 .. at - 1 : out[n] \in Nat /\ out[n] < n1 /\ out[n] + 1 \in DOMAIN ir
  BY ConvertingTypes
<1>4. Linked(at - 1) /\ Handing /\ \E R \in SUBSET Nat : Reached(R) /\ Carrying(R)
  BY DEF Merging
<1>5. \A n \in 1 .. at : \A k \in DOMAIN expr[n].args : expr[n].args[k] \in 1 .. at - 1
  BY <1>0, OperandsOfNodes
<1> HIDE DEF n1, app
<1>6. \A n \in 1 .. at : n = at \/ n \in 1 .. at - 1
  BY <1>0
<1>7. Linked(at - 1)'
  <2>1. ASSUME NEW n \in 1 .. at, expr[n].kind # "constrained"
        PROVE  /\ ir'[out'[n] + 1].code = CodeOf(expr[n])
               /\ expr[n].kind = "page" => ir'[out'[n] + 1].titles = expr[n].titles
               /\ DOMAIN ir'[out'[n] + 1].args = DOMAIN expr[n].args
               /\ \A k \in DOMAIN expr[n].args : ir'[out'[n] + 1].args[k] = out'[expr[n].args[k]]
    <3>1. CASE n = at
      BY <1>1, <1>2, <1>5, <3>1
    <3>2. CASE n \in 1 .. at - 1
      <4>1. out'[n] = out[n] /\ ir'[out[n] + 1] = ir[out[n] + 1]
        BY <1>1, <1>3, <3>2
      <4>2. /\ ir[out[n] + 1].code = CodeOf(expr[n])
            /\ expr[n].kind = "page" => ir[out[n] + 1].titles = expr[n].titles
            /\ DOMAIN ir[out[n] + 1].args = DOMAIN expr[n].args
            /\ \A k \in DOMAIN expr[n].args : ir[out[n] + 1].args[k] = out[expr[n].args[k]]
        BY <1>4, <2>1, <3>2 DEF Linked
      <4> QED
        BY <1>1, <1>5, <4>1, <4>2
    <3> QED
      BY <1>6, <3>1, <3>2
  <2>2. ASSUME NEW i \in 1 .. n1 + 1
        PROVE  \E n \in 1 .. at : expr[n].kind # "constrained" /\ out'[n] = i - 1
    <3>1. CASE i = n1 + 1
      <4>1. at \in 1 .. at /\ out'[at] = i - 1
        BY <1>0, <1>1, <3>1
      <4> QED
        BY <4>1
    <3>2. CASE i # n1 + 1
      <4>1. i \in DOMAIN ir
        BY <1>0, <3>2
      <4>2. PICK n \in 1 .. at - 1 : expr[n].kind # "constrained" /\ out[n] = i - 1
        BY <1>4, <4>1 DEF Linked
      <4>3. n \in 1 .. at /\ out'[n] = i - 1
        BY <1>0, <1>1, <4>2
      <4> QED
        BY <4>2, <4>3
    <3> QED
      BY <3>1, <3>2
  <2>3. ASSUME NEW n \in 1 .. at, expr[n].kind = "constrained" PROVE out'[n] = out'[n - 1]
    <3>1. n \in 1 .. at - 1
      BY <1>6, <2>3
    <3>2. n - 1 \in 1 .. at - 1
      <4>1. n - 1 \in DOMAIN expr
        BY <1>0, <2>3, NodesTyped
      <4> QED
        BY <1>0, <3>1, <4>1
    <3>3. out[n] = out[n - 1]
      BY <1>4, <2>3, <3>1 DEF Linked
    <3> QED
      BY <1>1, <3>1, <3>2, <3>3
  <2>4. ASSUME NEW n \in 1 .. at, NEW c \in 1 .. at, expr[n].kind # "constrained", out'[n] = out'[c]
        PROVE  Shares(expr, n, c) /\ (expr[c].kind # "constrained" => n = c)
    <3>1. CASE n = at \/ c = at
      <4>1. n = c
        BY <1>1, <1>3, <1>6, <2>4, <3>1
      <4> QED
        BY <4>1 DEF Shares
    <3>2. CASE n \in 1 .. at - 1 /\ c \in 1 .. at - 1
      BY <1>1, <1>4, <2>4, <3>2 DEF Linked
    <3> QED
      BY <1>6, <3>1, <3>2
  <2>5. at' - 1 = at
    BY <1>0, <1>1
  <2> QED
    BY <1>1, <2>1, <2>2, <2>3, <2>4, <2>5 DEF Linked
<1>8. Handing'
  BY <1>1 DEF Handing
<1>9. Reached({})'
  <2>1. at' - 1 = at /\ expr'[at' - 1].kind # "constrained"
    BY <1>0, <1>1
  <2> QED
    BY <2>1 DEF Reached
<1>10. Carrying({})'
  <2>1. SUFFICES ASSUME NEW n \in 1 .. at, LeafNode(expr[n])
                 PROVE  Carries(expr, n, ir'[out'[n] + 1].cs,
                                {j \in app[n] : j < at + 1 /\ (j = at => out'[n] \in {})})
    <3>1. at' - 1 = at /\ at' = at + 1 /\ expr' = expr
      BY <1>0, <1>1
    <3> QED
      BY <3>1, ZenonT(40) DEF Carrying, Handed, app
  <2>2. \A j \in app[n] : j \in DOMAIN expr /\ n < j /\ expr[j].kind = "constrained"
    BY <1>0, ApplyingIs DEF app
  <2>3. CASE n = at
    <3>1. {j \in app[n] : j < at + 1 /\ (j = at => out'[n] \in {})} = {}
      BY <1>0, <2>2, <2>3
    <3>2. ir'[out'[n] + 1].cs = NoConstraint
      BY <1>1, <1>2, <2>3
    <3> QED
      BY <3>1, <3>2, NothingCarried
  <2>4. CASE n \in 1 .. at - 1
    <3>1. PICK R \in SUBSET Nat : Reached(R) /\ Carrying(R)
      BY <1>4
    <3>2. Carries(expr, n, ir[out[n] + 1].cs, Handed(R, n))
      BY <2>1, <2>4, <3>1 DEF Carrying
    <3>3. at - 1 \in app[n] => out[n] \in R
      BY <1>4, <2>4, <3>1, AllReached DEF app
    <3>4. Handed(R, n) = {j \in app[n] : j < at + 1 /\ (j = at => out'[n] \in {})}
      <4>1. \A j \in app[n] : (j < at /\ (j = at - 1 => out[n] \in R)) <=> j < at
        BY <3>3
      <4>2. \A j \in app[n] : (j < at + 1 /\ (j = at => out'[n] \in {})) <=> j < at
        BY <1>0, <2>2
      <4> QED
        BY <4>1, <4>2 DEF Handed, app
    <3>5. ir'[out'[n] + 1].cs = ir[out[n] + 1].cs
      BY <1>1, <1>3, <2>4
    <3> QED
      BY <3>2, <3>4, <3>5
  <2> QED
    BY <1>6, <2>3, <2>4
<1>11. {} \in SUBSET Nat
  OBVIOUS
<1>12. phase' = "convert"
  BY <1>1
<1> QED
  BY <1>7, <1>8, <1>9, <1>10, <1>11, <1>12 DEF Merging

(* With the stack empty each request and page has merged all lists so far. *)
LEMMA AllCarried ==
  ASSUME Shaped, Merging, phase = "convert", stack = <<>>,
         NEW n \in 1 .. at - 1, LeafNode(expr[n])
  PROVE  Carries(expr, n, ir[out[n] + 1].cs, {j \in Applying(expr)[n] : j < at})
<1>1. PICK R \in SUBSET Nat : Reached(R) /\ Carrying(R)
  BY DEF Merging
<1>2. Carries(expr, n, ir[out[n] + 1].cs, Handed(R, n))
  BY <1>1 DEF Carrying
<1>3. at - 1 \in Applying(expr)[n] => out[n] \in R
  BY <1>1, AllReached DEF Merging
<1>4. Handed(R, n) = {j \in Applying(expr)[n] : j < at}
  BY <1>3 DEF Handed
<1> QED
  BY <1>2, <1>4

LEMMA ConstrainDoes ==
  ASSUME Shaped, Constrain, phase' = "convert"
  PROVE  /\ stack = <<>> /\ at <= Len(expr) /\ at \in DOMAIN expr /\ expr[at].kind = "constrained"
         /\ Consistent(expr[at].list)
         /\ at - 1 \in 1 .. at - 1 /\ OperandOf(expr, at - 1, at)
         /\ UNCHANGED <<expr, phase, ir, result, reg>> /\ at' = at + 1
         /\ stack' = <<<<out[at - 1], ConstraintAt(expr, at)>>>>
         /\ out'[at] = out[at - 1]
         /\ \A n \in 1 .. at - 1 : out'[n] = out[n]
<1>1. /\ phase = "convert" /\ stack = <<>> /\ at <= Len(expr) /\ at \in DOMAIN expr
      /\ expr[at].kind = "constrained"
  BY ShapedTypes DEF Constrain, Visiting
<1>2. ~Ends("rejected")
  BY DEF Ends
<1>3. /\ Consistent(expr[at].list)
      /\ stack' = <<<<Len(ir) - 1, ConstraintAt(expr, at)>>>> /\ out' = Append(out, Len(ir) - 1)
      /\ at' = at + 1 /\ UNCHANGED <<expr, phase, ir, result, reg>>
  BY <1>2 DEF Constrain, ConstraintAt
<1>4. expr[at].args = <<at - 1>> /\ at - 1 \in DOMAIN expr
  BY <1>1, ShapedTypes, NodesTyped
<1>5. at - 1 \in 1 .. at - 1 /\ 1 \in DOMAIN expr[at].args /\ expr[at].args[1] = at - 1 /\ at > 1
  BY <1>4, ShapedTypes
<1>6. out[at - 1] = Len(ir) - 1 /\ Len(ir) - 1 \in Nat
  BY <1>1, <1>5, OperandsAreOpen DEF Shaped, Converting
<1>7. out'[at] = Len(ir) - 1 /\ \A n \in 1 .. at - 1 : out'[n] = out[n]
  <2>1. out \in Seq(Nat) /\ Len(out) = at - 1 /\ at \in Nat
    BY <1>1, ShapedTypes, ConvertingTypes
  <2> QED
    BY <1>3, <1>6, <2>1
<1>8. OperandOf(expr, at - 1, at)
  BY <1>5 DEF OperandOf
<1> QED
  BY <1>1, <1>3, <1>5, <1>6, <1>7, <1>8

LEMMA ConstrainMerging ==
  ASSUME Shaped, Merging, Constrain, phase' = "convert"
  PROVE  Merging'
<1> DEFINE app == Applying(expr)
           kept == KeptBy(expr)
<1>0. /\ IsExpression(expr) /\ DOMAIN expr = 1 .. Len(expr) /\ Len(expr) \in Nat
      /\ at \in Nat /\ at > 0
  BY ShapedTypes
<1>1. /\ stack = <<>> /\ at \in DOMAIN expr /\ expr[at].kind = "constrained"
      /\ at - 1 \in 1 .. at - 1 /\ OperandOf(expr, at - 1, at)
      /\ UNCHANGED <<expr, phase, ir>> /\ at' = at + 1 /\ phase = "convert"
      /\ stack' = <<<<out[at - 1], ConstraintAt(expr, at)>>>>
      /\ out'[at] = out[at - 1]
      /\ \A n \in 1 .. at - 1 : out'[n] = out[n]
  BY ConstrainDoes
<1>2. Linked(at - 1)
  BY <1>1 DEF Merging
<1>3. at' - 1 = at /\ \A n \in 1 .. at : n = at \/ n \in 1 .. at - 1
  BY <1>0, <1>1
<1>4. /\ app[at - 1] = app[at] \cup {at} /\ at \notin app[at]
      /\ kept[at - 1][at] = Keeps(ConstraintAt(expr, at))
      /\ \A j \in app[at] : kept[at - 1][j] = kept[at][j]
  <2>1. at - 1 \in DOMAIN expr
    BY <1>0, <1>1
  <2>2. app[at - 1] = Inherited(expr, app, at)
    BY <1>0, <1>1, <2>1, ApplyingIs
  <2>3. \A j \in app[at] : j \in DOMAIN expr /\ at < j
    BY <1>0, <1>1, ApplyingIs
  <2>4. kept[at - 1] = Behind(expr, kept, at)
    BY <1>0, <1>1, <2>1, KeptByIs
  <2> HIDE DEF app, kept
  <2>5. at \notin app[at] /\ app[at - 1] = app[at] \cup {at}
    BY <1>0, <1>1, <2>2, <2>3 DEF Inherited, Asks
  <2>6. \A j \in DOMAIN expr : kept[at - 1][j] = IF j = at THEN Keeps(ConstraintAt(expr, j))
                                                       ELSE kept[at][j]
    BY <1>1, <2>4 DEF Behind
  <2> QED
    BY <1>1, <2>3, <2>5, <2>6
<1> HIDE DEF app, kept
<1>5. ASSUME NEW n \in 1 .. at - 1, expr[n].kind # "constrained", out[n] = out[at - 1]
      PROVE  /\ at \in app[n] /\ Shares(expr, n, at)
             /\ kept[n][at] = Keeps(ConstraintAt(expr, at))
  <2>1. Shares(expr, n, at - 1)
    BY <1>1, <1>2, <1>5 DEF Linked
  <2>2. app[at - 1] \subseteq app[n] /\ \A j \in app[at - 1] : kept[at - 1][j] = kept[n][j]
    BY <2>1 DEF Shares, app, kept
  <2>3. at \in app[n] /\ app[at] \subseteq app[n] /\ kept[n][at] = Keeps(ConstraintAt(expr, at))
    BY <1>4, <2>2
  <2>4. \A j \in app[at] : kept[at][j] = kept[n][j]
    BY <1>4, <2>2
  <2> QED
    BY <2>3, <2>4 DEF Shares, app, kept
<1>6. \A n \in 1 .. at - 1 : \A k \in DOMAIN expr[n].args : expr[n].args[k] \in 1 .. at - 1
  BY <1>0, <1>1, OperandsOfNodes
<1>7. Linked(at - 1)'
  <2>1. ASSUME NEW n \in 1 .. at, expr[n].kind # "constrained"
        PROVE  /\ ir[out'[n] + 1].code = CodeOf(expr[n])
               /\ expr[n].kind = "page" => ir[out'[n] + 1].titles = expr[n].titles
               /\ DOMAIN ir[out'[n] + 1].args = DOMAIN expr[n].args
               /\ \A k \in DOMAIN expr[n].args : ir[out'[n] + 1].args[k] = out'[expr[n].args[k]]
    <3>1. n \in 1 .. at - 1
      BY <1>1, <1>3, <2>1
    <3>2. /\ ir[out[n] + 1].code = CodeOf(expr[n])
          /\ expr[n].kind = "page" => ir[out[n] + 1].titles = expr[n].titles
          /\ DOMAIN ir[out[n] + 1].args = DOMAIN expr[n].args
          /\ \A k \in DOMAIN expr[n].args : ir[out[n] + 1].args[k] = out[expr[n].args[k]]
      BY <1>2, <2>1, <3>1 DEF Linked
    <3> QED
      BY <1>1, <1>6, <3>1, <3>2
  <2>2. ASSUME NEW i \in DOMAIN ir
        PROVE  \E n \in 1 .. at : expr[n].kind # "constrained" /\ out'[n] = i - 1
    <3>1. PICK n \in 1 .. at - 1 : expr[n].kind # "constrained" /\ out[n] = i - 1
      BY <1>2 DEF Linked
    <3>2. n \in 1 .. at /\ out'[n] = i - 1
      BY <1>0, <1>1, <3>1
    <3> QED
      BY <3>1, <3>2
  <2>3. ASSUME NEW n \in 1 .. at, expr[n].kind = "constrained" PROVE out'[n] = out'[n - 1]
    <3>1. CASE n = at
      BY <1>1, <3>1
    <3>2. CASE n \in 1 .. at - 1
      <4>1. n - 1 \in 1 .. at - 1
        <5>1. n \in DOMAIN expr
          BY <1>0, <1>1, <3>2
        <5>2. n - 1 \in DOMAIN expr
          BY <1>0, <2>3, <5>1, NodesTyped
        <5> QED
          BY <1>0, <3>2, <5>2
      <4>2. out[n] = out[n - 1]
        BY <1>2, <2>3, <3>2 DEF Linked
      <4> QED
        BY <1>1, <3>2, <4>1, <4>2
    <3> QED
      BY <1>3, <3>1, <3>2
  <2>4. ASSUME NEW n \in 1 .. at, NEW c \in 1 .. at, expr[n].kind # "constrained", out'[n] = out'[c]
        PROVE  Shares(expr, n, c) /\ (expr[c].kind # "constrained" => n = c)
    <3>1. n \in 1 .. at - 1 /\ out'[n] = out[n]
      BY <1>1, <1>3, <2>4
    <3>2. CASE c = at
      BY <1>1, <1>5, <2>4, <3>1, <3>2
    <3>3. CASE c \in 1 .. at - 1
      BY <1>1, <1>2, <2>4, <3>1, <3>3, ZenonT(40) DEF Linked
    <3> QED
      BY <1>3, <3>2, <3>3
  <2> QED
    BY <1>1, <1>3, <2>1, <2>2, <2>3, <2>4 DEF Linked
<1>8. Handing'
  <2>1. DOMAIN stack' = {1} /\ stack'[1][1] = out[at - 1] /\ stack'[1][2] = ConstraintAt(expr, at)
    BY <1>1
  <2>2. IsOf(expr, ConstraintAt(expr, at), at)
    BY DEF IsOf
  <2>3. ASSUME NEW n \in 1 .. at, expr[n].kind # "constrained", out'[n] = out[at - 1]
        PROVE  at \in app[n] /\ Keeps(ConstraintAt(expr, at)) = kept[n][at]
    BY <1>1, <1>3, <1>5, <2>3
  <2>4. at' > 1
    BY <1>0, <1>1
  <2> QED
    BY <1>1, <1>3, <2>1, <2>2, <2>3, <2>4 DEF Handing, app, kept
<1>9. Reached({})'
  <2>1. Stacked(stack', out'[at])
    BY <1>1 DEF Stacked
  <2>2. at' - 1 = at
    BY <1>3
  <2> QED
    BY <2>1, <2>2 DEF Reached
<1>10. Carrying({})'
  <2>1. SUFFICES ASSUME NEW n \in 1 .. at, LeafNode(expr[n])
                 PROVE  Carries(expr, n, ir[out'[n] + 1].cs,
                                {j \in app[n] : j < at + 1 /\ (j = at => out'[n] \in {})})
    <3>1. at' - 1 = at /\ at' = at + 1 /\ expr' = expr /\ ir' = ir
      BY <1>1, <1>3
    <3> QED
      BY <3>1 DEF Carrying, Handed, app
  <2>2. n \in 1 .. at - 1
    BY <1>1, <1>3, <2>1 DEF LeafNode, Asks
  <2>3. Carries(expr, n, ir[out[n] + 1].cs, {j \in app[n] : j < at})
    BY <1>1, <2>1, <2>2, AllCarried DEF app
  <2>4. \A j \in app[n] : j \in DOMAIN expr
    <3>1. n \in DOMAIN expr
      BY <1>0, <1>1, <2>2
    <3> QED
      BY <1>0, <3>1, ApplyingIs DEF app
  <2>5. {j \in app[n] : j < at + 1 /\ (j = at => out'[n] \in {})} = {j \in app[n] : j < at}
    BY <1>0, <2>4
  <2> QED
    BY <1>1, <2>2, <2>3, <2>5
<1>11. {} \in SUBSET Nat
  OBVIOUS
<1> QED
  BY <1>1, <1>7, <1>8, <1>9, <1>10, <1>11 DEF Merging

(* Toggling the filter.                                                    *)
LEMMA TalkTwice ==
  /\ \A n \in Int : TalkOf(n) \in Int /\ TalkOf(TalkOf(n)) = n
  /\ \A t \in Titles : TalkPage(t) \in Titles /\ TalkPage(t).ns = TalkOf(t.ns) /\ TalkPage(TalkPage(t)) = t
<1>1. ASSUME NEW n \in Int PROVE TalkOf(n) \in Int /\ TalkOf(TalkOf(n)) = n
  <2>1. CASE n % 2 = 0
    <3>1. TalkOf(n) = n + 1 /\ (n + 1) % 2 = 1 /\ (n + 1) - 1 = n
      BY <2>1 DEF TalkOf
    <3> QED
      BY <3>1 DEF TalkOf
  <2>2. CASE n % 2 # 0
    <3>1. TalkOf(n) = n - 1 /\ (n - 1) % 2 = 0 /\ (n - 1) + 1 = n
      BY <2>2 DEF TalkOf
    <3> QED
      BY <3>1 DEF TalkOf
  <2> QED
    BY <2>1, <2>2
<1>2. ASSUME NEW t \in Titles
      PROVE  /\ TalkPage(t) \in Titles /\ TalkPage(t).ns = TalkOf(t.ns)
             /\ TalkPage(TalkPage(t)) = t
  <2>1. t = [ns |-> t.ns, name |-> t.name] /\ t.ns \in Int
    BY TitlesAreRecords
  <2>2. PICK x, y : t = [ns |-> x, name |-> y] /\ x \in Int
    BY <2>1
  <2>3. TalkPage(t) = [ns |-> TalkOf(x), name |-> y]
    BY <2>2 DEF TalkPage
  <2>4. TalkPage([ns |-> TalkOf(x), name |-> y]) = [ns |-> TalkOf(TalkOf(x)), name |-> y]
    BY DEF TalkPage
  <2> QED
    BY <1>1, <2>2, <2>3, <2>4, EverythingHasTalk
<1> QED
  BY <1>1, <1>2

LEMMA KeepsToggled ==
  ASSUME NEW con \in Constraints
  PROVE  Keeps(Toggled(con)) = {t \in Titles : TalkPage(t) \in Keeps(con)}
<1>1. ASSUME NEW t \in Titles PROVE Passes(t, Toggled(con)) <=> Passes(TalkPage(t), con)
  <2>1. t.ns \in Int /\ TalkPage(t).ns = TalkOf(t.ns)
    BY TalkTwice, TitlesAreRecords
  <2>2. CASE con.ns = None
    BY <2>2 DEF Toggled, Passes
  <2>3. CASE con.ns # None
    <3>1. con.ns \in SUBSET Namespaces
      BY <2>3 DEF Constraints
    <3>2. Toggled(con).ns = {TalkOf(n) : n \in con.ns}
      BY <2>3 DEF Toggled, Constraints
    <3>3. \A n \in con.ns : n \in Int
      BY <3>1, NamespacesAreNumbers
    <3>4. t.ns \in {TalkOf(n) : n \in con.ns} <=> TalkOf(t.ns) \in con.ns
      BY <2>1, <3>3, TalkTwice
    <3>5. Toggled(con).ns # None
      <4>1. Toggled(con) \in Constraints
        BY ToggledType
      <4>2. Toggled(con).ns \in SUBSET Namespaces
        BY <3>1, <3>2, EverythingHasTalk
      <4> QED
        BY <4>2, NoneIsNoValue
    <3> QED
      BY <2>1, <2>3, <3>2, <3>4, <3>5 DEF Passes
  <2> QED
    BY <2>2, <2>3
<1> QED
  BY <1>1, TalkTwice DEF Keeps

LEMMA ToggleNode ==
  ASSUME IsExpression(expr), NEW n \in DOMAIN expr, expr[n].kind # "constrained",
         CodeOf(expr[n]) \notin Leaves
  PROVE  expr[n].kind = "unary" <=> CodeOf(expr[n]) = "toggle"
<1>1. expr[n].kind # "page"
  BY DEF CodeOf, Leaves
<1>2. CASE expr[n].kind = "unary"
  <2>1. expr[n].op \in Unaries /\ CodeOf(expr[n]) = expr[n].op
    BY <1>2, NodesTyped DEF CodeOf
  <2> QED
    BY <1>2, <2>1 DEF Leaves, Unaries
<1>3. CASE expr[n].kind = "binary"
  <2>1. expr[n].op \in Binaries /\ CodeOf(expr[n]) = expr[n].op
    BY <1>3, NodesTyped DEF CodeOf
  <2> QED
    BY <1>3, <2>1 DEF Binaries
<1> QED
  BY <1>1, <1>2, <1>3, NodesTyped

LEMMA HandMerging ==
  ASSUME Shaped, Merging, Hand, phase' = "convert"
  PROVE  Merging'
<1> DEFINE app == Applying(expr)
           kept == KeptBy(expr)
           r == stack[1][1]
           con == stack[1][2]
           inst == ir[r + 1]
           handed == HandedCon(inst, con)
           last == at - 1
<1>0. /\ IsExpression(expr) /\ DOMAIN expr = 1 .. Len(expr) /\ Len(expr) \in Nat
      /\ at \in Nat /\ at > 0 /\ last \in Nat /\ ir \in Seq(Instructions)
  BY ShapedTypes
<1>1. /\ phase = "convert" /\ stack # <<>> /\ stack \in Seq(Nat \X Constraints)
      /\ r \in Nat /\ con \in Constraints /\ r + 1 \in DOMAIN ir
      /\ UNCHANGED <<expr, phase, at, out>>
      /\ DOMAIN ir' = DOMAIN ir
      /\ \A j \in DOMAIN ir : j # r + 1 => ir'[j] = ir[j]
      /\ ir'[r + 1] = IF inst.code \in Leaves THEN [inst EXCEPT !.cs = Merge(@, con)] ELSE inst
  BY HandDoes
<1>2. /\ \A k \in DOMAIN stack' :
           \/ \E l \in DOMAIN stack : stack'[k] = stack[l]
           \/ /\ inst.code \notin Leaves
              /\ \E l \in DOMAIN inst.args : stack'[k] = <<inst.args[l], handed>>
      /\ \A k \in DOMAIN stack : k # 1 => Holds(stack', stack[k])
      /\ inst.code \notin Leaves => \A l \in DOMAIN inst.args : Holds(stack', <<inst.args[l], handed>>)
  BY StackAfter
<1>3. Linked(at - 1) /\ Handing
  BY <1>1 DEF Merging
<1>4. PICK R \in SUBSET Nat : Reached(R) /\ Carrying(R)
  BY <1>1 DEF Merging
<1>5. 1 \in DOMAIN stack
  BY <1>1
<1>6. inst \in Instructions
  BY <1>0, <1>1
<1>7. \A i \in DOMAIN ir :
        ir'[i].code = ir[i].code /\ ir'[i].args = ir[i].args /\ ir'[i].titles = ir[i].titles
  <2>1. /\ ir'[r + 1].code = inst.code /\ ir'[r + 1].args = inst.args
        /\ ir'[r + 1].titles = inst.titles
    BY <1>1, <1>6 DEF Instructions
  <2> QED
    BY <1>1, <2>1
<1>8. \A n \in 1 .. last : n \in DOMAIN expr /\ out[n] + 1 \in DOMAIN ir /\ out[n] \in Nat
  BY <1>1, ConvertingTypes
<1>9. /\ last > 0 /\ last \in 1 .. last /\ last \in DOMAIN expr /\ expr[last].kind = "constrained"
      /\ IsOf(expr, con, last)
      /\ \A n \in 1 .. last : expr[n].kind # "constrained" /\ out[n] = r =>
           last \in app[n] /\ Keeps(con) = kept[n][last]
  <2>1. /\ at > 1 /\ expr[last].kind = "constrained" /\ IsOf(expr, con, last)
        /\ \A n \in 1 .. last : expr[n].kind # "constrained" /\ out[n] = r =>
           last \in app[n] /\ Keeps(con) = kept[n][last]
    BY <1>1, <1>3, <1>5 DEF Handing
  <2> QED
    BY <1>0, <1>8, <2>1
<1> HIDE DEF app, kept, r, con, inst, handed, last
<1>10. Linked(at - 1)'
  <2>1. last' = last
    BY <1>1 DEF last
  <2>2. ASSUME NEW n \in 1 .. last, expr[n].kind # "constrained"
        PROVE  /\ ir'[out[n] + 1].code = CodeOf(expr[n])
               /\ expr[n].kind = "page" => ir'[out[n] + 1].titles = expr[n].titles
               /\ DOMAIN ir'[out[n] + 1].args = DOMAIN expr[n].args
               /\ \A k \in DOMAIN expr[n].args : ir'[out[n] + 1].args[k] = out[expr[n].args[k]]
    <3>1. /\ ir[out[n] + 1].code = CodeOf(expr[n])
          /\ expr[n].kind = "page" => ir[out[n] + 1].titles = expr[n].titles
          /\ DOMAIN ir[out[n] + 1].args = DOMAIN expr[n].args
          /\ \A k \in DOMAIN expr[n].args : ir[out[n] + 1].args[k] = out[expr[n].args[k]]
      BY <1>3, <2>2 DEF Linked, last
    <3> QED
      BY <1>7, <1>8, <3>1
  <2> QED
    BY <1>1, <1>3, <2>1, <2>2 DEF Linked, last
<1>11. handed.depth = con.depth /\ IsOf(expr, handed, last)
  <2>1. \A f \in Agreeing \cup {"limit"} : handed[f] = con[f]
    BY <1>1 DEF handed, HandedCon, Toggled, Constraints, Agreeing
  <2>2. con.ns = None => handed.ns = None
    BY DEF handed, HandedCon, Toggled
  <2> QED
    BY <1>9, <2>1, <2>2 DEF IsOf, Agreeing
<1>12. ASSUME inst.code \notin Leaves, NEW l \in DOMAIN inst.args,
              NEW n \in 1 .. last, expr[n].kind # "constrained", out[n] = inst.args[l]
       PROVE  last \in app[n] /\ Keeps(handed) = kept[n][last]
  <2>1. PICK m \in 1 .. last : expr[m].kind # "constrained" /\ out[m] = (r + 1) - 1
    BY <1>1, <1>3 DEF Linked, last
  <2>2. out[m] = r /\ m \in DOMAIN expr
    BY <1>1, <1>8, <2>1
  <2>3. last \in app[m] /\ Keeps(con) = kept[m][last]
    BY <1>9, <2>1, <2>2
  <2>4. /\ inst.code = CodeOf(expr[m]) /\ DOMAIN inst.args = DOMAIN expr[m].args
        /\ \A k \in DOMAIN expr[m].args : inst.args[k] = out[expr[m].args[k]]
    BY <1>3, <2>1, <2>2 DEF Linked, last, inst
  <2> DEFINE c == expr[m].args[l]
  <2>5. c \in DOMAIN expr /\ c < m /\ OperandOf(expr, c, m) /\ inst.args[l] = out[c]
    BY <1>0, <1>12, <2>2, <2>4, OperandsOfNodes DEF OperandOf
  <2> HIDE DEF c
  <2>6. c \in 1 .. last
    BY <1>0, <2>1, <2>5
  <2>7. ~Asks(expr[m])
    BY <1>0, <1>12, <2>1, <2>2, <2>4, CodeOfLeaf DEF LeafNode
  <2>8. app[c] = Inherited(expr, app, m)
    BY <1>0, <2>2, <2>5, ApplyingIs DEF app
  <2>9. last \in app[c]
    BY <2>3, <2>7, <2>8 DEF Inherited
  <2>10. app[c] \subseteq app[n] /\ kept[c][last] = kept[n][last]
    <3>1. Shares(expr, n, c)
      BY <1>3, <1>12, <2>5, <2>6 DEF Linked, last
    <3> QED
      BY <2>9, <3>1 DEF Shares, app, kept
  <2>11. kept[c] = Behind(expr, kept, m)
    BY <1>0, <2>2, <2>5, KeptByIs DEF kept
  <2>12. kept[c][last] = IF expr[m].kind = "unary"
                         THEN {t \in Titles : TalkPage(t) \in kept[m][last]} ELSE kept[m][last]
    BY <1>9, <2>1, <2>11 DEF Behind
  <2>13. expr[m].kind = "unary" <=> inst.code = "toggle"
    BY <1>0, <1>12, <2>1, <2>2, <2>4, ToggleNode
  <2>14. Keeps(handed) = IF inst.code = "toggle" THEN {t \in Titles : TalkPage(t) \in Keeps(con)}
                                                 ELSE Keeps(con)
    BY <1>1, KeepsToggled DEF handed, HandedCon
  <2> QED
    BY <2>3, <2>9, <2>10, <2>12, <2>13, <2>14
<1>13. Handing'
  <2>1. ASSUME NEW k \in DOMAIN stack'
        PROVE  /\ IsOf(expr, stack'[k][2], last)
               /\ \A n \in 1 .. last :
                    expr[n].kind # "constrained" /\ out[n] = stack'[k][1] =>
                      last \in app[n] /\ Keeps(stack'[k][2]) = kept[n][last]
    <3>1. CASE \E l \in DOMAIN stack : stack'[k] = stack[l]
      BY <1>1, <1>3, <3>1 DEF Handing, app, kept, last
    <3>2. CASE /\ inst.code \notin Leaves
               /\ \E l \in DOMAIN inst.args : stack'[k] = <<inst.args[l], handed>>
      <4>1. PICK l \in DOMAIN inst.args : stack'[k] = <<inst.args[l], handed>>
        BY <3>2
      <4>2. stack'[k][1] = inst.args[l] /\ stack'[k][2] = handed
        BY <4>1
      <4> QED
        BY <1>11, <1>12, <3>2, <4>2
    <3> QED
      BY <1>2, <3>1, <3>2
  <2>2. last' = last /\ app' = app /\ kept' = kept /\ at > 1
    BY <1>0, <1>1, <1>9 DEF last, app, kept
  <2> QED
    BY <1>1, <1>9, <2>1, <2>2 DEF Handing, last, app, kept
<1>14. PICK Q : Q = R \cup {r}
  OBVIOUS
<1>15. \A x : Stacked(stack, x) => x \in Q \/ Stacked(stack', x)
  <2>1. SUFFICES ASSUME NEW k \in DOMAIN stack
                 PROVE  stack[k][1] \in Q \/ Stacked(stack', stack[k][1])
    BY DEF Stacked
  <2>2. CASE k = 1
    BY <1>14, <2>2 DEF r
  <2>3. CASE k # 1
    <3>1. PICK l \in DOMAIN stack' : stack'[l] = stack[k]
      BY <1>2, <2>3 DEF Holds
    <3> QED
      BY <3>1 DEF Stacked
  <2> QED
    BY <2>2, <2>3
<1>16. R \subseteq Q /\ r \in Q /\ (\A x \in Q : x \in R \/ x = r) /\ Q \in SUBSET Nat
  BY <1>1, <1>14
<1>17. Reached(Q)'
  <2>1. out[last] \in Q \/ Stacked(stack', out[last])
    <3>1. out[last] \in R \/ Stacked(stack, out[last])
      BY <1>0, <1>4, <1>9 DEF Reached, last
    <3> QED
      BY <1>15, <1>16, <3>1
  <2>2. ASSUME NEW i \in DOMAIN ir, i - 1 \in Q, ir[i].code \notin Leaves, NEW k \in DOMAIN ir[i].args
        PROVE  ir[i].args[k] \in Q \/ Stacked(stack', ir[i].args[k])
    <3>1. CASE i - 1 \in R
      <4>1. ir[i].args[k] \in R \/ Stacked(stack, ir[i].args[k])
        BY <1>4, <2>2, <3>1 DEF Reached
      <4> QED
        BY <1>15, <1>16, <4>1
    <3>2. CASE i - 1 = r
      <4>1. i = r + 1
        BY <1>0, <1>1, <3>2
      <4>2. Holds(stack', <<ir[i].args[k], handed>>)
        BY <1>2, <2>2, <4>1 DEF inst
      <4>3. PICK l \in DOMAIN stack' : stack'[l] = <<ir[i].args[k], handed>>
        BY <4>2 DEF Holds
      <4>4. stack'[l][1] = ir[i].args[k]
        BY <4>3
      <4> QED
        BY <4>4 DEF Stacked
    <3> QED
      BY <1>16, <2>2, <3>1, <3>2
  <2>3. last' = last
    BY <1>1 DEF last
  <2> QED
    BY <1>1, <1>7, <2>1, <2>2, <2>3 DEF Reached, last
<1>18. Carrying(Q)'
  <2>1. SUFFICES ASSUME NEW n \in 1 .. last, LeafNode(expr[n])
                 PROVE  Carries(expr, n, ir'[out[n] + 1].cs, Handed(Q, n))
    <3>1. last' = last /\ \A n : Handed(Q, n)' = Handed(Q, n)
      BY <1>1 DEF last, Handed
    <3> QED
      BY <1>1, <3>1 DEF Carrying, last
  <2>2. Carries(expr, n, ir[out[n] + 1].cs, Handed(R, n))
    BY <1>4, <2>1 DEF Carrying, last
  <2>3. CASE out[n] # r
    <3>1. ir'[out[n] + 1] = ir[out[n] + 1]
      BY <1>1, <1>8, <2>3
    <3>2. Handed(Q, n) = Handed(R, n)
      BY <1>16, <2>3 DEF Handed
    <3> QED
      BY <2>2, <3>1, <3>2
  <2>4. CASE out[n] = r
    <3>1. expr[n].kind # "constrained"
      BY <2>1 DEF LeafNode, Asks
    <3>2. inst.code \in Leaves
      <4>1. inst.code = CodeOf(expr[n])
        BY <1>3, <2>4, <3>1 DEF Linked, last, inst
      <4> QED
        BY <1>0, <1>8, <2>1, <3>1, <4>1, CodeOfLeaf
    <3>3. ir'[out[n] + 1].cs = Merge(inst.cs, con)
      BY <1>1, <1>6, <2>4, <3>2 DEF Instructions
    <3>4. last \in app[n] /\ Keeps(con) = KeptBy(expr)[n][last]
      BY <1>9, <2>4, <3>1 DEF kept
    <3>5. Handed(Q, n) = Handed(R, n) \cup {last}
      BY <1>0, <1>16, <2>4, <3>4 DEF Handed, last, app
    <3>6. Handed(R, n) \in SUBSET {j \in DOMAIN expr : expr[j].kind = "constrained"}
      BY <1>0, <1>8, ApplyingIs DEF Handed
    <3>7. inst.cs \in Constraints
      BY <1>6 DEF Instructions
    <3>8. Carries(expr, n, inst.cs, Handed(R, n))
      BY <2>2, <2>4 DEF inst
    <3>9. Carries(expr, n, Merge(inst.cs, con), Handed(R, n) \cup {last})
      BY <1>0, <1>1, <1>9, <3>4, <3>6, <3>7, <3>8, CarriesMerged
    <3> QED
      BY <3>3, <3>5, <3>9
  <2> QED
    BY <2>3, <2>4
<1> QED
  BY <1>1, <1>10, <1>13, <1>17, <1>18, <1>16 DEF Merging

LEMMA WhenConverted ==
  ASSUME Shaped, Merging, Converted
  PROVE  /\ phase = "convert" /\ phase' = "talk" /\ at' = 1 /\ UNCHANGED <<expr, stack, ir, out, reg>>
         /\ at = Len(expr) + 1 /\ Len(out) = Len(expr) /\ \A n \in DOMAIN expr : out[n] < Len(ir)
         /\ result' = Len(ir) - 1 /\ result' = out[Len(expr)]
         /\ Linked(Len(expr)) /\ Complete
<1>1. /\ phase = "convert" /\ stack = <<>> /\ at > Len(expr)
      /\ phase' = "talk" /\ at' = 1 /\ UNCHANGED <<expr, stack, ir, out, reg>>
      /\ result' = Len(ir) - 1
  BY DEF Converted, Proceed
<1>2. /\ IsExpression(expr) /\ DOMAIN expr = 1 .. Len(expr) /\ Len(expr) \in Nat
      /\ at \in Nat /\ at = Len(expr) + 1
  <2>1. at \in 1 .. Len(expr) + 1
    BY <1>1 DEF Shaped, TypeOK
  <2> QED
    BY <1>1, <2>1, ShapedTypes
<1>3. 1 .. at - 1 = DOMAIN expr
  BY <1>2
<1>4. Len(out) = Len(expr) /\ \A n \in DOMAIN expr : out[n] < Len(ir)
  BY <1>1, <1>2, <1>3, ConvertingTypes
<1>5. result' = out[Len(expr)] /\ Len(expr) >= 1
  <2>1. expr # <<>> /\ result' = Len(ir) - 1
    BY <1>2 DEF IsExpression, Converted
  <2>2. at > 1 /\ at - 1 = Len(expr)
    BY <1>2, <2>1, ShapedTypes
  <2> QED
    BY <1>1, <1>2, <2>1, <2>2, ConvertingTypes DEF Converting
<1>6. Linked(Len(expr))
  <2>1. at - 1 = Len(expr)
    BY <1>2
  <2>2. Linked(at - 1)
    BY <1>1 DEF Merging
  <2> QED
    BY <2>1, <2>2
<1>7. ASSUME NEW n \in DOMAIN expr, LeafNode(expr[n])
      PROVE  Carries(expr, n, ir[out[n] + 1].cs, Applying(expr)[n])
  <2>1. {j \in Applying(expr)[n] : j < at} = Applying(expr)[n]
    BY <1>2, ApplyingIs
  <2> QED
    BY <1>1, <1>3, <1>7, <2>1, AllCarried
<1> QED
  BY <1>1, <1>2, <1>4, <1>7, <1>5, <1>6 DEF Complete

LEMMA ConvertedMerging == ASSUME Shaped, Merging, Converted PROVE Merging'
<1>1. /\ phase' = "talk" /\ UNCHANGED <<expr, ir, out>>
      /\ Len(out) = Len(expr) /\ \A n \in DOMAIN expr : out[n] < Len(ir)
      /\ result' = out[Len(expr)] /\ Linked(Len(expr)) /\ Complete
  BY WhenConverted
<1>2. Linked(Len(expr))' /\ Complete'
  BY <1>1 DEF Linked, Complete
<1> QED
  BY <1>1, <1>2 DEF Merging

LEMMA NextMerging == ASSUME Shaped, Merging, [Next]_vars PROVE Merging'
<1>1. CASE phase' \notin {"convert", "talk"}
  BY <1>1 DEF Merging
<1>2. CASE phase' = "convert" /\ (Page \/ Unary \/ Binary)
  <2>1. /\ phase = "convert" /\ stack = <<>> /\ at \in DOMAIN expr /\ expr[at].kind # "constrained"
        /\ \E args \in Seq(Nat), titles \in SUBSET Titles :
             /\ DOMAIN args = DOMAIN expr[at].args
             /\ \A k \in DOMAIN args : args[k] = out[expr[at].args[k]]
             /\ expr[at].kind = "page" => titles = expr[at].titles
             /\ Emit(CodeOf(expr[at]), args, titles)
    BY <1>2, Emitted
  <2> QED
    BY <2>1, EmitMerging
<1>3. CASE phase' = "convert" /\ Constrain
  BY <1>3, ConstrainMerging
<1>4. CASE phase' = "convert" /\ Hand
  BY <1>4, HandMerging
<1>5. CASE Converted
  BY <1>5, ConvertedMerging
<1>6. CASE phase' = "talk" /\ Talk
  BY <1>6, ShapedTypes DEF Talk, Looking, Merging
<1>7. CASE UNCHANGED vars
  <2>1. UNCHANGED <<expr, phase, at, stack, ir, out, result>>
    BY <1>7 DEF vars
  <2>2. /\ Linked(at - 1)' <=> Linked(at - 1)
        /\ Linked(Len(expr))' <=> Linked(Len(expr))
        /\ Handing' <=> Handing
        /\ Complete' <=> Complete
    BY <2>1 DEF Linked, Handing, Complete
  <2>3. \A R : (Reached(R)' <=> Reached(R)) /\ (Carrying(R)' <=> Carrying(R))
    BY <2>1 DEF Reached, Stacked, Carrying, Handed
  <2> QED
    BY <2>1, <2>2, <2>3 DEF Merging
<1>8. CASE phase' \in {"convert", "talk"} /\ (Empty \/ Clear \/ Nop \/ NextPass \/ Solve)
  BY <1>8 DEF Empty, Clear, Nop, NextPass, Solve, Compute, Request, GiveUp, RequestFails, Finish,
              Looking, Looked, Proceed, Put, Solving, Ends
<1>9. CASE phase' = "talk" /\ (Page \/ Unary \/ Binary \/ Constrain \/ Hand)
  BY <1>9 DEF Page, Unary, Binary, Constrain, Hand, Visiting, Emit, Ends
<1>10. CASE phase' = "convert" /\ Talk
  BY <1>10 DEF Talk, Looking
<1> QED
  BY <1>1, <1>2, <1>3, <1>4, <1>5, <1>6, <1>7, <1>8, <1>9, <1>10 DEF Next, Convert, Optimise

LEMMA InitMerging == Init => Merging
<1>1. SUFFICES ASSUME Init PROVE Merging
  OBVIOUS
<1>2. phase = "convert" /\ at = 1 /\ stack = <<>> /\ ir = <<>> /\ out = <<>>
  BY <1>1 DEF Init
<1>3. at - 1 = 0 /\ 1 .. at - 1 = {} /\ DOMAIN ir = {}
  BY <1>2
<1>4. Linked(at - 1) /\ Handing
  BY <1>2, <1>3 DEF Linked, Handing
<1>5. Reached({}) /\ Carrying({})
  BY <1>2, <1>3 DEF Reached, Carrying
<1>6. {} \in SUBSET Nat
  OBVIOUS
<1> QED
  BY <1>2, <1>4, <1>5, <1>6 DEF Merging

LEMMA MergingImplies == Shaped /\ Merging => LimitsKept
<1>1. SUFFICES ASSUME Shaped, Merging, phase = "talk", at = 1,
                      NEW i \in DOMAIN expr, LeafNode(expr[i])
               PROVE  Strictest(ir[IndexOf(out[i])].cs.limit, LimitsAt(expr, i))
  BY DEF LimitsKept, LeafNode, Strictest
<1>2. out[i] \in Nat /\ out[i] < Len(ir)
  <2>1. Len(out) = Len(expr) /\ out[i] < Len(ir)
    BY <1>1 DEF Merging
  <2> QED
    BY <2>1, ShapedTypes, <1>1
<1>3. IndexOf(out[i]) = out[i] + 1
  BY <1>1, <1>2, Numbers DEF Shaped, Before
<1>4. Carries(expr, i, ir[out[i] + 1].cs, Applying(expr)[i])
  BY <1>1 DEF Merging, Complete
<1> QED
  BY <1>3, <1>4 DEF Carries, LimitsAt

(* However lists of constraints are nested, no request of a converted      *)
(* query lists more than the strictest limit that applies to it.           *)
THEOREM LimitsAlwaysKept == Spec => []LimitsKept
<1>1. Init => Shaped /\ Merging
  BY InitShaped, InitMerging
<1>2. Shaped /\ Merging /\ [Next]_vars => (Shaped /\ Merging)'
  BY NextShaped, NextMerging
<1> QED
  BY <1>1, <1>2, MergingImplies, PTL DEF Spec

-----------------------------------------------------------------------------
(* A legal query is not rejected.                                          *)

LEMMA AdmitsSame ==
  ASSUME NEW code \in Leaves, NEW a, NEW b, \A k \in Agreeing : a[k] = b[k], Admits(code, a)
  PROVE  Admits(code, b)
<1>1. Refused[code] \subseteq Agreeing
  BY DEF Leaves, Generators, Refused, Agreeing
<1> QED
  BY <1>1 DEF Admits

(* What an instruction carries is compatible with every list that applies  *)
(* to its node, if these do not contradict each other.                     *)
LEMMA CarriedFits ==
  ASSUME IsExpression(expr), NEW n \in DOMAIN expr, NEW j \in Applying(expr)[n],
         NEW js \in SUBSET Applying(expr)[n], Admitted(expr, n),
         NEW cs \in Constraints, Carries(expr, n, cs, js),
         NEW con \in Constraints, IsOf(expr, con, j)
  PROVE  Compatible(cs, con)
<1>1. j \in DOMAIN expr /\ expr[j].kind = "constrained"
  BY ApplyingIs
<1>2. ASSUME NEW k \in Agreeing PROVE Agree(k, cs[k], con[k])
  <2>1. con[k] = ConstraintAt(expr, j)[k]
    BY DEF IsOf
  <2>2. CASE cs[k] = None
    BY <2>2 DEF Agree
  <2>3. CASE cs[k] # None
    <3>1. cs[k] \in Given(expr, k, js)
      BY <2>3, Zenon DEF Carries
    <3>2. PICK i \in js : cs[k] = ConstraintAt(expr, i)[k]
      BY <3>1 DEF Given
    <3>3. i \in DOMAIN expr /\ expr[i].kind = "constrained"
      BY ApplyingIs
    <3>4. Compatible(ConstraintAt(expr, i), ConstraintAt(expr, j))
      BY DEF Admitted
    <3>5. Agree(k, ConstraintAt(expr, i)[k], ConstraintAt(expr, j)[k])
      BY <1>1, <3>3, <3>4, ListsTyped, CompatibleMeansAgree
    <3> QED
      BY <2>1, <3>2, <3>5
  <2> QED
    BY <2>2, <2>3
<1> QED
  BY <1>2, CompatibleMeansAgree

LEMMA LegalIsConverted ==
  ASSUME Shaped, Merging, Legal(expr), Convert
  PROVE  phase' # "rejected"
<1>0. IsExpression(expr) /\ ir \in Seq(Instructions)
  BY ShapedTypes
<1>1. CASE Page \/ Unary \/ Binary \/ Converted
  BY <1>1 DEF Page, Unary, Binary, Visiting, Emit, Converted, Proceed
<1>2. CASE Constrain
  <2>1. /\ phase = "convert" /\ at \in DOMAIN expr /\ expr[at].kind = "constrained"
    BY <1>2, ShapedTypes DEF Constrain, Visiting
  <2>2. Consistent(expr[at].list)
    BY <2>1 DEF Legal
  <2>3. UNCHANGED phase
    BY <1>2, <2>2 DEF Constrain
  <2> QED
    BY <2>1, <2>3
<1>3. CASE Hand
  <2> DEFINE r == stack[1][1]
             con == stack[1][2]
             inst == ir[r + 1]
             last == at - 1
  <2>1. /\ phase = "convert" /\ stack # <<>> /\ stack \in Seq(Nat \X Constraints)
        /\ r \in Nat /\ con \in Constraints
        /\ Has(r) /\ IndexOf(r) = r + 1 /\ r + 1 \in DOMAIN ir
    BY <1>3, HandLooksAt DEF Hand
  <2>2. 1 \in DOMAIN stack /\ inst \in Instructions /\ last \in Nat
    BY <1>0, <2>1, ShapedTypes
  <2>3. ASSUME inst.code \in Leaves PROVE Admits(inst.code, con) /\ Compatible(inst.cs, con)
    <3>1. PICK n \in 1 .. last : expr[n].kind # "constrained" /\ out[n] = (r + 1) - 1
      BY <2>1 DEF Merging, Linked
    <3>2. n \in DOMAIN expr /\ out[n] = r
      BY <2>1, <3>1, ConvertingTypes, SMTT(30)
    <3>3. last \in Applying(expr)[n] /\ IsOf(expr, con, last)
      <4>1. Handing
        BY <2>1 DEF Merging
      <4> QED
        BY <2>1, <2>2, <3>1, <3>2, <4>1 DEF Handing
    <3>4. inst.code = CodeOf(expr[n])
      BY <2>1, <3>1, <3>2 DEF Merging, Linked
    <3>5. LeafNode(expr[n])
      BY <1>0, <2>3, <3>1, <3>2, <3>4, CodeOfLeaf
    <3>6. Admitted(expr, n)
      BY <3>2, <3>5 DEF Legal, LeafNode
    <3>7. Admits(CodeOf(expr[n]), ConstraintAt(expr, last))
      BY <3>3, <3>6 DEF Admitted, CodeOf
    <3>8. \A k \in Agreeing : ConstraintAt(expr, last)[k] = con[k]
      BY <3>3 DEF IsOf
    <3> HIDE DEF r, con, inst, last
    <3>9. Admits(inst.code, con)
      BY <2>3, <3>4, <3>7, <3>8, AdmitsSame
    <3>10. PICK R \in SUBSET Nat : Carrying(R)
      BY <2>1 DEF Merging
    <3>11. Carries(expr, n, inst.cs, Handed(R, n))
      BY <3>1, <3>2, <3>5, <3>10 DEF Carrying, last, inst, r
    <3>12. Handed(R, n) \in SUBSET Applying(expr)[n]
      BY DEF Handed
    <3>13. inst.cs \in Constraints
      BY <2>2 DEF Instructions
    <3>14. Compatible(inst.cs, con)
      BY <1>0, <2>1, <3>2, <3>3, <3>6, <3>11, <3>12, <3>13, CarriedFits
    <3> QED
      BY <3>9, <3>14
  <2>4. inst.code \in Generators \cup {"set"} <=> inst.code \in Leaves
    BY DEF Leaves
  <2> HIDE DEF con
  <2>5. UNCHANGED phase
    BY <1>3, <2>1, <2>3, <2>4 DEF Hand, con
  <2> QED
    BY <2>1, <2>5
<1> QED
  BY <1>1, <1>2, <1>3 DEF Convert

-----------------------------------------------------------------------------
(* What a converted query asks for.                                        *)

(* A request that carries all lists that apply to its node has the         *)
(* parameters these lists agree on.                                        *)
LEMMA ParametersAgreed ==
  ASSUME IsExpression(expr), NEW n \in DOMAIN expr, Admitted(expr, n),
         NEW cs \in Constraints, Carries(expr, n, cs, Applying(expr)[n])
  PROVE  Parameters(cs) = Parameters(Agreed(expr, Applying(expr)[n]))
<1> DEFINE js == Applying(expr)[n]
           con == Agreed(expr, js)
           G(f) == Given(expr, f, js)
<1>1. ASSUME NEW f \in Agreeing
      PROVE  /\ con[f] = IF G(f) = {} THEN None ELSE CHOOSE v \in G(f) : TRUE
             /\ IF G(f) = {} THEN cs[f] = None ELSE cs[f] \in G(f)
             /\ \A v, w \in G(f) : Agree(f, v, w)
             /\ None \notin G(f)
  <2>1. f \in DOMAIN NoConstraint /\ f \notin {"ns", "limit"}
    BY DEF Agreeing, NoConstraint
  <2>2. con[f] = IF G(f) = {} THEN None ELSE CHOOSE v \in G(f) : TRUE
    BY <2>1 DEF Agreed, Given
  <2>3. IF G(f) = {} THEN cs[f] = None ELSE cs[f] \in G(f)
    BY Zenon DEF Carries
  <2>4. ASSUME NEW v \in G(f), NEW w \in G(f) PROVE Agree(f, v, w)
    <3>1. PICK i \in js : v = ConstraintAt(expr, i)[f]
      BY DEF Given
    <3>2. PICK j \in js : w = ConstraintAt(expr, j)[f]
      BY DEF Given
    <3>3. /\ i \in DOMAIN expr /\ expr[i].kind = "constrained"
          /\ j \in DOMAIN expr /\ expr[j].kind = "constrained"
      BY ApplyingIs
    <3>4. Compatible(ConstraintAt(expr, i), ConstraintAt(expr, j))
      BY DEF Admitted
    <3> QED
      BY <3>1, <3>2, <3>3, <3>4, ListsTyped, CompatibleMeansAgree
  <2>5. None \notin G(f)
    BY Zenon DEF Given
  <2> HIDE DEF G, con
  <2> QED
    BY <2>2, <2>3, <2>4, <2>5
<1> HIDE DEF G, con
<1>2. ASSUME NEW f \in Agreeing PROVE Agree(f, cs[f], con[f]) /\ (cs[f] = None <=> con[f] = None)
  <2>1. CASE G(f) = {}
    BY <1>1, <2>1 DEF Agree
  <2>2. CASE G(f) # {}
    <3>1. cs[f] \in G(f) /\ con[f] \in G(f)
      BY <1>1, <2>2
    <3> QED
      BY <1>1, <3>1
  <2> QED
    BY <2>1, <2>2
<1>3. \A f \in Agreeing : f # "depth" => cs[f] = con[f]
  BY <1>2 DEF Agree
<1>4. {"redir", "directlink", "resolveredir", "depth"} \subseteq Agreeing
  BY DEF Agreeing
<1>5. cs.redir = con.redir /\ cs.directlink = con.directlink /\ cs.resolveredir = con.resolveredir
  BY <1>3, <1>4
<1>6. \/ cs.depth = None /\ con.depth = None
      \/ cs.depth # None /\ con.depth # None /\ (cs.depth = con.depth \/ (cs.depth < 0 /\ con.depth < 0))
  BY <1>2, <1>4 DEF Agree, DepthsAgree
<1> QED
  BY <1>5, <1>6, Zenon DEF Parameters, con

-----------------------------------------------------------------------------
(* The values of registers.                                                *)

(* What an instruction computes when the registers have the values U.      *)
Value(inst, U) ==
  CASE inst.code \in Binaries -> Combined(inst.code, U[inst.args[1]], U[inst.args[2]])
    [] inst.code = "toggle" -> {TalkPage(t) : t \in U[inst.args[1]]}
    [] inst.code = "nop" -> U[inst.args[1]]
    [] inst.code = "set" -> {t \in inst.titles : Passes(t, inst.cs)}
    [] inst.code \in Generators -> Listed(inst.code, U[inst.args[1]], inst.cs)

(* U has the value that the instruction computes, and lets it ask; it does *)
(* not filter by namespace what it resolves.                               *)
Valued(inst, U) ==
  /\ U[inst.dest] = Value(inst, U)
  /\ inst.code \in Generators =>
       /\ MayAsk(inst.code, U[inst.args[1]])
       /\ Parameters(inst.cs).resolve => inst.cs.ns = None

LEMMA ValueIs ==
  ASSUME NEW inst \in Instructions, NEW U
  PROVE  /\ inst.code \in Binaries =>
              Value(inst, U) = Combined(inst.code, U[inst.args[1]], U[inst.args[2]])
         /\ inst.code = "toggle" => Value(inst, U) = {TalkPage(t) : t \in U[inst.args[1]]}
         /\ inst.code = "nop" => Value(inst, U) = U[inst.args[1]]
         /\ inst.code = "set" => Value(inst, U) = {t \in inst.titles : Passes(t, inst.cs)}
         /\ inst.code \in Generators =>
              Value(inst, U) = Listed(inst.code, U[inst.args[1]], inst.cs)
<1> DEFINE c == inst.code
           binary == Combined(inst.code, U[inst.args[1]], U[inst.args[2]])
           toggle == {TalkPage(t) : t \in U[inst.args[1]]}
           nop == U[inst.args[1]]
           set == {t \in inst.titles : Passes(t, inst.cs)}
           request == Listed(inst.code, U[inst.args[1]], inst.cs)
<1>1. Value(inst, U) = CASE c \in Binaries -> binary
                         [] c = "toggle" -> toggle
                         [] c = "nop" -> nop
                         [] c = "set" -> set
                         [] c \in Generators -> request
  BY DEF Value
<1>2. /\ c \in Binaries => c \notin Generators /\ c \notin {"toggle", "nop", "set"}
      /\ c \in Generators => c \notin {"toggle", "nop", "set"}
  BY DEF Binaries, Generators
<1> HIDE DEF c, binary, toggle, nop, set, request
<1>3. c \in Binaries => Value(inst, U) = binary
  BY <1>1, <1>2
<1>4. c = "toggle" => Value(inst, U) = toggle
  BY <1>1, <1>2
<1>5. c = "nop" => Value(inst, U) = nop
  BY <1>1, <1>2
<1>6. c = "set" => Value(inst, U) = set
  BY <1>1, <1>2
<1>7. c \in Generators => Value(inst, U) = request
  BY <1>1, <1>2
<1> QED
  BY <1>3, <1>4, <1>5, <1>6, <1>7 DEF c, binary, toggle, nop, set, request

(* When every list of constraints has reached what it applies to, the      *)
(* instruction of a node computes what remains of the answer of the node.  *)
LEMMA NodeValued ==
  ASSUME Shaped, phase = "convert", at = Len(expr) + 1, Linked(Len(expr)), Complete,
         Meaning(expr) # {}, ResolvesUnfiltered(expr),
         NEW U, \A n \in DOMAIN expr : U[out[n]] = AnswerAt(expr, n) \cap Remaining(expr, n),
         NEW n \in DOMAIN expr, expr[n].kind # "constrained"
  PROVE  Valued(ir[out[n] + 1], U)
<1> DEFINE inst == ir[out[n] + 1]
           A(m) == AnswerAt(expr, m)
           K(m) == Remaining(expr, m)
<1> SUFFICES Valued(inst, U)
  OBVIOUS
<1>0. IsExpression(expr) /\ DOMAIN expr = 1 .. Len(expr) /\ Len(expr) \in Nat
  BY ShapedTypes
<1>1. inst \in Instructions /\ inst.dest = out[n] /\ inst.cs \in Constraints
  <2>1. n \in 1 .. at - 1
    BY <1>0
  <2>2. out[n] \in Nat /\ out[n] + 1 \in DOMAIN ir /\ Numbered(ir)
    BY <2>1, ConvertingTypes
  <2>3. inst \in Instructions
    BY <2>2, ShapedTypes
  <2> QED
    BY <2>2, <2>3 DEF Numbered, Instructions
<1>2. /\ inst.code = CodeOf(expr[n])
      /\ expr[n].kind = "page" => inst.titles = expr[n].titles
      /\ \A k \in DOMAIN expr[n].args : inst.args[k] = out[expr[n].args[k]]
  BY <1>0 DEF Linked
<1>3. \A k \in DOMAIN expr[n].args : /\ expr[n].args[k] \in DOMAIN expr
                                     /\ OperandOf(expr, expr[n].args[k], n)
                                     /\ U[inst.args[k]] = A(expr[n].args[k]) \cap K(expr[n].args[k])
  BY <1>0, <1>2, OperandsOfNodes, SMTT(30) DEF OperandOf
<1>4. U[inst.dest] = A(n) \cap K(n)
  BY <1>1
<1>5. expr[n].kind = "unary" => /\ 1 \in DOMAIN expr[n].args /\ expr[n].args[1] = n - 1
                                /\ n - 1 \in DOMAIN expr
  <2>1. SUFFICES ASSUME expr[n].kind = "unary"
                 PROVE  1 \in DOMAIN expr[n].args /\ expr[n].args[1] = n - 1 /\ n - 1 \in DOMAIN expr
    OBVIOUS
  <2>2. expr[n].args = <<n - 1>> /\ n - 1 \in DOMAIN expr
    BY <1>0, <2>1, NodesTyped
  <2> QED
    BY <2>2
<1>6. LeafNode(expr[n]) => Keeps(inst.cs) = K(n)
  BY DEF Complete, Carries, Remaining
<1>7. \A m \in DOMAIN expr : A(m) \in SUBSET Titles /\ K(m) \in SUBSET Titles
  BY <1>0, AnswersAre DEF Remaining, Kept
<1>8. CASE expr[n].kind = "page"
  <2>1. A(n) = expr[n].titles
    BY <1>0, <1>8, AnswersAre
  <2>2. inst.code = "set" /\ inst.titles = A(n)
    BY <1>2, <1>8, <2>1 DEF CodeOf
  <2>3. Keeps(inst.cs) = K(n)
    BY <1>6, <1>8 DEF LeafNode
  <2>4. Value(inst, U) = {t \in A(n) : Passes(t, inst.cs)}
    BY <1>1, <2>2, ValueIs
  <2> HIDE DEF inst, A, K
  <2>5. Value(inst, U) = A(n) \cap K(n)
    BY <1>7, <2>3, <2>4 DEF Keeps
  <2> QED
    BY <1>4, <2>2, <2>5 DEF Valued, Generators
<1>9. CASE expr[n].kind = "unary" /\ Asks(expr[n])
  <2> DEFINE con == Agreed(expr, Applying(expr)[n])
             op == expr[n].op
  <2>1. MayAsk(op, A(n - 1)) /\ A(n) = Listed(op, A(n - 1), con)
    BY <1>0, <1>9, AnswersAre
  <2>2. inst.code = op /\ op \in Generators
    BY <1>2, <1>9 DEF CodeOf, Asks
  <2>3. K(n - 1) = Titles
    BY <1>0, <1>3, <1>5, <1>9, RemainingOfOperands
  <2>4. U[inst.args[1]] = A(n - 1)
    BY <1>3, <1>5, <1>7, <1>9, <2>3, ZenonT(40)
  <2>5. Keeps(inst.cs) = K(n)
    BY <1>6, <1>9 DEF LeafNode
  <2>6. Admitted(expr, n)
    BY <1>0, <1>9, AnswersAre DEF Legal
  <2>7. Parameters(inst.cs) = Parameters(con)
    <3>1. Carries(expr, n, inst.cs, Applying(expr)[n])
      BY <1>9 DEF Complete, LeafNode
    <3> QED
      BY <1>0, <1>1, <2>6, <3>1, ParametersAgreed
  <2>8. con.ns = None /\ \A t : Passes(t, con)
    BY DEF Agreed, NoConstraint, Passes
  <2>9. Parameters(inst.cs).resolve => inst.cs.ns = None
    <3>1. SUFFICES ASSUME Parameters(con).resolve PROVE inst.cs.ns = None
      BY <2>7
    <3>2. \A j \in Applying(expr)[n] : ConstraintAt(expr, j).ns = None
      BY <1>9, <3>1 DEF ResolvesUnfiltered
    <3>3. Carries(expr, n, inst.cs, Applying(expr)[n])
      BY <1>9 DEF Complete, LeafNode
    <3> QED
      BY <3>2, <3>3 DEF Carries
  <2>10. Value(inst, U) = Listed(op, A(n - 1), inst.cs)
    BY <1>1, <2>2, <2>4, ValueIs
  <2> HIDE DEF inst, A, K, con, op
  <2>11. Listed(op, A(n - 1), inst.cs) = Listed(op, A(n - 1), con) \cap Keeps(inst.cs)
    <3>1. CASE Parameters(con).resolve
      <4>1. inst.cs.ns = con.ns /\ Keeps(inst.cs) = Titles
        BY <2>7, <2>8, <2>9, <3>1 DEF Keeps, Passes
      <4>2. Listed(op, A(n - 1), inst.cs) = Listed(op, A(n - 1), con)
        BY <2>7, <3>1, <4>1 DEF Listed
      <4> QED
        BY <4>1, <4>2, ListedType
    <3>2. CASE ~Parameters(con).resolve
      BY <2>7, <2>8, <3>2 DEF Listed, Keeps
    <3> QED
      BY <3>1, <3>2
  <2>12. Value(inst, U) = A(n) \cap K(n)
    BY <2>1, <2>5, <2>10, <2>11
  <2> QED
    BY <1>4, <2>1, <2>2, <2>4, <2>12, <2>9 DEF Valued
<1>10. CASE expr[n].kind = "unary" /\ ~Asks(expr[n])
  <2>1. A(n) = {TalkPage(t) : t \in A(n - 1)}
    BY <1>0, <1>10, AnswersAre
  <2>2. inst.code = "toggle"
    <3>1. expr[n].op \in Unaries /\ expr[n].op \notin Generators
      BY <1>0, <1>10, NodesTyped DEF Asks
    <3> QED
      BY <1>2, <1>10, <3>1 DEF CodeOf, Unaries
  <2>3. K(n - 1) = {t \in Titles : TalkPage(t) \in K(n)}
    BY <1>0, <1>3, <1>5, <1>10, RemainingOfOperands
  <2>4. U[inst.args[1]] = A(n - 1) \cap K(n - 1)
    BY <1>3, <1>5, <1>10
  <2>5. Value(inst, U) = {TalkPage(t) : t \in A(n - 1) \cap K(n - 1)}
    BY <1>1, <2>2, <2>4, ValueIs
  <2>6. n - 1 \in DOMAIN expr
    BY <1>5, <1>10
  <2> HIDE DEF inst, A, K
  <2>7. Value(inst, U) = A(n) \cap K(n)
    BY <1>7, <2>1, <2>3, <2>5, <2>6
  <2> QED
    BY <1>4, <2>2, <2>7 DEF Valued, Generators
<1>11. CASE expr[n].kind = "binary"
  <2> DEFINE a == expr[n].args[1]
             b == expr[n].args[2]
  <2>1. 1 \in DOMAIN expr[n].args /\ 2 \in DOMAIN expr[n].args
    BY <1>0, <1>11, OperandsOfNodes
  <2>2. inst.code = expr[n].op /\ expr[n].op \in Binaries
    BY <1>0, <1>2, <1>11, NodesTyped DEF CodeOf
  <2>3. A(n) = Combined(expr[n].op, A(a), A(b))
    BY <1>0, <1>11, AnswersAre
  <2>4. K(a) = K(n) /\ K(b) = K(n)
    BY <1>0, <1>3, <1>11, <2>1, RemainingOfOperands
  <2>5. Value(inst, U) = Combined(expr[n].op, U[inst.args[1]], U[inst.args[2]])
    BY <1>1, <2>2, ValueIs
  <2>6. Value(inst, U) = Combined(expr[n].op, A(a) \cap K(n), A(b) \cap K(n))
    BY <1>3, <2>1, <2>4, <2>5
  <2> HIDE DEF inst, A, K, a, b
  <2>7. Value(inst, U) = A(n) \cap K(n)
    BY <2>2, <2>3, <2>6 DEF Combined, Binaries
  <2> QED
    BY <1>4, <2>2, <2>7 DEF Valued, Generators, Binaries
<1> QED
  BY <1>0, <1>8, <1>9, <1>10, <1>11, NodesTyped

(* So the registers of a converted query have values, that of the result   *)
(* the answer.                                                             *)
LEMMA ConvertedHasValues ==
  ASSUME Shaped, phase = "convert", at = Len(expr) + 1, Linked(Len(expr)), Complete,
         Meaning(expr) # {}, ResolvesUnfiltered(expr)
  PROVE  \E U \in [Nat -> SUBSET Titles] :
           /\ U[out[Len(expr)]] = AnswerAt(expr, Len(expr))
           /\ \A i \in DOMAIN ir : Valued(ir[i], U)
<1> DEFINE N == Len(expr)
           W(n) == AnswerAt(expr, n) \cap Remaining(expr, n)
           NodeOf(r) == CHOOSE n \in 1 .. N : expr[n].kind # "constrained" /\ out[n] = r
           U == [r \in Nat |-> IF r < Len(ir) THEN W(NodeOf(r)) ELSE {}]
<1>0. IsExpression(expr) /\ DOMAIN expr = 1 .. N /\ N \in Nat /\ N \in DOMAIN expr
  BY ShapedTypes DEF IsExpression
<1>1. \A n \in 1 .. N : out[n] \in Nat /\ out[n] < Len(ir)
  <2>1. N = at - 1
    BY <1>0
  <2> QED
    BY <2>1, ConvertingTypes
<1>2. \A n \in DOMAIN expr : W(n) \in SUBSET Titles
  BY <1>0, AnswersAre
<1>3. ASSUME NEW n \in 1 .. N, expr[n].kind # "constrained" PROVE NodeOf(out[n]) = n
  <2>1. NodeOf(out[n]) \in 1 .. N /\ expr[NodeOf(out[n])].kind # "constrained" /\ out[NodeOf(out[n])] = out[n]
    BY <1>3
  <2> HIDE DEF NodeOf
  <2> QED
    BY <1>3, <2>1 DEF Linked
<1>4. ASSUME NEW r \in Nat, r < Len(ir)
      PROVE  NodeOf(r) \in 1 .. N
  <2>1. r + 1 \in DOMAIN ir /\ (r + 1) - 1 = r
    BY <1>4, ShapedTypes
  <2>2. \E n \in 1 .. N : expr[n].kind # "constrained" /\ out[n] = (r + 1) - 1
    BY <2>1 DEF Linked
  <2> QED
    BY <2>1, <2>2
<1> HIDE DEF NodeOf
<1>5. U \in [Nat -> SUBSET Titles]
  <2>1. \A r \in Nat : r < Len(ir) => W(NodeOf(r)) \in SUBSET Titles
    BY <1>0, <1>2, <1>4
  <2> HIDE DEF W
  <2> QED
    BY <2>1
<1>6. \A n \in 1 .. N : expr[n].kind # "constrained" => U[out[n]] = W(n)
  <2> HIDE DEF W
  <2> QED
    BY <1>1, <1>3
<1> HIDE DEF U
<1>7. ASSUME NEW n \in 1 .. N, expr[n].kind = "constrained"
      PROVE  n - 1 \in 1 .. N /\ out[n] = out[n - 1] /\ W(n) = W(n - 1)
  <2>1. n - 1 \in DOMAIN expr /\ expr[n].args = <<n - 1>>
    BY <1>0, <1>7, NodesTyped
  <2>2. OperandOf(expr, n - 1, n)
    <3>1. 1 \in DOMAIN expr[n].args /\ expr[n].args[1] = n - 1
      BY <2>1
    <3> QED
      BY <3>1 DEF OperandOf
  <2>3. Remaining(expr, n - 1) = Keeps(ConstraintAt(expr, n)) \cap Remaining(expr, n)
    BY <1>0, <1>7, <2>1, <2>2, RemainingOfOperands
  <2>4. AnswerAt(expr, n) = {t \in AnswerAt(expr, n - 1) : Passes(t, ConstraintAt(expr, n))}
    BY <1>0, <1>7, AnswersAre
  <2>5. AnswerAt(expr, n - 1) \in SUBSET Titles
    BY <1>0, <2>1, AnswersAre
  <2>6. W(n) = W(n - 1)
    BY <2>3, <2>4, <2>5 DEF Keeps
  <2>7. out[n] = out[n - 1]
    BY <1>7 DEF Linked
  <2> QED
    BY <1>0, <2>1, <2>6, <2>7
<1> HIDE DEF W
<1> DEFINE S == {n \in 1 .. N : U[out[n]] = W(n)}
<1>8. ASSUME NEW n \in 0 .. N, \A m \in 0 .. n - 1 : m = 0 \/ m \in S
      PROVE  n = 0 \/ n \in S
  <2>1. CASE n = 0
    BY <2>1
  <2>2. CASE n # 0 /\ expr[n].kind # "constrained"
    <3>1. n \in 1 .. N
      BY <1>0, <2>2
    <3> QED
      BY <1>6, <2>2, <3>1
  <2>3. CASE n # 0 /\ expr[n].kind = "constrained"
    <3>1. n \in 1 .. N
      BY <1>0, <2>3
    <3>2. n - 1 \in 1 .. N /\ out[n] = out[n - 1] /\ W(n) = W(n - 1)
      BY <1>7, <2>3, <3>1
    <3>3. n - 1 \in 0 .. n - 1 /\ n - 1 # 0
      BY <1>0, <3>1, <3>2
    <3>4. n - 1 \in S
      BY <1>8, <3>3
    <3> QED
      BY <3>1, <3>2, <3>4
  <2> QED
    BY <2>1, <2>2, <2>3
<1>9. \A n \in 1 .. N : U[out[n]] = W(n)
  <2> DEFINE T == S \cup {0}
  <2>1. ASSUME NEW n \in 0 .. N, \A m \in 0 .. n - 1 : m \in T PROVE n \in T
    <3>1. \A m \in 0 .. n - 1 : m = 0 \/ m \in S
      BY <2>1
    <3>2. n = 0 \/ n \in S
      <4> HIDE DEF S
      <4> QED
        BY <1>8, <3>1
    <3> QED
      BY <3>2
  <2>2. \A n \in 0 .. N : n \in T
    <3> HIDE DEF T
    <3> QED
      BY <1>0, <2>1, Induction
  <2> QED
    BY <1>0, <2>2
<1>10. U[out[N]] = AnswerAt(expr, N)
  <2>1. U[out[N]] = W(N)
    BY <1>0, <1>9
  <2>2. Remaining(expr, N) = Titles
    BY <1>0, ApplyingIs DEF Remaining, Kept
  <2>3. AnswerAt(expr, N) \in SUBSET Titles
    BY <1>0, AnswersAre
  <2> QED
    BY <2>1, <2>2, <2>3 DEF W
<1>11. ASSUME NEW i \in DOMAIN ir PROVE Valued(ir[i], U)
  <2>1. PICK n \in 1 .. N : expr[n].kind # "constrained" /\ out[n] = i - 1
    BY DEF Linked
  <2>2. out[n] + 1 = i /\ n \in DOMAIN expr
    BY <1>0, <2>1, ShapedTypes
  <2>3. \A m \in DOMAIN expr : U[out[m]] = AnswerAt(expr, m) \cap Remaining(expr, m)
    BY <1>0, <1>9 DEF W
  <2>4. Valued(ir[out[n] + 1], U)
    BY <2>1, <2>2, <2>3, NodeValued
  <2> QED
    BY <2>2, <2>4
<1> QED
  BY <1>5, <1>10, <1>11

-----------------------------------------------------------------------------
(* Queries are answered with what they mean.                               *)

(* U has a value for every register such that the instructions compute the *)
(* answer of the query, but for those that are about to be cleared, whose  *)
(* value is empty.  The solver has found the values of U so far.           *)
Computes(U) ==
  /\ U[result] = AnswerAt(expr, Len(expr))
  /\ \A i \in DOMAIN ir : Valued(ir[i], U) \/ (phase = "empty" /\ Holds(stack, ir[i].dest))
  /\ phase = "empty" => \A k \in DOMAIN stack : U[stack[k]] = {}
  /\ phase = "solve" => \A r \in DOMAIN reg : reg[r] = U[r]

(* What the property AnswersQuery speaks of.                               *)
Claimed == Meaning(expr) # {} /\ ResolvesUnfiltered(expr) /\ ~cut

Answering ==
  /\ Meaning(expr) # {} => phase # "rejected"
  /\ Claimed =>
    /\ phase # "wrong"
    /\ phase \in {"talk", "empty", "nop", "solve"} =>
         \E U \in [Nat -> SUBSET Titles] : Computes(U)
    /\ phase = "solved" => reg[result] = AnswerAt(expr, Len(expr))

(* The registers that an instruction names.                                *)
LEMMA OperandsOf ==
  ASSUME NEW inst \in Instructions, Fits(inst)
  PROVE  /\ inst.dest \in Nat /\ inst.args \in Seq(Nat) /\ inst.code \in Codes
         /\ \A k \in DOMAIN inst.args : inst.args[k] \in Nat
         /\ inst.code \in Binaries => DOMAIN inst.args = {1, 2}
         /\ inst.code \in Copies => DOMAIN inst.args = {1}
         /\ Generators \subseteq Copies /\ Twice \subseteq Copies
<1>1. inst.dest \in Nat /\ inst.args \in Seq(Nat) /\ inst.code \in Codes
  BY DEF Instructions
<1>2. inst.code \in Binaries => DOMAIN inst.args = {1, 2}
  BY <1>1 DEF Fits
<1>3. inst.code \in Copies => DOMAIN inst.args = {1}
  BY <1>1 DEF Fits
<1> QED
  BY <1>1, <1>2, <1>3 DEF Copies, Unaries, Twice

(* What an instruction computes depends on its operands only.              *)
LEMMA ValuedSame ==
  ASSUME NEW inst \in Instructions, Fits(inst), NEW U, NEW V,
         \A k \in DOMAIN inst.args : V[inst.args[k]] = U[inst.args[k]],
         V[inst.dest] = U[inst.dest], Valued(inst, U)
  PROVE  Valued(inst, V)
<1>1. CASE inst.code \in Binaries
  <2>1. V[inst.args[1]] = U[inst.args[1]] /\ V[inst.args[2]] = U[inst.args[2]]
    BY <1>1, OperandsOf
  <2>2. Value(inst, V) = Value(inst, U)
    BY <1>1, <2>1, ValueIs
  <2>3. inst.code \notin Generators
    BY <1>1 DEF Binaries, Generators
  <2> QED
    BY <2>2, <2>3 DEF Valued
<1>2. CASE inst.code \in Copies
  <2>1. V[inst.args[1]] = U[inst.args[1]]
    BY <1>2, OperandsOf
  <2>2. Value(inst, V) = Value(inst, U)
    BY <1>2, <2>1, ValueIs, ZenonT(40) DEF Copies, Unaries
  <2> QED
    BY <2>1, <2>2 DEF Valued
<1>3. CASE inst.code = "set"
  <2>1. Value(inst, V) = Value(inst, U)
    BY <1>3, ValueIs
  <2>2. inst.code \notin Generators
    BY <1>3 DEF Generators
  <2> QED
    BY <2>1, <2>2 DEF Valued
<1> QED
  BY <1>1, <1>2, <1>3, OperandsOf DEF Codes, Copies

(* A register with the same value can take its place.                      *)
LEMMA ValuedMoved ==
  ASSUME NEW inst \in Instructions, NEW U, NEW d \in Nat, U[d] = U[inst.dest], Valued(inst, U)
  PROVE  Valued([inst EXCEPT !.dest = d], U)
<1> DEFINE new == [inst EXCEPT !.dest = d]
<1>1. /\ new \in Instructions /\ new.dest = d /\ new.code = inst.code
      /\ new.args = inst.args /\ new.titles = inst.titles /\ new.cs = inst.cs
  BY DEF Instructions
<1> HIDE DEF new
<1>2. Value(new, U) = Value(inst, U)
  BY <1>1 DEF Value
<1> QED
  BY <1>1, <1>2 DEF Valued, new

(* The registers of two instructions differ, the operands of one are no    *)
(* operands of the other, and precede it.                                  *)
LEMMA Apart ==
  ASSUME WellFormed(ir), NEW i \in DOMAIN ir, NEW j \in DOMAIN ir
  PROVE  /\ i # j => ir[i].dest # ir[j].dest
         /\ i # j => \A k \in DOMAIN ir[i].args, l \in DOMAIN ir[j].args : ir[i].args[k] # ir[j].args[l]
         /\ j >= i => \A k \in DOMAIN ir[i].args : ir[i].args[k] # ir[j].dest
<1>1. ir \in Seq(Instructions) /\ DOMAIN ir = 1 .. Len(ir) /\ Len(ir) \in Nat
  BY DEF WellFormed
<1>2. \A m \in DOMAIN ir : ir[m].dest \in Nat
  BY <1>1, InstructionsTyped
<1>3. \A m, n \in DOMAIN ir : m # n => ir[m].dest # ir[n].dest
  BY <1>1, <1>2 DEF WellFormed, Sorted
<1>4. ASSUME j >= i, NEW k \in DOMAIN ir[i].args PROVE ir[i].args[k] # ir[j].dest
  <2>1. PICK m \in 1 .. i - 1 : ir[m].dest = ir[i].args[k]
    BY DEF WellFormed, Earlier
  <2>2. m \in DOMAIN ir /\ m # j
    BY <1>1, <1>4
  <2> QED
    BY <1>3, <2>1, <2>2
<1> QED
  BY <1>3, <1>4 DEF WellFormed, Unshared

LEMMA ConvertAnswering ==
  ASSUME Shaped, Merging, Answering, Convert
  PROVE  Answering'
<1>1. phase = "convert" /\ UNCHANGED <<expr, reg, cut>> /\ phase' \in {"convert", "rejected", "talk"}
  BY DEF Convert, Page, Unary, Binary, Constrain, Hand, Converted, Visiting, Emit, Ends, Proceed
<1>3. Meaning(expr) # {} => phase' # "rejected"
  <2>1. SUFFICES ASSUME Meaning(expr) # {} PROVE phase' # "rejected"
    OBVIOUS
  <2>2. Legal(expr)
    BY <2>1, AnswersAre, ShapedTypes
  <2> QED
    BY <2>2, LegalIsConverted
<1>4. ASSUME Claimed, phase' = "talk" PROVE \E U \in [Nat -> SUBSET Titles] : Computes(U)'
  <2>1. Converted
    BY <1>1, <1>4 DEF Convert, Page, Unary, Binary, Constrain, Hand, Visiting, Emit, Ends
  <2>2. /\ at = Len(expr) + 1 /\ Linked(Len(expr)) /\ Complete
        /\ ir' = ir /\ result' = out[Len(expr)]
    BY <2>1, WhenConverted
  <2>3. PICK U \in [Nat -> SUBSET Titles] :
          /\ U[out[Len(expr)]] = AnswerAt(expr, Len(expr))
          /\ \A i \in DOMAIN ir : Valued(ir[i], U)
    BY <1>1, <1>4, <2>2, ConvertedHasValues DEF Claimed
  <2>4. Computes(U)'
    BY <1>1, <1>4, <2>2, <2>3 DEF Computes
  <2> QED
    BY <2>4
<1>5. Meaning(expr)' = Meaning(expr) /\ (Claimed' => Claimed)
  BY <1>1 DEF Claimed
<1> QED
  BY <1>1, <1>3, <1>4, <1>5 DEF Answering

(* A toggle of a toggle gives back what it is applied to, which the        *)
(* register in between may just as well have.                              *)
LEMMA TalkAnswering == ASSUME Shaped, Answering, Talk PROVE Answering'
<1>1. /\ phase = "talk" /\ phase' = "talk" /\ UNCHANGED <<expr, stack, out, result, reg, cut>>
      /\ WellFormed(ir) /\ Numbered(ir) /\ at \in DOMAIN ir /\ ir # <<>> /\ ir[Len(ir)].dest = result
  BY TalkLooksAt DEF Talk, Looking, Shaped, Before
<1>2. ir \in Seq(Instructions) /\ DOMAIN ir = 1 .. Len(ir) /\ Len(ir) \in Nat /\ at \in Nat
  BY ShapedTypes
<1>3. SUFFICES ASSUME Claimed
               PROVE  \E U \in [Nat -> SUBSET Titles] : Computes(U)'
  BY <1>1 DEF Answering, Claimed
<1>4. PICK U \in [Nat -> SUBSET Titles] : Computes(U)
  BY <1>1, <1>3 DEF Answering
<1>5. /\ U[result] = AnswerAt(expr, Len(expr)) /\ \A i \in DOMAIN ir : Valued(ir[i], U)
  BY <1>1, <1>4 DEF Computes
<1>6. CASE ir' = ir
  <2>1. Computes(U)'
    BY <1>1, <1>5, <1>6 DEF Computes
  <2> QED
    BY <2>1
<1>7. CASE /\ at - 1 \in DOMAIN ir /\ ir[at].code = "toggle" /\ ir[at - 1].code = "toggle"
           /\ ir' = [ir EXCEPT ![at] = AsNop(ir[at]), ![at - 1] = AsNop(ir[at - 1])]
  <2> DEFINE first == ir[at - 1]
             second == ir[at]
             x == first.dest
             y == first.args[1]
  <2>1. /\ first \in Instructions /\ Fits(first) /\ first.code \in Copies /\ x \in Nat
        /\ second \in Instructions /\ Fits(second) /\ second.code \in Copies /\ second.dest \in Nat
        /\ 1 \in DOMAIN first.args /\ 1 \in DOMAIN second.args /\ y \in Nat
        /\ second.args[1] = x
    <3>1. first \in Instructions /\ Fits(first) /\ second \in Instructions /\ Fits(second)
      BY <1>1, <1>2, <1>7, InstructionsTyped DEF WellFormed
    <3>2. first.code \in Copies /\ second.code \in Copies
      BY <1>7 DEF Copies, Unaries
    <3>3. second.args[1] = x
      BY <1>1, <3>2 DEF WellFormed, Adjacent
    <3> QED
      BY <3>1, <3>2, <3>3, OperandsOf
  <2>2. x # y /\ x # second.dest
    BY <1>1, <1>2, <1>7, <2>1, Apart
  <2>3. /\ U[x] = {TalkPage(t) : t \in U[y]} /\ U[second.dest] = {TalkPage(t) : t \in U[x]}
    BY <1>1, <1>5, <1>7, <2>1, ValueIs DEF Valued
  <2>4. U[second.dest] = U[y] /\ U[y] \in SUBSET Titles
    <3>1. U[y] \in SUBSET Titles
      BY <2>1
    <3>2. \A t \in U[y] : TalkPage(TalkPage(t)) = t
      BY <3>1, TalkTwice
    <3> QED
      BY <2>3, <3>1, <3>2
  <2>5. PICK V \in [Nat -> SUBSET Titles] : V[x] = U[y] /\ \A r \in Nat : r # x => V[r] = U[r]
    <3>1. [U EXCEPT ![x] = U[y]] \in [Nat -> SUBSET Titles]
      BY <2>1, <2>4
    <3> QED
      BY <2>1, <3>1
  <2>6. \A i \in DOMAIN ir : ir'[i] = IF i \in {at - 1, at} THEN AsNop(ir[i]) ELSE ir[i]
    BY <1>2, <1>7
  <2>7. DOMAIN ir' = DOMAIN ir
    BY <1>7
  <2>8. ASSUME NEW i \in DOMAIN ir PROVE Valued(ir'[i], V)
    <3>0. ir[i] \in Instructions /\ Fits(ir[i])
      BY <1>1, <1>2, InstructionsTyped DEF WellFormed
    <3>1. CASE i \in {at - 1, at}
      <4>1. ir'[i] = AsNop(ir[i]) /\ ir[i].code \in Copies
        BY <2>1, <2>6, <3>1
      <4>2. /\ ir'[i] \in Instructions /\ ir'[i].code = "nop"
            /\ ir'[i].dest = ir[i].dest /\ ir'[i].args = ir[i].args
        BY <3>0, <4>1, AsNopType
      <4>3. V[ir[i].dest] = V[ir[i].args[1]]
        BY <2>1, <2>2, <2>4, <2>5, <3>1
      <4>4. "nop" \notin Generators
        BY DEF Generators
      <4> QED
        BY <4>2, <4>3, <4>4, ValueIs DEF Valued
    <3>2. CASE i \notin {at - 1, at}
      <4>1. ir'[i] = ir[i]
        BY <2>6, <3>2
      <4>2. ir[i].dest # x
        BY <1>1, <1>7, <3>2, Apart
      <4>3. \A k \in DOMAIN ir[i].args : ir[i].args[k] # x
        BY <1>1, <2>1, <3>2, Apart
      <4>4. V[ir[i].dest] = U[ir[i].dest]
        BY <2>5, <3>0, <4>2, OperandsOf
      <4>5. \A k \in DOMAIN ir[i].args : V[ir[i].args[k]] = U[ir[i].args[k]]
        BY <2>5, <3>0, <4>3, OperandsOf
      <4>6. Valued(ir[i], V)
        BY <1>5, <3>0, <4>4, <4>5, ValuedSame
      <4> QED
        BY <4>1, <4>6
    <3> QED
      BY <3>1, <3>2
  <2>9. V[result] = U[result]
    <3>1. Len(ir) \in DOMAIN ir /\ Len(ir) # at - 1
      BY <1>1, <1>2
    <3>2. x # result
      BY <1>1, <1>7, <3>1, Apart
    <3> QED
      BY <2>5, <3>2, ShapedTypes
  <2>10. Computes(V)'
    BY <1>1, <1>5, <2>7, <2>8, <2>9 DEF Computes
  <2> QED
    BY <2>5, <2>10
<1> QED
  BY <1>6, <1>7, TalkLooksAt

(* A filter without namespaces leaves nothing of an answer.                *)
LEMMA EmptyAnswering == ASSUME Shaped, Answering, Empty PROVE Answering'
<1>1. /\ phase = "empty" /\ phase' = "empty" /\ stack = <<>>
      /\ UNCHANGED <<expr, ir, out, result, reg, cut>>
      /\ stack' = IF NsEmpty(ir[at]) THEN <<ir[at].dest>> ELSE <<>>
      /\ at \in DOMAIN ir /\ ir[at] \in Instructions /\ Fits(ir[at])
  BY ShapedTypes, InstructionsTyped DEF Empty, Looking, Shaped, WellFormed
<1>2. SUFFICES ASSUME Claimed
               PROVE  \E U \in [Nat -> SUBSET Titles] : Computes(U)'
  BY <1>1 DEF Answering, Claimed
<1>3. PICK U \in [Nat -> SUBSET Titles] : Computes(U)
  BY <1>1, <1>2 DEF Answering
<1>4. U[result] = AnswerAt(expr, Len(expr)) /\ \A i \in DOMAIN ir : Valued(ir[i], U)
  BY <1>1, <1>3 DEF Computes, Holds
<1>5. ASSUME NsEmpty(ir[at]) PROVE U[ir[at].dest] = {}
  <2>1. ir[at].cs.ns = {} /\ None # {}
    BY <1>5, NoneIsNoValue DEF NsEmpty
  <2>2. \A t : ~Passes(t, ir[at].cs)
    BY <2>1 DEF Passes
  <2>3. ir[at].code \in Generators \cup {"set"}
    BY <1>1, <2>1 DEF Fits, NoConstraint, Leaves
  <2>4. Value(ir[at], U) = {}
    <3>1. CASE ir[at].code \in Generators
      <4>1. Value(ir[at], U) = Listed(ir[at].code, U[ir[at].args[1]], ir[at].cs)
        BY <1>1, <3>1, ValueIs
      <4>2. ~Parameters(ir[at].cs).resolve
        BY <1>1, <1>4, <2>1, <3>1 DEF Valued
      <4> QED
        BY <2>2, <4>1, <4>2 DEF Listed
    <3>2. CASE ir[at].code = "set"
      <4>1. Value(ir[at], U) = {t \in ir[at].titles : Passes(t, ir[at].cs)}
        BY <1>1, <3>2, ValueIs
      <4> QED
        BY <2>2, <4>1
    <3> QED
      BY <2>3, <3>1, <3>2
  <2> QED
    BY <1>1, <1>4, <2>4 DEF Valued
<1>6. \A k \in DOMAIN stack' : U[stack'[k]] = {}
  BY <1>1, <1>5
<1>7. Computes(U)'
  BY <1>1, <1>4, <1>6 DEF Computes
<1> QED
  BY <1>7

(* What an empty register is computed from is used for nothing else, and   *)
(* may be empty too.                                                       *)
LEMMA ClearAnswering == ASSUME Shaped, Answering, Clear PROVE Answering'
<1>1. /\ phase = "empty" /\ phase' = "empty" /\ stack \in Seq(Nat) /\ stack # <<>>
      /\ UNCHANGED <<expr, at, out, result, reg, cut>>
      /\ WellFormed(ir) /\ Numbered(ir) /\ ir # <<>> /\ ir[Len(ir)].dest = result
  BY ClearLooksAt DEF Shaped, Before
<1>2. ir \in Seq(Instructions) /\ DOMAIN ir = 1 .. Len(ir) /\ Len(ir) \in Nat
  BY ShapedTypes
<1>3. SUFFICES ASSUME Claimed
               PROVE  \E U \in [Nat -> SUBSET Titles] : Computes(U)'
  BY <1>1 DEF Answering, Claimed
<1>4. PICK U \in [Nat -> SUBSET Titles] : Computes(U)
  BY <1>1, <1>3 DEF Answering
<1>5. /\ U[result] = AnswerAt(expr, Len(expr))
      /\ \A i \in DOMAIN ir : Valued(ir[i], U) \/ Holds(stack, ir[i].dest)
      /\ \A k \in DOMAIN stack : U[stack[k]] = {}
  BY <1>1, <1>4 DEF Computes
<1>6. PICK n \in DOMAIN ir : n = stack[1] + 1
  BY ClearLooksAt
<1>7. PICK new : new = Cleared(ir[n])
  OBVIOUS
<1>8. PICK args : args = ir[n].args
  OBVIOUS
<1>9. /\ ir[n] \in Instructions /\ Fits(ir[n]) /\ ir[n].dest = stack[1]
      /\ ir' = [ir EXCEPT ![n] = new] /\ stack' = args \o Tail(stack)
  BY <1>1, <1>2, <1>6, <1>7, <1>8, ClearLooksAt, InstructionsTyped DEF WellFormed
<1>10. /\ new \in Instructions /\ Fits(new) /\ new.dest = stack[1] /\ new.args = args
       /\ new.code # "toggle" /\ stack[1] \in Nat /\ args \in Seq(Nat)
       /\ \A k \in DOMAIN args : args[k] \in Nat
  BY <1>7, <1>8, <1>9, ClearedType, OperandsOf
<1>11. PICK V \in [Nat -> SUBSET Titles] :
         \A r \in Nat : V[r] = IF Holds(args, r) THEN {} ELSE U[r]
  <2>1. [r \in Nat |-> IF Holds(args, r) THEN {} ELSE U[r]] \in [Nat -> SUBSET Titles]
    OBVIOUS
  <2> QED
    BY <2>1
<1>12. V[stack[1]] = {}
  <2>1. 1 \in DOMAIN stack
    BY <1>1
  <2>2. U[stack[1]] = {}
    BY <1>5, <2>1
  <2> QED
    BY <1>10, <1>11, <2>2
<1>13. \A k \in DOMAIN args : V[args[k]] = {}
  BY <1>10, <1>11 DEF Holds
<1>14. Valued(new, V)
  <2>1. CASE new.code \in Binaries
    <3>1. new.args[1] \in Nat /\ V[new.args[1]] = {} /\ V[new.args[2]] = {}
      BY <1>10, <1>13, <2>1, OperandsOf
    <3>2. Value(new, V) = Combined(new.code, {}, {})
      BY <1>10, <2>1, <3>1, ValueIs
    <3>3. Combined(new.code, {}, {}) = {}
      BY <2>1 DEF Combined, Binaries
    <3>4. new.code \notin Generators
      BY <2>1 DEF Binaries, Generators
    <3> QED
      BY <1>10, <1>12, <3>2, <3>3, <3>4 DEF Valued
  <2>2. CASE new.code = "nop"
    <3>1. V[new.args[1]] = {}
      BY <1>10, <1>13, <2>2, OperandsOf DEF Copies
    <3>2. Value(new, V) = {}
      BY <1>10, <2>2, <3>1, ValueIs
    <3>3. new.code \notin Generators
      BY <2>2 DEF Generators
    <3> QED
      BY <1>10, <1>12, <3>2, <3>3 DEF Valued
  <2>3. CASE new.code \notin Binaries \cup {"nop"}
    <3>1. ir[n].code \notin Binaries
      BY <1>7, <2>3 DEF Cleared, Unaries, Generators, Binaries
    <3>2. ir[n].code \notin Unaries
      BY <1>7, <2>3 DEF Cleared, AsNop, Instruction, Unaries, Generators, Binaries
    <3>3. ir[n].code = "set"
      <4>1. ir[n].code # "nop"
        BY <1>7, <2>3 DEF Cleared, Unaries, Generators
      <4> QED
        BY <1>9, <3>1, <3>2, <4>1, OperandsOf DEF Codes
    <3>4. new.code = "set" /\ new.titles = {}
      BY <1>7, <3>3 DEF Cleared, Instruction, Unaries, Generators
    <3>5. Value(new, V) = {}
      BY <1>10, <3>4, ValueIs
    <3>6. new.code \notin Generators
      BY <3>4 DEF Generators
    <3> QED
      BY <1>10, <1>12, <3>5, <3>6 DEF Valued
  <2> QED
    BY <2>1, <2>2, <2>3
<1>15. /\ \A k \in DOMAIN args : Holds(stack', args[k])
       /\ \A k \in DOMAIN stack : k # 1 => Holds(stack', stack[k])
  BY <1>1, <1>9, <1>10, PushedHas
<1>16. DOMAIN ir' = DOMAIN ir /\ ir'[n] = new /\ \A i \in DOMAIN ir : i # n => ir'[i] = ir[i]
  BY <1>2, <1>9
<1>17. ASSUME NEW i \in DOMAIN ir PROVE Valued(ir'[i], V) \/ Holds(stack', ir'[i].dest)
  <2>0. ir[i] \in Instructions /\ Fits(ir[i]) /\ ir[i].dest \in Nat
    BY <1>1, <1>2, InstructionsTyped DEF WellFormed
  <2>1. CASE i = n
    BY <1>14, <1>16, <2>1
  <2>2. CASE i # n /\ Holds(stack, ir[i].dest)
    <3>1. PICK k \in DOMAIN stack : stack[k] = ir[i].dest
      BY <2>2 DEF Holds
    <3>2. k # 1
      BY <1>1, <1>9, <2>2, <3>1, Apart
    <3> QED
      BY <1>15, <1>16, <2>2, <3>1, <3>2
  <2>3. CASE i # n /\ Holds(args, ir[i].dest)
    BY <1>15, <1>16, <2>3 DEF Holds
  <2>4. CASE i # n /\ ~Holds(stack, ir[i].dest) /\ ~Holds(args, ir[i].dest)
    <3>1. Valued(ir[i], U)
      BY <1>5, <2>4
    <3>2. V[ir[i].dest] = U[ir[i].dest]
      BY <1>11, <2>0, <2>4
    <3>3. \A k \in DOMAIN ir[i].args : ~Holds(args, ir[i].args[k])
      BY <1>1, <1>8, <2>4, Apart DEF Holds
    <3>4. \A k \in DOMAIN ir[i].args : V[ir[i].args[k]] = U[ir[i].args[k]]
      BY <1>11, <2>0, <3>3, OperandsOf
    <3>5. Valued(ir[i], V)
      BY <2>0, <3>1, <3>2, <3>4, ValuedSame
    <3> QED
      BY <1>16, <2>4, <3>5
  <2> QED
    BY <2>1, <2>2, <2>3, <2>4
<1>18. \A k \in DOMAIN stack' : V[stack'[k]] = {}
  <2> DEFINE T == {r \in Nat : V[r] = {}}
  <2>1. \A k \in DOMAIN args : args[k] \in T
    BY <1>10, <1>13
  <2>2. \A k \in DOMAIN stack : stack[k] \in T
    <3>1. \A k \in DOMAIN stack : stack[k] \in Nat
      BY <1>1
    <3>2. \A k \in DOMAIN stack : V[stack[k]] = {}
      BY <1>5, <1>11, <3>1
    <3> QED
      BY <3>1, <3>2
  <2>3. \A k \in DOMAIN stack' : stack'[k] \in T
    <3> HIDE DEF T
    <3> QED
      BY <1>1, <1>9, <1>10, <2>1, <2>2, Pushed
  <2> QED
    BY <2>3
<1>19. V[result] = U[result]
  <2>1. Len(ir) \in DOMAIN ir /\ Len(ir) >= n
    BY <1>1, <1>2
  <2>2. \A k \in DOMAIN args : args[k] # result
    BY <1>1, <1>8, <2>1, Apart
  <2> QED
    BY <1>11, <2>2, ShapedTypes DEF Holds
<1>20. Computes(V)'
  BY <1>1, <1>5, <1>16, <1>17, <1>18, <1>19 DEF Computes
<1> QED
  BY <1>20

(* What takes over the register of a Nop has the same value.               *)
LEMMA NopAnswering == ASSUME Shaped, Answering, Nop PROVE Answering'
<1>1. /\ phase = "nop" /\ phase' = "nop" /\ UNCHANGED <<expr, stack, out, result, reg, cut>>
      /\ WellFormed(ir) /\ at \in DOMAIN ir
  BY NopLooksAt DEF Nop, Looking, Shaped
<1>2. ir \in Seq(Instructions) /\ DOMAIN ir = 1 .. Len(ir) /\ Len(ir) \in Nat /\ at \in Nat
  BY ShapedTypes
<1>3. SUFFICES ASSUME Claimed
               PROVE  \E U \in [Nat -> SUBSET Titles] : Computes(U)'
  BY <1>1 DEF Answering, Claimed
<1>4. PICK U \in [Nat -> SUBSET Titles] : Computes(U)
  BY <1>1, <1>3 DEF Answering
<1>5. U[result] = AnswerAt(expr, Len(expr)) /\ \A i \in DOMAIN ir : Valued(ir[i], U)
  BY <1>1, <1>4 DEF Computes
<1>6. CASE ir' = ir
  <2>1. Computes(U)'
    BY <1>1, <1>5, <1>6 DEF Computes
  <2> QED
    BY <2>1
<1>7. CASE ir[at].code = "nop" /\ ir' = Spliced(ir, at)
  <2>1. /\ at - 1 \in DOMAIN ir /\ ir' \in Seq(Instructions) /\ Len(ir') = Len(ir) - 1
        /\ \A k \in 1 .. Len(ir) - 1 :
             ir'[k] = [ir[Source(at, k)] EXCEPT !.dest = ir[Slot(at, k)].dest]
    BY <1>1, <1>7, SplicedCode
  <2>2. U[ir[at].dest] = U[ir[at - 1].dest]
    <3>1. ir[at].args[1] = ir[at - 1].dest
      BY <1>1, <1>7 DEF WellFormed, Adjacent, Copies
    <3>2. ir[at] \in Instructions
      BY <1>1, <1>2, InstructionsTyped
    <3>3. Value(ir[at], U) = U[ir[at].args[1]]
      BY <1>7, <3>2, ValueIs
    <3> QED
      BY <1>1, <1>5, <3>1, <3>3 DEF Valued
  <2>3. ASSUME NEW k \in DOMAIN ir' PROVE Valued(ir'[k], U)
    <3>1. k \in 1 .. Len(ir) - 1
      BY <1>2, <2>1
    <3>2. Source(at, k) \in DOMAIN ir /\ Slot(at, k) \in DOMAIN ir
      BY <1>1, <1>2, <2>1, <3>1 DEF Source, Slot
    <3>3. /\ ir[Source(at, k)] \in Instructions /\ ir[Slot(at, k)].dest \in Nat
          /\ Valued(ir[Source(at, k)], U)
      BY <1>2, <1>5, <3>2, InstructionsTyped
    <3>4. U[ir[Slot(at, k)].dest] = U[ir[Source(at, k)].dest]
      <4>1. Slot(at, k) = Source(at, k) \/ (Source(at, k) = at - 1 /\ Slot(at, k) = at)
        BY <1>1, <1>2, <3>1 DEF Source, Slot
      <4> QED
        BY <2>2, <4>1
    <3>5. Valued([ir[Source(at, k)] EXCEPT !.dest = ir[Slot(at, k)].dest], U)
      BY <3>3, <3>4, ValuedMoved
    <3> QED
      BY <2>1, <3>1, <3>5
  <2>4. Computes(U)'
    BY <1>1, <1>5, <2>3 DEF Computes
  <2> QED
    BY <2>4
<1> QED
  BY <1>6, <1>7, NopLooksAt

LEMMA NextPassAnswering == ASSUME Shaped, Answering, NextPass PROVE Answering'
<1>1. /\ phase \in {"talk", "empty", "nop"} /\ phase' \in {"empty", "nop", "solve"} /\ stack = <<>>
      /\ UNCHANGED <<expr, stack, ir, out, reg, result, cut>>
      /\ DOMAIN reg = {}
  BY DEF NextPass, Looked, Proceed, Shaped, Before
<1>2. SUFFICES ASSUME Claimed
               PROVE  \E U \in [Nat -> SUBSET Titles] : Computes(U)'
  BY <1>1 DEF Answering, Claimed
<1>3. PICK U \in [Nat -> SUBSET Titles] : Computes(U)
  BY <1>1, <1>2 DEF Answering
<1>4. U[result] = AnswerAt(expr, Len(expr)) /\ \A i \in DOMAIN ir : Valued(ir[i], U)
  BY <1>1, <1>3 DEF Computes, Holds
<1>5. Computes(U)'
  BY <1>1, <1>4 DEF Computes
<1> QED
  BY <1>5

(* The solver rejects nothing, and what is cut short remains so.           *)
LEMMA SolverGoesOn == ASSUME phase = "solve", Solve PROVE phase' # "rejected" /\ (cut => cut')
<1>1. CASE Request
  <2>1. PICK titles : Put(titles) /\ cut' = (cut \/ titles # Listed(Inst.code, Operand(1), Inst.cs))
    BY <1>1 DEF Request
  <2>2. phase' = phase
    BY <2>1 DEF Put
  <2> QED
    BY <2>1, <2>2
<1>2. CASE Compute
  BY <1>2 DEF Compute, Put
<1>3. CASE GiveUp
  BY <1>3 DEF GiveUp, Ends
<1>4. CASE RequestFails
  BY <1>4 DEF RequestFails, Ends
<1>5. CASE Finish
  BY <1>5 DEF Finish, Ends
<1> QED
  BY <1>1, <1>2, <1>3, <1>4, <1>5 DEF Solve

(* The solver finds the value of each register.                            *)
LEMMA SolveAnswering == ASSUME Shaped, Answering, Solve PROVE Answering'
<1>1. phase = "solve" /\ UNCHANGED <<expr, stack, ir, out, result>>
  BY DEF Solve, Compute, Request, GiveUp, RequestFails, Finish, Solving, Looked, Put, Ends
<1>2. /\ WellFormed(ir) /\ ir \in Seq(Instructions) /\ DOMAIN ir = 1 .. Len(ir) /\ Len(ir) \in Nat
      /\ ir # <<>> /\ ir[Len(ir)].dest = result
  BY <1>1, ShapedTypes DEF Shaped
<1>3. SUFFICES ASSUME Claimed, ~cut'
               PROVE  /\ phase' # "wrong"
                      /\ phase' \in {"talk", "empty", "nop", "solve"} =>
                           \E U \in [Nat -> SUBSET Titles] : Computes(U)'
                      /\ phase' = "solved" => reg'[result] = AnswerAt(expr, Len(expr))
  BY <1>1, SolverGoesOn DEF Answering, Claimed
<1>4. PICK U \in [Nat -> SUBSET Titles] : Computes(U)
  BY <1>1, <1>3 DEF Answering
<1>5. /\ U[result] = AnswerAt(expr, Len(expr)) /\ \A i \in DOMAIN ir : Valued(ir[i], U)
      /\ \A r \in DOMAIN reg : reg[r] = U[r]
  BY <1>1, <1>4 DEF Computes
<1>6. ASSUME at <= Len(ir)
      PROVE  /\ at \in DOMAIN ir /\ Inst = ir[at] /\ Inst \in Instructions /\ Fits(Inst)
             /\ Valued(Inst, U)
             /\ \A k \in DOMAIN Inst.args : Operand(k) = U[Inst.args[k]]
  <2>1. at \in DOMAIN ir /\ Known
    BY <1>1, <1>6, OperandsKnown
  <2>2. Inst \in Instructions /\ Fits(Inst) /\ Valued(Inst, U)
    BY <1>2, <1>5, <2>1, InstructionsTyped DEF Inst, WellFormed
  <2>3. \A k \in DOMAIN Inst.args : Operand(k) = U[Inst.args[k]]
    BY <1>5, <2>1 DEF Known, Operand
  <2> QED
    BY <2>1, <2>2, <2>3 DEF Inst
<1>7. ASSUME at <= Len(ir), Put(Value(Inst, U))
      PROVE  phase' = "solve" /\ Computes(U)'
  <2>1. U[Inst.dest] = Value(Inst, U)
    BY <1>6, <1>7 DEF Valued
  <2>2. \A r \in DOMAIN reg' : reg'[r] = U[r]
    BY <1>5, <1>7, <2>1 DEF Put
  <2>3. phase' = "solve"
    BY <1>1, <1>7 DEF Put
  <2> QED
    BY <1>1, <1>5, <2>2, <2>3 DEF Computes
<1>8. ASSUME at <= Len(ir), Inst.code \in Generators
      PROVE  Operand(1) = U[Inst.args[1]] /\ MayAsk(Inst.code, Operand(1))
  <2>1. Operand(1) = U[Inst.args[1]]
    BY <1>6, <1>8, OperandsOf
  <2> QED
    BY <1>6, <1>8, <2>1 DEF Valued
<1>9. CASE Compute
  <2>1. at <= Len(ir) /\ Inst.code \in Codes \ Generators /\ Put(Computed(Inst))
    BY <1>9 DEF Compute, Solving
  <2>2. Computed(Inst) = Value(Inst, U)
    <3>1. CASE Inst.code \in Binaries
      <4>1. Operand(1) = U[Inst.args[1]] /\ Operand(2) = U[Inst.args[2]]
        BY <1>6, <2>1, <3>1, OperandsOf
      <4>2. Inst.code \notin {"toggle", "nop", "set"}
        BY <3>1 DEF Binaries
      <4>3. Computed(Inst) = Combined(Inst.code, Operand(1), Operand(2))
        BY <3>1, <4>2, Zenon DEF Computed
      <4> QED
        BY <1>6, <2>1, <3>1, <4>1, <4>3, ValueIs
    <3>2. CASE Inst.code \in Twice
      <4>1. Operand(1) = U[Inst.args[1]]
        BY <1>6, <2>1, <3>2, OperandsOf DEF Copies, Unaries, Twice
      <4> QED
        BY <1>6, <2>1, <3>2, <4>1, ValueIs DEF Computed, Binaries, Twice
    <3>3. CASE Inst.code = "set"
      BY <1>6, <2>1, <3>3, ValueIs DEF Computed, Binaries
    <3> QED
      BY <2>1, <3>1, <3>2, <3>3 DEF Codes, Unaries, Twice
  <2>3. phase' = "solve" /\ Computes(U)'
    BY <1>7, <2>1, <2>2
  <2> QED
    BY <2>3
<1>10. CASE Request
  <2>1. at <= Len(ir) /\ Inst.code \in Generators /\ Put(Listed(Inst.code, Operand(1), Inst.cs))
    <3>1. PICK titles : Put(titles) /\ cut' = (cut \/ titles # Listed(Inst.code, Operand(1), Inst.cs))
      BY <1>10 DEF Request
    <3>2. titles = Listed(Inst.code, Operand(1), Inst.cs)
      BY <1>3, <3>1
    <3> QED
      BY <1>10, <3>1, <3>2 DEF Request, Solving
  <2>2. Listed(Inst.code, Operand(1), Inst.cs) = Value(Inst, U)
    BY <1>6, <1>8, <2>1, ValueIs
  <2>3. phase' = "solve" /\ Computes(U)'
    BY <1>7, <2>1, <2>2
  <2> QED
    BY <2>3
<1>11. ~GiveUp
  <2>1. SUFFICES ASSUME GiveUp PROVE FALSE
    OBVIOUS
  <2>2. at <= Len(ir)
    BY <2>1 DEF GiveUp, Solving
  <2>3. Known
    BY <1>1, <2>2, OperandsKnown
  <2>4. Inst.code \in Generators /\ ~MayAsk(Inst.code, Operand(1))
    BY <2>1, <2>3 DEF GiveUp
  <2> QED
    BY <1>8, <2>2, <2>4
<1>12. CASE RequestFails
  <2>1. phase' = "failed"
    BY <1>12 DEF RequestFails, Ends
  <2> QED
    BY <2>1
<1>13. CASE Finish
  <2>1. at > Len(ir) /\ at \in 1 .. Len(ir) + 1
    BY <1>1, <1>13 DEF Finish, Looked, Shaped, TypeOK
  <2>2. Len(ir) \in 1 .. at - 1
    BY <1>2, <2>1
  <2>3. result \in DOMAIN reg
    BY <1>1, <1>2, <2>2 DEF Shaped
  <2>4. phase' = "solved" /\ reg' = reg
    BY <1>13, <2>3 DEF Finish, Ends
  <2>5. reg'[result] = AnswerAt(expr, Len(expr))
    BY <1>5, <2>3, <2>4
  <2> QED
    BY <2>4, <2>5
<1> QED
  BY <1>9, <1>10, <1>11, <1>12, <1>13 DEF Solve

LEMMA NextAnswering == ASSUME Shaped, Merging, Answering, [Next]_vars PROVE Answering'
<1>1. CASE Optimise
  BY <1>1, TalkAnswering, EmptyAnswering, ClearAnswering, NopAnswering, NextPassAnswering
     DEF Optimise
<1>2. CASE UNCHANGED vars
  <2>1. UNCHANGED <<expr, phase, stack, ir, result, reg, cut>>
    BY <1>2 DEF vars
  <2>2. \A U : Computes(U)' <=> Computes(U)
    BY <2>1 DEF Computes
  <2> QED
    BY <2>1, <2>2 DEF Answering, Claimed
<1> QED
  BY <1>1, <1>2, ConvertAnswering, SolveAnswering DEF Next

LEMMA AnsweringImplies == Shaped /\ Answering => AnswersQuery
<1> SUFFICES ASSUME Shaped, Answering, Meaning(expr) # {}
             PROVE  /\ phase # "rejected"
                    /\ ~cut /\ ResolvesUnfiltered(expr) =>
                         /\ phase = "solved" => Meaning(expr) \in {{}, {reg[result]}}
                         /\ phase # "wrong"
  BY DEF AnswersQuery
<1>1. Meaning(expr) = {AnswerAt(expr, Len(expr))}
  BY AnswersAre, ShapedTypes
<1> QED
  BY <1>1 DEF Answering, Claimed

(* Whatever the query and whatever the wiki lists, a query that has a      *)
(* meaning is not rejected.  If besides no limit cuts a listing short, and *)
(* no filter by namespace applies to a request that resolves redirects, it *)
(* does not ask wrongly either, and if it is solved its answer is what it  *)
(* means: handing constraints to operands and the three passes change      *)
(* nothing.                                                                *)
THEOREM AnswersAreMeant == Spec => []AnswersQuery
<1>1. Init => Shaped /\ Merging /\ Answering
  BY InitShaped, InitMerging DEF Init, Answering
<1>2. Shaped /\ Merging /\ Answering /\ [Next]_vars => (Shaped /\ Merging /\ Answering)'
  BY NextShaped, NextMerging, NextAnswering
<1> QED
  BY <1>1, <1>2, AnsweringImplies, PTL DEF Spec
=============================================================================
