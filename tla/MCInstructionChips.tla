------------------------- MODULE MCInstructionChips -------------------------
(***************************************************************************)
(* Words of two limbs of four bits (the field then has FieldOrder = 113),  *)
(* and of four such limbs for memory.  The operands are the ends of the    *)
(* signed and unsigned ranges, the order of the field and the words next   *)
(* to them.                                                                *)
(***************************************************************************)
EXTENDS InstructionChips

Instr(op, a, b, c, hi, rz, mem) ==
    [op |-> op, a |-> IF rz THEN 0 ELSE a, b |-> b, c |-> c, hi |-> hi, rz |-> rz,
     mem |-> mem]

Edges == {0, 1, 2, 7, 8, 113, 127, 128, 142, 240, 255}
Few == {0, 1, 7, 127, 128, 255}

AluInputs ==
    {Instr(op, 5, b, c, 9, FALSE, 0) : op \in AluOps \ (DivRemOps \union CloClzOps),
                                       b \in Edges, c \in Edges}
      \union {Instr(op, 5, b, c, 9, FALSE, 0) : op \in DivRemOps, b \in Few, c \in Few}
      \union {Instr(op, 5, b, 0, 9, FALSE, 0) : op \in CloClzOps, b \in Edges}
      \union {Instr(op, 5, 128, 3, 9, TRUE, 0) : op \in {"ADD", "MULT", "DIV"}}

MiscInputs ==
    {Instr(op, a, b, c, hi, FALSE, 0) : op \in MaddsubOps, a \in {0, 255}, b \in Few,
                                        c \in Few, hi \in {0, 255}}
      \union {Instr("INS", a, b, c, 9, FALSE, 0) : a \in {90, 255}, b \in {0, 165}, c \in 0 .. 63}
      \union {Instr("EXT", 5, b, c, 9, FALSE, 0) : b \in {165, 255}, c \in 0 .. 63}
      \union {Instr("TEQ", a, b, 0, 9, rz, 0) : a \in Few, b \in Few, rz \in BOOLEAN}
      \union {Instr(op, 5, b, c, 9, FALSE, 0) : op \in {"MEQ", "MNE"}, b \in Few, c \in Few}
      \union {Instr("SEXT", 5, b, c, 9, FALSE, 0) : b \in {0, 247, 120, 36721}, c \in {0, 1}}
      \union {Instr("WSBH", 5, b, 0, 9, FALSE, 0) : b \in {4660, 36721}}

\* 36721 is 16#8F71, 4660 is 16#1234 and 43981 is 16#ABCD; 28672 is MAX_MEMORY.
MemoryInputs ==
    {Instr(op, 43981, b, c, 9, rz, mem) : op \in LoadOps \union StoreOps,
        b \in {2, 8, 28668, 65532}, c \in {0, 1, 2, 3, 8}, rz \in BOOLEAN,
        mem \in {4660, 36721}}

\* A syscall; the program image sets BRK and HEAP.
Call(op, a0, a1, regs) == Instr(op, CodeOf(op), a0, a1, 9, FALSE, regs)
Regs == [a2 |-> 1024, a3 |-> 2048, brk |-> 500, heap |-> 8192, image_brk |-> 500, len |-> 36]

ControlInputs ==
    {Instr(op, a, b, c, 9, FALSE, 0) : op \in {"BEQ", "BNE"}, a \in Few, b \in Few,
                                       c \in {8, 140, 244}}
      \union {Instr(op, a, 0, c, 9, rz, 0) : op \in BranchOps \ {"BEQ", "BNE"}, a \in Few,
                                             c \in {8, 140, 244}, rz \in BOOLEAN}
      \union {Instr(op, 5, b, 0, 9, rz, 0) : op \in JumpOps, b \in {0, 8, 40, 112, 113, 244},
                                             rz \in BOOLEAN}
      \union {Call(op, b, 0, Regs) : op \in HaltOps \union {"WRITE"}, b \in {0, 1, 28672, 28673}}

\* Programs of several cycles: taken and untaken branches, a link, a
\* straight instruction and the two kinds of syscall, in every order.
ProgramInputs ==
    {Instr("BEQ", 1, 1, 24, 9, FALSE, 0), Instr("BNE", 1, 1, 24, 9, FALSE, 0),
     Instr("JumpDirect", 5, 32, 0, 9, FALSE, 0), Instr("ADD", 5, 1, 2, 9, FALSE, 0),
     Call("WRITE", 0, 0, Regs), Call("HALT", 0, 0, Regs)}

\* 28673 to 28676 are 0 to 3 in the field; 64 is a page and 65473 the first
\* size that overflows; 16884 is the end of the heap.
LinuxInputs ==
    {Call(op, a0, a1, Regs) : op \in LinuxOps, a0 \in {0, 1, 2, 3, 28672, 28673, 28675, 65535},
                              a1 \in {0, 1, 2, 3, 28674, 28676}}
      \union {Call("SYS_BRK", a0, 0, Regs) : a0 \in {499, 500, 501, 4096, 16884, 16885}}
      \union {Call(op, a0, a1, [Regs EXCEPT !.heap = h]) : op \in MmapOps, a0 \in {0, 64},
                 a1 \in {0, 1, 63, 64, 65, 255, 256, 4032, 4033, 65472, 65473, 65535},
                 h \in {8192, 65472}}

OtherCallInputs ==
    {Call(op, b, c, Regs) : op \in {"COMMIT", "COMMIT_DEFERRED_PROOFS"},
        b \in {0, 7, 8, 16, 23, 28673, 65535}, c \in {0, 28672, 28673}}
      \union {Call(op, b, 0, Regs) : op \in {"ENTER_UNCONSTRAINED", "VERIFY_ZKM_PROOF",
                 "SYSHINTREAD", "SYSVERIFY", "UNIMPLEMENTED"}, b \in {0, 28673}}
      \union {Call("SYSHINTLEN", 0, 0, [Regs EXCEPT !.len = n]) : n \in {0, 5, 65535}}

\* Operands that are apart, equal, overlapping on either side, and at the
\* last address.
Pointers == {<<256, 4096>>, <<256, 256>>, <<256, 260>>, <<256, 288>>, <<256, 352>>, <<256, 192>>,
             <<256, 28640>>, <<28672, 256>>, <<256, 28673>>, <<28932, 4096>>}

PrecompileInputs ==
    {Call(op, p[1], p[2], Regs)
        : op \in EcAddOps \union FpOps \union Fp2AddSubOps \union Fp2MulOps
                   \union {"UINT256_MUL", "SHA_COMPRESS"}, p \in Pointers}
      \union {Call(op, p, c, Regs)
        : op \in EcDoubleOps \union EcDecompressOps \union {"SHA_EXTEND", "POSEIDON2_PERMUTE"},
          p \in {256, 28600, 28932}, c \in {0, 1, 2}}
      \union {Call("KECCAK_SPONGE", p[1], p[2], [Regs EXCEPT !.len = n])
        : p \in Pointers, n \in {0, 36, 37, 72, 108}}
      \union {Call("U256XU2048_MUL", 256, b, [Regs EXCEPT !.a2 = lo, !.a3 = hi])
        : b \in {256, 512}, lo \in {512, 1024, 28673}, hi \in {256, 1152, 2048, 28644}}

MCInputs ==
    [alu     |-> [instrs |-> AluInputs, cycles |-> 1, starts |-> {4}],
     misc    |-> [instrs |-> MiscInputs, cycles |-> 1, starts |-> {4}],
     memory  |-> [instrs |-> MemoryInputs, cycles |-> 1, starts |-> {4}],
     control |-> [instrs |-> ControlInputs, cycles |-> 1, starts |-> {4, 100, 104}],
     linux   |-> [instrs |-> LinuxInputs \union OtherCallInputs, cycles |-> 1, starts |-> {4}],
     precompiles |-> [instrs |-> PrecompileInputs, cycles |-> 1, starts |-> {4}],
     program |-> [instrs |-> ProgramInputs, cycles |-> 4, starts |-> {4}]]

\* One call of a precompile that is executed and has rows in its own chip.
OnePrecompile ==
    [precompile |-> [instrs |-> {Call("POSEIDON2_PERMUTE", 256, 0, Regs)}, cycles |-> 1,
                     starts |-> {4}]]
=============================================================================
