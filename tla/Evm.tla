-------------------------------- MODULE Evm --------------------------------
(***************************************************************************)
(* qc-11: the bytecode interpreter and the service around it.  Words have  *)
(* WordBits bits and bytes ByteBits, so that every operand can be tried;   *)
(* a byte of code is a number that Opcode reads as an instruction, whether *)
(* it is one or the operand of a PUSH.  One step executes one instruction; *)
(* the service runs one execution at a time, because it holds the access   *)
(* list.  Opcodes that the interpreter answers with "Not implemented" are  *)
(* one opcode, OTHER, and so are those that push a word of the context.    *)
(***************************************************************************)
EXTENDS Integers, Sequences, FiniteSets, SequencesExt, FiniteSetsExt, Bitwise

CONSTANTS
    WordBits, ByteBits,
    UsizeBits,                  \* the width of usize and u64, less than that of a word
    Opcode,                     \* byte -> opcode (Opcode::from_byte)
    Programs, GasLimits, MaxGasLimit,
    BaseGas,                    \* opcode -> OPCODE_GAS
    ColdSload, WarmSload, SstoreSet, ExpByte, LogData,
    MaxStackSize, MaxMemorySize,
    ContextWord,                \* the word an environment opcode pushes
    MaxExecutions

VARIABLES
    storage,                    \* the contract's storage: word -> word (InMemoryState)
    warm,                       \* warm slots of the access list
    vm,                         \* the interpreter, or Idle
    result,                     \* the answer to the last execution
    stats, executions,
    before                      \* storage when the execution began (history)

vars == <<storage, warm, vm, result, stats, executions, before>>

W == 2^WordBits
Word == 0..(W - 1)
WordBytes == WordBits \div ByteBits
Usize == 2^UsizeBits
Idle == [status |-> "idle"]

Init ==
    /\ storage = [k \in Word |-> 0]
    /\ warm = {}
    /\ vm = Idle
    /\ result = [kind |-> "none"]
    /\ stats = [executed |-> 0, successful |-> 0, failed |-> 0, rejected |-> 0]
    /\ executions = 0
    /\ before = [k \in Word |-> 0]

-----------------------------------------------------------------------------
(* exec_arithmetic, exec_comparison, exec_bitwise.                           *)

Negative(a) == a >= W \div 2
Flag(b) == IF b THEN 1 ELSE 0
Complement(a) == W - 1 - a
ShiftLeft(a, n) == IF n >= WordBits THEN 0 ELSE (a * 2^n) % W
ShiftRight(a, n) == IF n >= WordBits THEN 0 ELSE a \div 2^n

Power(a, n) == LET p[i \in 0..n] == IF i = 0 THEN 1 ELSE (p[i - 1] * a) % W IN p[n]

Slt(a, b) == IF Negative(a) # Negative(b) THEN Negative(a) ELSE a < b

(* Variant: the sign is not shifted in.                                      *)
SarUnsigned(value, shift) == ShiftRight(value, shift)

Sar(value, shift) ==
    IF shift >= WordBits THEN (IF Negative(value) THEN W - 1 ELSE 0)
    ELSE IF Negative(value) THEN ShiftRight(value, shift) | ShiftLeft(W - 1, WordBits - shift)
    ELSE ShiftRight(value, shift)

(* The index of the sign bit is a usize.                                     *)
SignExtend(k, x) ==
    LET bit == (k * ByteBits + ByteBits - 1) % Usize
        mask == 2^(bit + 1) - 1
    IN  IF bit >= WordBits THEN x
        ELSE IF (x \div 2^bit) % 2 = 1 THEN x | (W - 1 - mask) ELSE x & mask

Arity == [ADD |-> 2, MUL |-> 2, SUB |-> 2, DIV |-> 2, SDIV |-> 2, MOD |-> 2, SMOD |-> 2,
          ADDMOD |-> 3, MULMOD |-> 3, EXP |-> 2, SIGNEXTEND |-> 2,
          LT |-> 2, GT |-> 2, SLT |-> 2, SGT |-> 2, EQ |-> 2, ISZERO |-> 1,
          AND |-> 2, OR |-> 2, XOR |-> 2, NOT |-> 1, BYTE |-> 2, SHL |-> 2, SHR |-> 2, SAR |-> 2]

(* x[1] is the top of the stack.                                             *)
Alu(op, x) ==
    CASE op = "ADD" -> (x[1] + x[2]) % W
      [] op = "MUL" -> (x[1] * x[2]) % W
      [] op = "SUB" -> (W + x[1] - x[2]) % W
      [] op \in {"DIV", "SDIV"} -> IF x[2] = 0 THEN 0 ELSE x[1] \div x[2]
      [] op \in {"MOD", "SMOD"} -> IF x[2] = 0 THEN 0 ELSE x[1] % x[2]
      [] op = "ADDMOD" -> IF x[3] = 0 THEN 0 ELSE (x[1] + x[2]) % x[3]
      [] op = "MULMOD" -> IF x[3] = 0 THEN 0 ELSE (x[1] * x[2]) % x[3]
      [] op = "EXP" -> Power(x[1], x[2])
      [] op = "SIGNEXTEND" -> SignExtend(x[1], x[2])
      [] op = "LT" -> Flag(x[1] < x[2])
      [] op = "GT" -> Flag(x[1] > x[2])
      [] op = "SLT" -> Flag(Slt(x[1], x[2]))
      [] op = "SGT" -> Flag(Slt(x[2], x[1]))
      [] op = "EQ" -> Flag(x[1] = x[2])
      [] op = "ISZERO" -> Flag(x[1] = 0)
      [] op = "AND" -> x[1] & x[2]
      [] op = "OR" -> x[1] | x[2]
      [] op = "XOR" -> x[1] ^^ x[2]
      [] op = "NOT" -> Complement(x[1])
      [] op = "BYTE" -> IF x[1] > WordBytes - 1 THEN 0
                        ELSE (x[2] \div 2^(ByteBits * (WordBytes - 1 - x[1]))) % 2^ByteBits
      [] op = "SHL" -> ShiftLeft(x[2], x[1])
      [] op = "SHR" -> ShiftRight(x[2], x[1])
      [] op = "SAR" -> Sar(x[2], x[1])

(* U256 addition and multiplication abort on overflow, and so does as_usize  *)
(* on a word that is too large, which the shifts of U256 call as well.       *)
Panics(op, x) ==
    \/ op = "ADDMOD" /\ x[3] # 0 /\ x[1] + x[2] >= W
    \/ op = "MULMOD" /\ x[3] # 0 /\ x[1] * x[2] >= W
    \/ op \in {"SIGNEXTEND", "SHL", "SHR"} /\ x[1] >= Usize

(* Arithmetic on usize aborts on overflow in a debug build and wraps around  *)
(* in a release build: either may happen.                                    *)
Wraps(op, x) == op = "SIGNEXTEND" /\ x[1] * ByteBits + ByteBits - 1 >= Usize

ByteLength(a) == Min({n \in 0..WordBytes : a < 2^(ByteBits * n)})

-----------------------------------------------------------------------------
(* Code: push_size, and the instructions that sequential execution reaches.  *)

PushSize(op) == IF op = "PUSH1" THEN 1 ELSE 0
At(code, i) == Opcode[code[i + 1]]

InstructionStarts(code) ==
    FoldLeft(LAMBDA scan, i : IF i # scan.next THEN scan
                              ELSE [next |-> i + 1 + PushSize(At(code, i)), starts |-> scan.starts \cup {i}],
             [next |-> 0, starts |-> {}], [i \in 1..Len(code) |-> i - 1]).starts

(* Variant: the operands of PUSH are scanned like instructions.              *)
AnalyzeAllBytes(code) == {i \in 0..(Len(code) - 1) : At(code, i) = "JUMPDEST"}

AnalyzeJumpDests(code) == {i \in InstructionStarts(code) : At(code, i) = "JUMPDEST"}

-----------------------------------------------------------------------------
(* Memory grows by whole words, and reads beyond it are zero.                *)

Expand(memory, size) ==
    LET words == (size + WordBytes - 1) \div WordBytes
        bytes == words * WordBytes
    IN  IF size <= Len(memory) THEN memory
        ELSE memory \o [i \in 1..(bytes - Len(memory)) |-> 0]

ReadWord(memory, offset) ==
    LET byte(i) == IF offset + i \in DOMAIN memory THEN memory[offset + i] ELSE 0
        value[i \in 0..WordBytes] == IF i = 0 THEN 0 ELSE value[i - 1] * 2^ByteBits + byte(i)
    IN  value[WordBytes]

WriteWord(memory, offset, value) ==
    [i \in DOMAIN memory |->
        IF i \in (offset + 1)..(offset + WordBytes)
        THEN (value \div 2^(ByteBits * (WordBytes - (i - offset)))) % 2^ByteBits
        ELSE memory[i]]

-----------------------------------------------------------------------------
(* The entries of the service: a transaction of an authorized sender, a      *)
(* read-only call, an estimate.  Each builds a context and an interpreter.   *)

Begin(kind, code, gas_limit) ==
    /\ executions < MaxExecutions
    /\ vm' = [status |-> "running", kind |-> kind, code |-> code, pc |-> 0, stack |-> <<>>, memory |-> <<>>,
              gas |-> gas_limit, gas_limit |-> gas_limit, is_static |-> kind = "call",
              changes |-> <<>>, logs |-> 0]
    /\ executions' = executions + 1
    /\ before' = storage
    /\ UNCHANGED <<storage, warm, result, stats>>

Rejected ==
    /\ vm = Idle /\ executions < MaxExecutions
    /\ stats' = [stats EXCEPT !.rejected = @ + 1]
    /\ executions' = executions + 1
    /\ UNCHANGED <<storage, warm, vm, result, before>>

Running == vm.status = "running"
AtEnd == vm.pc >= Len(vm.code)
Op == At(vm.code, vm.pc)
Has(n) == Len(vm.stack) >= n
Arg(i) == vm.stack[Len(vm.stack) + 1 - i]
Rest(n) == SubSeq(vm.stack, 1, Len(vm.stack) - n)
Paid == vm.gas - BaseGas[Op]
Fetched == Running /\ ~AtEnd /\ Paid >= 0

Count(success) ==
    stats' = IF vm.kind # "transaction" THEN stats
             ELSE [stats EXCEPT !.executed = @ + 1,
                                !.successful = @ + IF success THEN 1 ELSE 0,
                                !.failed = @ + IF success THEN 0 ELSE 1]

(* An error ends the execution, and a transaction pays its whole gas limit.  *)
(* A panic unwinds through the handler.                                      *)
Fail(error) ==
    /\ vm' = Idle
    /\ result' = [kind |-> vm.kind, success |-> FALSE, error |-> error, gas_used |-> vm.gas_limit, changes |-> <<>>]
    /\ IF error = "Panic" THEN UNCHANGED stats ELSE Count(FALSE)
    /\ UNCHANGED <<executions, before>>

Succeed(gas) ==
    LET used == vm.gas_limit - gas IN
    /\ vm' = Idle
    /\ result' = [kind |-> vm.kind, success |-> TRUE, error |-> "none",
                  gas_used |-> IF vm.kind = "estimate" THEN used + used \div 10 ELSE used,
                  changes |-> vm.changes]
    /\ Count(TRUE)
    /\ UNCHANGED <<executions, before>>

Continue(stack, pc, gas) ==
    /\ vm' = [vm EXCEPT !.stack = stack, !.pc = pc, !.gas = gas]
    /\ UNCHANGED <<result, stats, executions, before>>

PushOr(n, value, pc, gas) ==
    IF Len(vm.stack) - n >= MaxStackSize THEN Fail("StackOverflow")
    ELSE Continue(Append(Rest(n), value), pc, gas)

-----------------------------------------------------------------------------
(* Interpreter::execute and execute_opcode, one action per family.           *)

Leave ==
    /\ Running
    /\ \/ AtEnd /\ Succeed(vm.gas)
       \/ ~AtEnd /\ Paid < 0 /\ Fail("OutOfGas")
    /\ UNCHANGED <<storage, warm>>

ExecAlu ==
    /\ Fetched /\ Op \in DOMAIN Arity
    /\ LET n == Arity[Op]
           args == [i \in 1..n |-> Arg(i)]
           dynamic_gas == IF Op = "EXP" THEN ExpByte * ByteLength(Arg(2)) ELSE 0
       IN  IF ~Has(n) THEN Fail("StackUnderflow")
           ELSE IF Paid < dynamic_gas THEN Fail("OutOfGas")
           ELSE IF Panics(Op, args) THEN Fail("Panic")
           ELSE \/ Wraps(Op, args) /\ Fail("Panic")
                \/ PushOr(n, Alu(Op, args), vm.pc + 1, Paid - dynamic_gas)
    /\ UNCHANGED <<storage, warm>>

PushedValue ==
    CASE Op = "PUSH0" -> 0
      [] Op = "PUSH1" -> IF vm.pc + 1 < Len(vm.code) THEN vm.code[vm.pc + 2] ELSE 0
      [] Op = "ENV" -> ContextWord
      [] Op = "PC" -> vm.pc
      [] Op = "GAS" -> Paid % W
      [] Op = "MSIZE" -> Len(vm.memory)

ExecPush ==
    /\ Fetched /\ Op \in {"PUSH0", "PUSH1", "ENV", "PC", "GAS", "MSIZE"}
    /\ PushOr(0, PushedValue, vm.pc + 1 + PushSize(Op), Paid)
    /\ UNCHANGED <<storage, warm>>

ExecStack ==
    /\ Fetched /\ Op \in {"POP", "DUP1", "SWAP1"}
    /\ IF ~Has(IF Op = "SWAP1" THEN 2 ELSE 1) THEN Fail("StackUnderflow")
       ELSE CASE Op = "POP" -> Continue(Rest(1), vm.pc + 1, Paid)
              [] Op = "DUP1" -> PushOr(0, Arg(1), vm.pc + 1, Paid)
              [] Op = "SWAP1" -> Continue(Rest(2) \o <<Arg(1), Arg(2)>>, vm.pc + 1, Paid)
    /\ UNCHANGED <<storage, warm>>

(* pop()?.as_usize() of the first n words, each before the next is popped.   *)
Aborts(n) == \E i \in 1..n : Has(i) /\ Arg(i) >= Usize

TooLarge(size) == size > Len(vm.memory) /\ size > MaxMemorySize

(* memory.expand(offset + size)?, and then what the instruction does.        *)
End(offset, size) == (offset + size) % Usize

Reach(offset, size, Done) ==
    \/ offset + size >= Usize /\ Fail("Panic")
    \/ IF TooLarge(End(offset, size)) THEN Fail("MemoryLimitExceeded") ELSE Done

(* A word that would end behind the last address is read as zero, and a      *)
(* store to it aborts.                                                       *)
ExecMemory ==
    /\ Fetched /\ Op \in {"MLOAD", "MSTORE"}
    /\ LET n == IF Op = "MLOAD" THEN 1 ELSE 2
           end == End(Arg(1), WordBytes)
           memory == Expand(vm.memory, end)
           Done ==
               IF Op = "MSTORE" /\ end < Arg(1) THEN Fail("Panic")
               ELSE /\ vm' = [vm EXCEPT !.pc = @ + 1, !.gas = Paid,
                                !.memory = IF Op = "MLOAD" THEN memory ELSE WriteWord(memory, Arg(1), Arg(2)),
                                !.stack = IF Op = "MLOAD" THEN Append(Rest(1), ReadWord(memory, Arg(1))) ELSE Rest(2)]
                    /\ UNCHANGED <<result, stats, executions, before>>
       IN  IF Aborts(1) THEN Fail("Panic")
           ELSE IF ~Has(n) THEN Fail("StackUnderflow")
           ELSE Reach(Arg(1), WordBytes, Done)
    /\ UNCHANGED <<storage, warm>>

(* The destination is converted whether the jump is taken or not.            *)
ExecJump ==
    /\ Fetched /\ Op \in {"JUMP", "JUMPI", "JUMPDEST"}
    /\ LET n == CASE Op = "JUMP" -> 1 [] Op = "JUMPI" -> 2 [] Op = "JUMPDEST" -> 0
           taken == Op = "JUMP" \/ (Op = "JUMPI" /\ Arg(2) # 0)
       IN  IF n > 0 /\ Aborts(1) THEN Fail("Panic")
           ELSE IF ~Has(n) THEN Fail("StackUnderflow")
           ELSE IF ~taken THEN Continue(Rest(n), vm.pc + 1, Paid)
           ELSE IF Arg(1) \notin AnalyzeJumpDests(vm.code) THEN Fail("InvalidJump")
           ELSE Continue(Rest(n), Arg(1), Paid)
    /\ UNCHANGED <<storage, warm>>


MayWrite == ~vm.is_static

AccessCost(key) == IF key \in warm THEN WarmSload ELSE ColdSload

SLoad ==
    /\ Fetched /\ Op = "SLOAD"
    /\ IF ~Has(1) THEN Fail("StackUnderflow") /\ UNCHANGED warm
       ELSE /\ warm' = warm \cup {Arg(1)}
            /\ IF Paid < AccessCost(Arg(1)) THEN Fail("OutOfGas")
               ELSE Continue(Append(Rest(1), storage[Arg(1)]), vm.pc + 1, Paid - AccessCost(Arg(1)))
    /\ UNCHANGED storage

(* The value is written to the state at once, and reported as a change.      *)
SStore ==
    /\ Fetched /\ Op = "SSTORE"
    /\ LET cost == AccessCost(Arg(1)) + SstoreSet IN
       IF ~MayWrite \/ ~Has(2)
       THEN Fail(IF ~MayWrite THEN "WriteInStaticContext" ELSE "StackUnderflow") /\ UNCHANGED <<storage, warm>>
       ELSE /\ warm' = warm \cup {Arg(1)}
            /\ IF Paid < cost THEN Fail("OutOfGas") /\ UNCHANGED storage
               ELSE /\ storage' = [storage EXCEPT ![Arg(1)] = Arg(2)]
                    /\ vm' = [vm EXCEPT !.stack = Rest(2), !.pc = @ + 1, !.gas = Paid - cost,
                                 !.changes = Append(@, [kind |-> IF Arg(2) = 0 THEN "StorageDelete" ELSE "StorageWrite",
                                                        key |-> Arg(1), value |-> Arg(2)])]
                    /\ UNCHANGED <<result, stats, executions, before>>

(* A copy of more than isize::MAX bytes cannot be allocated.                 *)
Copied(size, Done) == IF size >= Usize \div 2 THEN Fail("Panic") ELSE Done

(* The price of the data is a u64.                                           *)
ExecLog ==
    /\ Fetched /\ Op = "LOG0"
    /\ LET cost == (LogData * Arg(2)) % Usize
           Done ==
               Copied(Arg(2),
                   /\ vm' = [vm EXCEPT !.stack = Rest(2), !.pc = @ + 1, !.gas = Paid - cost,
                                !.memory = Expand(@, End(Arg(1), Arg(2))), !.logs = @ + 1]
                   /\ UNCHANGED <<result, stats, executions, before>>)
       IN  IF ~MayWrite THEN Fail("WriteInStaticContext")
           ELSE IF Aborts(2) THEN Fail("Panic")
           ELSE IF ~Has(2) THEN Fail("StackUnderflow")
           ELSE \/ LogData * Arg(2) >= Usize /\ Fail("Panic")
                \/ IF Paid < cost THEN Fail("OutOfGas") ELSE Reach(Arg(1), Arg(2), Done)
    /\ UNCHANGED <<storage, warm>>

ExecSystem ==
    /\ Fetched /\ Op \in {"STOP", "RETURN", "REVERT", "INVALID", "OTHER"}
    /\ CASE Op = "STOP" -> Succeed(Paid)
         [] Op \in {"RETURN", "REVERT"} ->
                LET Done == Copied(Arg(2), IF Op = "REVERT" THEN Fail("Revert") ELSE Succeed(Paid)) IN
                IF Aborts(2) THEN Fail("Panic")
                ELSE IF ~Has(2) THEN Fail("StackUnderflow")
                ELSE Reach(Arg(1), Arg(2), Done)
         [] Op = "INVALID" -> Fail("InvalidOpcode")
         [] Op = "OTHER" -> Fail("Internal")
    /\ UNCHANGED <<storage, warm>>

(* The time limit drops a transaction that waits for the state, which may    *)
(* have stored the value by then.                                            *)
Timeout ==
    /\ Fetched /\ vm.kind = "transaction"
    /\ \/ /\ Op = "SLOAD" /\ Has(1) /\ Paid >= AccessCost(Arg(1))
          /\ UNCHANGED storage
       \/ /\ Op = "SSTORE" /\ MayWrite /\ Has(2) /\ Paid >= AccessCost(Arg(1)) + SstoreSet
          /\ storage' \in {storage, [storage EXCEPT ![Arg(1)] = Arg(2)]}
    /\ warm' = warm \cup {Arg(1)}
    /\ Fail("Timeout")

Next ==
    \/ vm = Idle /\ \E kind \in {"transaction", "call"}, code \in Programs, gas \in GasLimits : Begin(kind, code, gas)
    \/ vm = Idle /\ \E code \in Programs : Begin("estimate", code, MaxGasLimit)
    \/ Rejected
    \/ Leave \/ ExecAlu \/ ExecPush \/ ExecStack \/ ExecMemory \/ ExecJump
    \/ SLoad \/ SStore \/ ExecLog \/ ExecSystem \/ Timeout

Spec == Init /\ [][Next]_vars

-----------------------------------------------------------------------------
Signed(a) == IF Negative(a) THEN a - W ELSE a

(* What the operations that are built from others mean.                      *)
Reference(op, x) ==
    CASE op = "SUB" -> (x[1] - x[2]) % W
      [] op = "SLT" -> Flag(Signed(x[1]) < Signed(x[2]))
      [] op = "SGT" -> Flag(Signed(x[1]) > Signed(x[2]))
      [] op = "SAR" -> (Signed(x[2]) \div 2^(Min({x[1], WordBits}))) % W
      [] op = "SIGNEXTEND" ->
             LET m == 2^(Min({(x[1] + 1) * ByteBits, WordBits})) IN
             IF x[2] % m >= m \div 2 THEN ((x[2] % m) - m) % W ELSE x[2] % m
      [] op \in {"SDIV", "SMOD"} ->
             LET a == Max({Signed(x[1]), -Signed(x[1])})
                 b == Max({Signed(x[2]), -Signed(x[2])})
             IN  IF b = 0 THEN 0
                 ELSE IF op = "SMOD" THEN (IF Negative(x[1]) THEN -(a % b) ELSE a % b) % W
                 ELSE (IF Negative(x[1]) # Negative(x[2]) THEN -(a \div b) ELSE a \div b) % W

Operands == [i \in 1..Arity[Op] |-> Arg(i)]

Agrees(ops) ==
    Fetched /\ Op \in ops /\ Has(Arity[Op]) =>
        Panics(Op, Operands) \/ Wraps(Op, Operands) \/ Alu(Op, Operands) = Reference(Op, Operands)


Replayed(s, changes) == FoldLeft(LAMBDA t, c : [t EXCEPT ![c.key] = c.value], s, changes)

(* Whoever replays the reported changes reaches the state of the contract:   *)
(* a successful execution reports exactly what it wrote, in order, and a     *)
(* read-only call writes nothing (exec_storage_ops, call).                   *)
WritesAreReported ==
    /\ Running => Replayed(before, vm.changes) = storage
    /\ vm = Idle /\ result.kind # "none" /\ result.success => Replayed(before, result.changes) = storage
    /\ (Running /\ vm.is_static) => storage = before
    /\ (vm = Idle /\ result.kind = "call") => storage = before

-----------------------------------------------------------------------------
(* What the comments say, and the code does not do.                          *)

(* "On revert, all changes are discarded": what was written before the       *)
(* error stays in the state.                                                 *)
NoStateChangeOnRevert ==
    vm = Idle /\ result.kind # "none" /\ ~result.success => storage = before

(* "Basic signed division placeholder": sdiv and smod divide the words as    *)
(* unsigned ones.                                                            *)
SignedDivision == Agrees({"SDIV", "SMOD"})

(* "Does NOT apply state changes": an estimate runs the code for real.       *)
EstimateIsPure == vm = Idle /\ result.kind = "estimate" => storage = before
=============================================================================
