----------------------------- MODULE TickKernel -----------------------------
(***************************************************************************)
(* A periodic tick made with COUNT and COMPARE: a handler that adds the    *)
(* period to the time it expected, reads COUNT back and starts again from  *)
(* COUNT when it came too late; a program that now and then masks          *)
(* interrupts for a while.  The program is external to the simulator, as   *)
(* in TlbKernel; coprocessor 0 has its exact arithmetic here, since it     *)
(* compares COUNT and COMPARE for equality only (cp0.cc:93).               *)
(***************************************************************************)
EXTENDS Cp0

CONSTANTS
  Period,        \* what the handler adds to COMPARE
  TicksPerInst,  \* steps of coprocessor 0 in one instruction: one, and with
                 \* option -m one cycle in three
  MaxMasked      \* most instructions with interrupts masked

(* The handler must be able to tell late from early, and to be in time.    *)
ASSUME TickAssumption ==
  /\ Period \in Nat \ {0} /\ MaxMasked \in Nat
  /\ TicksPerInst \subseteq {1, 2, 3}
  /\ Period > 3 /\ 2 * (3 * (MaxMasked + 4) + Period) < CountMod

VARIABLES
  at,       \* where the CPU is
  expire,   \* what the handler wrote to COMPARE
  masked    \* instructions before the program unmasks interrupts again

tickVars == <<tlb, r, at, expire, masked>>

(* After the boot, at any value of COUNT.                                  *)
TickInit ==
  /\ tlb = [x \in Entry |-> ZeroEntry]
  /\ \E now \in 0 .. CountMod - 1 :
       /\ expire = (now + Period) % CountMod
       /\ r = [ZeroRegs EXCEPT !.count = now,
                               !.compare = (now + Period) % CountMod,
                               !.cause.iv = TRUE,
                               !.sr.ie = TRUE,
                               !.sr.im = {COMPARE_CONNECTED}]
  /\ at = "work"
  /\ masked = 0

Ticks(regs) ==
  r' \in {(CASE n = 1 -> Step(regs)
             [] n = 2 -> Step(Step(regs))
             [] n = 3 -> Step(Step(Step(regs)))) : n \in TicksPerInst}

Late(now) == (now - expire) % CountMod < CountMod \div 2

TickInterrupt ==
  /\ CheckInterrupt(r)
  /\ at' = Vector(r, "INT", FALSE)
  /\ Ticks(DoException(r, "INT", at, 0, FALSE))
  /\ UNCHANGED <<tlb, expire, masked>>

Work ==
  /\ at = "work" /\ r.sr.ie /\ ~ CheckInterrupt(r)
  /\ \/ Ticks(r) /\ UNCHANGED masked
     \/ masked' \in 1 .. MaxMasked /\ Ticks([r EXCEPT !.sr.ie = FALSE])
  /\ UNCHANGED <<tlb, at, expire>>

WorkMasked ==
  /\ at = "work" /\ ~ r.sr.ie
  /\ masked' = masked - 1
  /\ Ticks([r EXCEPT !.sr.ie = (masked = 1)])
  /\ UNCHANGED <<tlb, at, expire>>

TickWrite ==
  /\ at = "int"
  /\ at' = "check"
  /\ expire' = (expire + Period) % CountMod
  /\ Ticks(WriteCompare(r, expire'))
  /\ UNCHANGED <<tlb, masked>>

TickAgain ==
  /\ at = "check" /\ Late(r.count)
  /\ expire' = (r.count + Period) % CountMod
  /\ Ticks(WriteCompare(r, expire'))
  /\ UNCHANGED <<tlb, at, masked>>

TickReturn ==
  /\ at = "check" /\ ~ Late(r.count)
  /\ at' = r.epc
  /\ Ticks(Eret(r))
  /\ UNCHANGED <<tlb, expire, masked>>

TickNext == TickInterrupt \/ Work \/ WorkMasked
              \/ TickWrite \/ TickAgain \/ TickReturn

TickSpec == TickInit /\ [][TickNext]_tickVars /\ WF_tickVars(TickNext)
-----------------------------------------------------------------------------
(***************************************************************************)
(* The next tick is never lost: while the program runs it is pending, or   *)
(* COUNT will meet COMPARE within a period, not only after it has wrapped  *)
(* around, however late the handler came.                                  *)
(***************************************************************************)
NextTick ==
  at = "work" => \/ COMPARE_CONNECTED \in r.cause.ip
                 \/ (r.compare - r.count) % CountMod \in 1 .. Period
=============================================================================
