------------------------------ MODULE Interrupt -----------------------------
(***************************************************************************)
(* From the serial port to the CPU: SerialIO (a simplified ns16550),       *)
(* IntController (two 8259s) and the bit of CAUSE.IP they drive            *)
(* (device.cc, cp0.cc).                                                    *)
(*                                                                         *)
(* Guest is the program on the simulated computer, which may access the    *)
(* registers in any order; SioStep is what IsaIO::step does once a cycle.  *)
(* A register of flags is the set of its flags; the bits of irr, imr and   *)
(* isr are sets of interrupt numbers 0 .. 7.  Characters are numbered in   *)
(* the order they are typed.                                               *)
(***************************************************************************)
EXTENDS Integers, Sequences

CONSTANTS
  Channels,        \* the controllers the guest programs, of 0 and 1
  Masks,           \* the interrupt masks it writes
  SIO_POLL_CYCLE,  \* cycles between two looks at the terminal
  MaxTyped         \* bound on the characters typed

ASSUME InterruptAssumption ==
  /\ Channels \subseteq {0, 1}
  /\ Masks \subseteq SUBSET (0 .. 7)
  /\ SIO_POLL_CYCLE \in Nat \ {0}
  /\ MaxTyped \in Nat

PIC_CONNECTED == 2   \* the line of the second controller on the first
SIO_CONNECTED == 4   \* the line of the serial port

VARIABLES
  irr, imr, isr,     \* IntController, per controller 0 and 1
  init_mode,
  ip,                \* the bit PIC_CONNECTED of CAUSE.IP
  ip_read,           \* its value in the last CAUSE the guest has read
  ip_written,        \* the guest has written it since recalcirq set it
  ier, iir,          \* SerialIO: subsets of {RX, TX} and of {RX, TX, NP}
  div,               \* lcr & SIO_LCR_DIV
  int,               \* mcr & SIO_MCR_INT
  counter,
  currentchar,       \* -1 for none
  typed,             \* characters that have come in from the terminal
  taken,             \* those of them SerialIO has read
  given,             \* the characters the guest has read from RBR
  dropped            \* an EOI has dropped the request of the serial port
                     \* since SerialIO last raised or withdrew it

pic == <<irr, imr, isr, init_mode>>
cause == <<ip, ip_read, ip_written>>
lines == <<pic, cause>>
sio == <<ier, iir, div, int>>
chars == <<currentchar, typed, taken, given>>
vars == <<lines, sio, counter, chars, dropped>>

Init ==
  /\ irr = [ch \in 0 .. 1 |-> {}] /\ isr = irr
  /\ imr = [ch \in 0 .. 1 |-> 0 .. 7]
  /\ init_mode = [ch \in 0 .. 1 |-> 0]
  /\ ip = FALSE /\ ip_read = FALSE /\ ip_written = FALSE
  /\ ier = {} /\ iir = {"NP"} /\ div = FALSE /\ int = FALSE
  /\ counter = 0 /\ currentchar = -1
  /\ typed = 0 /\ taken = 0 /\ given = <<>> /\ dropped = FALSE

----------------------------------------------------------------------------
Lowest(requests) == {i \in requests : \A j \in requests : i <= j}
Pending(enabled, status) == enabled \cap status \cap {"RX", "TX"} # {}

----------------------------------------------------------------------------
(* Faulty variants of definitions of the next section.                     *)

WriteMaskQuietly(ch, mask) ==
  /\ init_mode[ch] = 0
  /\ imr' = [imr EXCEPT ![ch] = mask]
  /\ UNCHANGED <<irr, isr, init_mode, cause, dropped, sio, chars>>

----------------------------------------------------------------------------
(* IntController.                                                          *)

(* recalcirq, with irr and imr as the caller has just left them: the       *)
(* second controller requests on line 2 of the first, each controller      *)
(* serves its lowest unmasked request, and the first drives the CPU.       *)
Recalc(requests, masks) ==
  LET cascade == IF requests[1] \ masks[1] # {} THEN {PIC_CONNECTED} ELSE {}
  IN /\ irr' = [requests EXCEPT ![0] = (@ \ {PIC_CONNECTED}) \cup cascade]
     /\ imr' = masks
     /\ isr' = [ch \in 0 .. 1 |-> Lowest(irr'[ch] \ imr'[ch])]
     /\ ip' = (isr'[0] # {})
     /\ ip_written' = FALSE
     /\ UNCHANGED <<init_mode, ip_read>>

(* An EOI in OCW2: of the request in service, or of a given line.          *)
DropRequests(ch, irqs) ==
  /\ Recalc([irr EXCEPT ![ch] = @ \ irqs], imr)
  /\ dropped' = (dropped \/ (ch = 0 /\ SIO_CONNECTED \in irr[0] \cap irqs))
  /\ UNCHANGED <<sio, chars>>

Eoi(ch) == DropRequests(ch, isr[ch])
SpecificEoi(ch) == \E irq \in 0 .. 7 : DropRequests(ch, {irq})

(* ICW1 opens the initialization: the next two or three words written to   *)
(* the mask port are ICW2, ICW3 and ICW4, and are swallowed.               *)
WriteIcw1(ch) ==
  /\ \E icw4 \in 0 .. 1 : init_mode' = [init_mode EXCEPT ![ch] = 2 + icw4]
  /\ UNCHANGED <<irr, imr, isr, cause, dropped, sio, chars>>

WriteIcw(ch) ==
  /\ init_mode[ch] > 0
  /\ init_mode' = [init_mode EXCEPT ![ch] = @ - 1]
  /\ UNCHANGED <<irr, imr, isr, cause, dropped, sio, chars>>

WriteMask(ch, mask) ==
  /\ init_mode[ch] = 0
  /\ Recalc(irr, [imr EXCEPT ![ch] = mask])
  /\ UNCHANGED <<dropped, sio, chars>>

(* The guest changes a field of CAUSE: it reads the register and later     *)
(* writes it back, the interrupt bits as they were (MipsCp0::writereg      *)
(* stores the whole word).                                                 *)
ReadCause ==
  /\ ip_read' = ip
  /\ UNCHANGED <<pic, ip, ip_written, dropped, sio, chars>>

WriteCause ==
  /\ ip' = ip_read
  /\ ip_written' = TRUE
  /\ UNCHANGED <<pic, ip_read, dropped, sio, chars>>

----------------------------------------------------------------------------
(* Faulty variants of definitions of the next section.                     *)

DriveWithoutInt(enabled, status, allowed) ==
  /\ ier' = enabled
  /\ int' = allowed
  /\ iir' = (status \ {"NP"})
            \cup (IF Pending(enabled, status) THEN {} ELSE {"NP"})
  /\ LET request == Pending(enabled, status)
     IN Recalc([irr EXCEPT ![0] = IF request THEN @ \cup {SIO_CONNECTED}
                                  ELSE @ \ {SIO_CONNECTED}], imr)
  /\ dropped' = FALSE

UnpolledOnce ==
  /\ counter' = counter + 1
  /\ counter' <= SIO_POLL_CYCLE
  /\ UNCHANGED <<lines, sio, chars, dropped>>

----------------------------------------------------------------------------
(* SerialIO.                                                               *)

(* SerialIO::recalcirq, with IER, the status bits of IIR and the interrupt *)
(* enable of MCR as the caller has just left them.                         *)
Drive(enabled, status, allowed) ==
  /\ ier' = enabled
  /\ int' = allowed
  /\ iir' = (status \ {"NP"})
            \cup (IF Pending(enabled, status) THEN {} ELSE {"NP"})
  /\ LET request == Pending(enabled, status) /\ allowed
     IN Recalc([irr EXCEPT ![0] = IF request THEN @ \cup {SIO_CONNECTED}
                                  ELSE @ \ {SIO_CONNECTED}], imr)
  /\ dropped' = FALSE

(* Faulty variants.                                                        *)

PollRaisesNew ==
  /\ counter + 1 >= SIO_POLL_CYCLE
  /\ counter' = 0
  /\ IF currentchar = -1 /\ taken < typed
     THEN /\ taken' = taken + 1
          /\ currentchar' = taken'
          /\ Drive(ier, iir \cup {"RX"}, int)
     ELSE UNCHANGED <<taken, currentchar, lines, sio, dropped>>
  /\ UNCHANGED <<div, typed, given>>

PollReadsOn ==
  /\ counter + 1 >= SIO_POLL_CYCLE
  /\ counter' = 0
  /\ IF taken < typed
     THEN /\ taken' = taken + 1
          /\ currentchar' = taken'
          /\ Drive(ier, iir \cup {"RX"}, int)
     ELSE UNCHANGED <<taken, currentchar, lines, sio, dropped>>
  /\ UNCHANGED <<div, typed, given>>

ReadRbrQuietly ==
  /\ ~div
  /\ given' = IF currentchar = -1 THEN given ELSE Append(given, currentchar)
  /\ currentchar' = -1
  /\ iir' = iir \ {"RX"}
  /\ UNCHANGED <<lines, ier, int, div, typed, taken, dropped>>

(* The code: the port looks at the terminal once in SIO_POLL_CYCLE calls.  *)
Unpolled ==
  /\ counter' = counter + 1
  /\ counter' < SIO_POLL_CYCLE
  /\ UNCHANGED <<lines, sio, chars, dropped>>

(* charavail: a character already there, or the next from the terminal.    *)
Poll ==
  /\ counter + 1 >= SIO_POLL_CYCLE
  /\ counter' = 0
  /\ taken' = IF currentchar = -1 /\ taken < typed THEN taken + 1 ELSE taken
  /\ currentchar' = IF taken' # taken THEN taken' ELSE currentchar
  /\ IF currentchar' # -1 THEN Drive(ier, iir \cup {"RX"}, int)
     ELSE UNCHANGED <<lines, sio, dropped>>
  /\ UNCHANGED <<div, typed, given>>

SioStep == Unpolled \/ Poll

(* RBR, THR and IER are the divisor while DLAB is set.  RBR reads -1 when  *)
(* there is no character.                                                  *)
ReadRbr ==
  /\ ~div
  /\ given' = IF currentchar = -1 THEN given ELSE Append(given, currentchar)
  /\ currentchar' = -1
  /\ Drive(ier, iir \ {"RX"}, int)
  /\ UNCHANGED <<div, typed, taken>>

ReadIir ==
  /\ Drive(ier, iir \ {"TX"}, int)
  /\ UNCHANGED <<div, chars>>

WriteThr ==
  /\ ~div
  /\ Drive(ier, iir \cup {"TX"}, int)
  /\ UNCHANGED <<div, chars>>

WriteIer(data) ==
  /\ ~div
  /\ Drive(data, iir \cup (({"TX"} \cap data) \ ier), int)
  /\ UNCHANGED <<div, chars>>

WriteLcr(data) ==
  /\ div' = data
  /\ UNCHANGED <<lines, ier, iir, int, chars, dropped>>

WriteMcr(data) ==
  /\ Drive(ier, iir, data)
  /\ UNCHANGED <<div, chars>>

----------------------------------------------------------------------------
GuestPic ==
  \E ch \in Channels :
    \/ Eoi(ch) \/ SpecificEoi(ch) \/ WriteIcw1(ch) \/ WriteIcw(ch)
    \/ \E mask \in Masks : WriteMask(ch, mask)

GuestSio ==
  \/ ReadRbr \/ ReadIir \/ WriteThr
  \/ \E data \in SUBSET {"RX", "TX"} : WriteIer(data)
  \/ \E data \in BOOLEAN : WriteLcr(data) \/ WriteMcr(data)

Guest ==
  /\ GuestPic \/ GuestSio \/ ReadCause \/ WriteCause
  /\ UNCHANGED counter

(* The terminal, outside the program.                                      *)
Type ==
  /\ typed < MaxTyped
  /\ typed' = typed + 1
  /\ UNCHANGED <<lines, sio, counter, currentchar, taken, given, dropped>>

Next == SioStep \/ Guest \/ Type

(* Chip::step_funct and Chip::step_multi step every device in every cycle. *)
Fairness == WF_vars(SioStep)

Spec == Init /\ [][Next]_vars
FairSpec == Spec /\ Fairness

----------------------------------------------------------------------------
Wanted == Pending(ier, iir) /\ int
Unmasked(ch) == irr[ch] \ imr[ch]

(* The registers hold values of their types, and IIR says NP exactly when  *)
(* no enabled cause is pending or none has been looked for (device.cc:230).*)
InterruptTypeOK ==
  /\ irr \in [0 .. 1 -> SUBSET (0 .. 7)]
  /\ imr \in [0 .. 1 -> SUBSET (0 .. 7)]
  /\ isr \in [0 .. 1 -> SUBSET (0 .. 7)]
  /\ init_mode \in [0 .. 1 -> 0 .. 3]
  /\ ip \in BOOLEAN /\ ip_read \in BOOLEAN /\ ip_written \in BOOLEAN
  /\ ier \subseteq {"RX", "TX"} /\ div \in BOOLEAN /\ int \in BOOLEAN
  /\ iir \subseteq {"RX", "TX", "NP"}
  /\ "NP" \in iir <=> ~Pending(ier, iir)
  /\ counter \in 0 .. SIO_POLL_CYCLE - 1
  /\ typed \in 0 .. MaxTyped /\ taken \in 0 .. typed
  /\ currentchar \in {-1} \cup (1 .. taken)
  /\ given \in Seq(1 .. taken) /\ dropped \in BOOLEAN

(* Whatever the order in which masks, EOIs and devices have changed the    *)
(* controllers, what is in service is the lowest unmasked request of each, *)
(* and the CPU sees an interrupt exactly when there is one, unless the     *)
(* guest has written an old value over the bit of CAUSE since              *)
(* (IntController::recalcirq, device.cc:82).                               *)
LineFollows ==
  /\ \A ch \in 0 .. 1 : isr[ch] = Lowest(Unmasked(ch))
  /\ ip_written \/ (ip <=> Unmasked(0) # {})

(* The request of the serial port is withdrawn with its last enabled       *)
(* cause, and it stands while there is one unless an EOI dropped it        *)
(* (SerialIO::recalcirq, device.cc:225).                                   *)
RequestFollows ==
  /\ SIO_CONNECTED \in irr[0] => Wanted
  /\ Wanted => SIO_CONNECTED \in irr[0] \/ dropped

(* No character is lost, repeated or overtaken between the poll and the    *)
(* guest, and the receiver status is set while one waits                   *)
(* (SerialIO::charavail, device.cc:209, and RBR, :242).                    *)
InSequence ==
  /\ \A i \in 1 .. Len(given) : given[i] = i
  /\ taken = Len(given) + (IF currentchar = -1 THEN 0 ELSE 1)
  /\ currentchar # -1 => currentchar = taken
  /\ "RX" \in iir <=> currentchar # -1

(* A character typed while the receiver interrupt is enabled and unmasked  *)
(* interrupts the CPU although EOIs come too early and CAUSE is            *)
(* overwritten: SerialIO::step raises the request again (device.cc:202).   *)
Expected ==
  /\ taken < typed \/ currentchar # -1
  /\ "RX" \in ier /\ int /\ SIO_CONNECTED \notin imr[0]

Delivered == []<>(ip \/ ~Expected)
=============================================================================
