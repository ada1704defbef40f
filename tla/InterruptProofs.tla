-------------------------- MODULE InterruptProofs ---------------------------
(***************************************************************************)
(* Proofs about Interrupt: its types, the interrupt line and the request   *)
(* of the serial port, for every number of typed characters, poll period   *)
(* and set of masks.  Everything rests on two lemmas, one for each of the  *)
(* recalcirq functions; every other action is a call of one of them or     *)
(* leaves the lines alone.                                                 *)
(***************************************************************************)
EXTENDS Interrupt, TLAPS

Register == [0 .. 1 -> SUBSET (0 .. 7)]

(* A controller with a request has a lowest one.                           *)
LEMMA LowestExists ==
  ASSUME NEW S \in SUBSET (0 .. 7)
  PROVE  /\ Lowest(S) \in SUBSET (0 .. 7)
         /\ Lowest(S) # {} <=> S # {}
<1>1. Lowest(S) \subseteq S
  BY DEF Lowest
<1>2. ASSUME S # {} PROVE Lowest(S) # {}
  <2>1. SUFFICES ASSUME \A i \in S : \E j \in S : ~ (i <= j) PROVE FALSE
    BY DEF Lowest
  <2>2. \A i \in S : \E j \in S : j < i
    BY <2>1
  <2>3. 0 \notin S /\ 1 \notin S
    BY <2>2
  <2>4. 2 \notin S /\ 3 \notin S
    BY <2>2, <2>3
  <2>5. 4 \notin S /\ 5 \notin S
    BY <2>2, <2>3, <2>4
  <2>6. 6 \notin S /\ 7 \notin S
    BY <2>2, <2>3, <2>4, <2>5
  <2>7. PICK i \in S : TRUE
    BY <1>2
  <2>8. i \in 0 .. 7
    OBVIOUS
  <2> QED
    BY <2>3, <2>4, <2>5, <2>6, <2>7, <2>8
<1> QED
  BY <1>1, <1>2

(* IntController::recalcirq: from any requests and masks.                  *)
LEMMA RecalcLines ==
  ASSUME NEW requests \in Register, NEW masks \in Register,
         Recalc(requests, masks)
  PROVE  /\ irr' \in Register /\ imr' \in Register /\ isr' \in Register
         /\ ip' \in BOOLEAN /\ ip_written' = FALSE
         /\ init_mode' = init_mode /\ ip_read' = ip_read
         /\ LineFollows'
         /\ SIO_CONNECTED \in irr'[0] <=> SIO_CONNECTED \in requests[0]
<1> DEFINE cascade == IF requests[1] \ masks[1] # {}
                      THEN {PIC_CONNECTED} ELSE {}
<1>1. /\ irr' = [requests EXCEPT ![0] = (@ \ {PIC_CONNECTED}) \cup cascade]
      /\ imr' = masks
      /\ isr' = [ch \in 0 .. 1 |-> Lowest(irr'[ch] \ imr'[ch])]
      /\ ip' = (isr'[0] # {})
      /\ ip_written' = FALSE
      /\ init_mode' = init_mode /\ ip_read' = ip_read
  BY DEF Recalc
<1>2. irr'[0] = (requests[0] \ {PIC_CONNECTED}) \cup cascade
  BY <1>1 DEF Register
<1>3. irr' \in Register
  BY <1>1 DEF Register, PIC_CONNECTED
<1>4. \A ch \in 0 .. 1 : irr'[ch] \ imr'[ch] \in SUBSET (0 .. 7)
  BY <1>1, <1>3 DEF Register
<1>5. isr' \in Register
  BY <1>1, <1>4, LowestExists DEF Register
<1>6. \A ch \in 0 .. 1 : isr'[ch] = Lowest(Unmasked(ch)')
  BY <1>1 DEF Unmasked
<1>7. ip' <=> Unmasked(0)' # {}
  <2>1. Lowest(irr'[0] \ imr'[0]) # {} <=> irr'[0] \ imr'[0] # {}
    BY <1>4, LowestExists
  <2>2. isr'[0] = Lowest(irr'[0] \ imr'[0])
    BY <1>1
  <2>3. ip' = (isr'[0] # {})
    BY <1>1
  <2>4. ip' <=> irr'[0] \ imr'[0] # {}
    BY <2>1, <2>2, <2>3
  <2>5. Unmasked(0)' = irr'[0] \ imr'[0]
    BY DEF Unmasked
  <2> QED
    BY <2>4, <2>5
<1>8. SIO_CONNECTED \in irr'[0] <=> SIO_CONNECTED \in requests[0]
  BY <1>2 DEF SIO_CONNECTED, PIC_CONNECTED
<1>9. LineFollows'
  BY <1>1, <1>6, <1>7 DEF LineFollows
<1> QED
  BY <1>1, <1>3, <1>5, <1>8, <1>9

(* SerialIO::recalcirq: from any enables and status.                       *)
LEMMA DriveLines ==
  ASSUME InterruptTypeOK,
         NEW enabled \in SUBSET {"RX", "TX"},
         NEW status \in SUBSET {"RX", "TX", "NP"},
         NEW allowed \in BOOLEAN,
         Drive(enabled, status, allowed)
  PROVE  /\ irr' \in Register /\ imr' \in Register /\ isr' \in Register
         /\ ip' \in BOOLEAN /\ ip_written' = FALSE
         /\ init_mode' = init_mode /\ ip_read' = ip_read
         /\ ier' = enabled /\ int' = allowed /\ dropped' = FALSE
         /\ iir' \in SUBSET {"RX", "TX", "NP"}
         /\ "RX" \in iir' <=> "RX" \in status
         /\ "NP" \in iir' <=> ~ Pending(ier', iir')
         /\ LineFollows'
         /\ RequestFollows'
<1> DEFINE request == Pending(enabled, status) /\ allowed
<1> DEFINE requests ==
      [irr EXCEPT ![0] = IF request THEN @ \cup {SIO_CONNECTED}
                         ELSE @ \ {SIO_CONNECTED}]
<1>1. /\ ier' = enabled /\ int' = allowed /\ dropped' = FALSE
      /\ iir' = (status \ {"NP"})
                \cup (IF Pending(enabled, status) THEN {} ELSE {"NP"})
      /\ Recalc(requests, imr)
  BY DEF Drive
<1>2. requests \in Register /\ imr \in Register
  BY DEF InterruptTypeOK, Register, SIO_CONNECTED
<1>3. SIO_CONNECTED \in requests[0] <=> request
  BY DEF InterruptTypeOK
<1> HIDE DEF requests
<1>4. /\ irr' \in Register /\ imr' \in Register /\ isr' \in Register
      /\ ip' \in BOOLEAN /\ ip_written' = FALSE
      /\ init_mode' = init_mode /\ ip_read' = ip_read
      /\ LineFollows'
      /\ SIO_CONNECTED \in irr'[0] <=> SIO_CONNECTED \in requests[0]
  BY <1>1, <1>2, RecalcLines
<1>5. /\ iir' \in SUBSET {"RX", "TX", "NP"}
      /\ "RX" \in iir' <=> "RX" \in status
      /\ Pending(ier', iir') <=> Pending(enabled, status)
      /\ "NP" \in iir' <=> ~ Pending(ier', iir')
  BY <1>1 DEF Pending
<1>6. Wanted' <=> request
  BY <1>1, <1>5 DEF Wanted
<1>7. RequestFollows'
  BY <1>3, <1>4, <1>6 DEF RequestFollows
<1> QED
  BY <1>1, <1>4, <1>5, <1>7

-----------------------------------------------------------------------------
IInv == InterruptTypeOK /\ LineFollows /\ RequestFollows /\ InSequence

LEMMA InitInv == Init => IInv
<1> SUFFICES ASSUME Init PROVE IInv
  OBVIOUS
<1>1. InterruptTypeOK
  <2>1. given \in Seq(1 .. taken)
    BY DEF Init
  <2>2. /\ irr \in Register /\ imr \in Register /\ isr \in Register
        /\ init_mode \in [0 .. 1 -> 0 .. 3]
    BY DEF Init, Register
  <2>3. "NP" \in iir /\ ~ Pending(ier, iir)
    BY DEF Init, Pending
  <2>4. /\ counter \in 0 .. SIO_POLL_CYCLE - 1
        /\ typed \in 0 .. MaxTyped /\ taken \in 0 .. typed
        /\ currentchar \in {-1} \cup (1 .. taken)
    BY InterruptAssumption DEF Init
  <2>5. /\ ier \subseteq {"RX", "TX"} /\ iir \subseteq {"RX", "TX", "NP"}
        /\ ip \in BOOLEAN /\ ip_read \in BOOLEAN /\ ip_written \in BOOLEAN
        /\ div \in BOOLEAN /\ int \in BOOLEAN /\ dropped \in BOOLEAN
    BY DEF Init
  <2> QED
    BY <2>1, <2>2, <2>3, <2>4, <2>5 DEF InterruptTypeOK, Register
<1>2. LineFollows
  BY DEF Init, LineFollows, Unmasked, Lowest
<1>3. RequestFollows
  BY DEF Init, RequestFollows, Wanted, Pending
<1>4. InSequence
  <2>1. /\ given = <<>> /\ Len(<<>>) = 0 /\ taken = 0 /\ currentchar = -1
        /\ iir = {"NP"}
    BY DEF Init
  <2> QED
    BY <2>1 DEF InSequence
<1> QED
  BY <1>1, <1>2, <1>3, <1>4 DEF IInv

(* The accesses of the guest to the controllers and to CAUSE.              *)
LEMMA DropInv ==
  ASSUME IInv, NEW ch \in {0, 1}, NEW irqs \in SUBSET (0 .. 7),
         DropRequests(ch, irqs), UNCHANGED counter
  PROVE  IInv'
<1> DEFINE requests == [irr EXCEPT ![ch] = @ \ irqs]
<1>1. /\ Recalc(requests, imr)
      /\ dropped' = (dropped \/ (ch = 0 /\ SIO_CONNECTED \in irr[0] \cap irqs))
      /\ UNCHANGED <<sio, chars, counter>>
  BY DEF DropRequests
<1>2. requests \in Register /\ imr \in Register
  BY DEF IInv, InterruptTypeOK, Register
<1>3. /\ SIO_CONNECTED \in requests[0] => SIO_CONNECTED \in irr[0]
      /\ SIO_CONNECTED \in irr[0] =>
           SIO_CONNECTED \in requests[0]
           \/ (ch = 0 /\ SIO_CONNECTED \in irr[0] \cap irqs)
  BY DEF IInv, InterruptTypeOK
<1> HIDE DEF requests
<1>4. /\ irr' \in Register /\ imr' \in Register /\ isr' \in Register
      /\ ip' \in BOOLEAN /\ ip_written' = FALSE
      /\ init_mode' = init_mode /\ ip_read' = ip_read
      /\ LineFollows'
      /\ SIO_CONNECTED \in irr'[0] <=> SIO_CONNECTED \in requests[0]
  BY <1>1, <1>2, RecalcLines
<1>5. Wanted' = Wanted
  BY <1>1 DEF Wanted, Pending, sio
<1>6. RequestFollows'
  <2>1. RequestFollows
    BY DEF IInv
  <2>2. SIO_CONNECTED \in irr'[0] => Wanted
    BY <1>3, <1>4, <2>1 DEF RequestFollows
  <2>3. Wanted => SIO_CONNECTED \in irr'[0] \/ dropped'
    BY <1>1, <1>3, <1>4, <2>1 DEF RequestFollows
  <2> QED
    BY <1>5, <2>2, <2>3 DEF RequestFollows
<1>7. dropped' \in BOOLEAN
  BY <1>1
<1>8. InterruptTypeOK'
  BY <1>1, <1>4, <1>7
     DEF IInv, InterruptTypeOK, Register, sio, chars, Pending
<1>9. InSequence'
  BY <1>1 DEF IInv, InSequence, sio, chars
<1> QED
  BY <1>4, <1>6, <1>8, <1>9 DEF IInv

LEMMA MaskInv ==
  ASSUME IInv, NEW ch \in {0, 1}, NEW mask \in SUBSET (0 .. 7),
         WriteMask(ch, mask), UNCHANGED counter
  PROVE  IInv'
<1> DEFINE masks == [imr EXCEPT ![ch] = mask]
<1>1. Recalc(irr, masks) /\ UNCHANGED <<dropped, sio, chars, counter>>
  BY DEF WriteMask
<1>2. irr \in Register /\ masks \in Register
  BY DEF IInv, InterruptTypeOK, Register
<1> HIDE DEF masks
<1>3. /\ irr' \in Register /\ imr' \in Register /\ isr' \in Register
      /\ ip' \in BOOLEAN /\ ip_written' = FALSE
      /\ init_mode' = init_mode /\ ip_read' = ip_read
      /\ LineFollows'
      /\ SIO_CONNECTED \in irr'[0] <=> SIO_CONNECTED \in irr[0]
  BY <1>1, <1>2, RecalcLines
<1>4. Wanted' = Wanted
  BY <1>1 DEF Wanted, Pending, sio
<1>5. RequestFollows'
  BY <1>1, <1>3, <1>4 DEF IInv, RequestFollows
<1>6. InterruptTypeOK'
  BY <1>1, <1>3 DEF IInv, InterruptTypeOK, Register, sio, chars, Pending
<1>7. InSequence'
  BY <1>1 DEF IInv, InSequence, sio, chars
<1> QED
  BY <1>3, <1>5, <1>6, <1>7 DEF IInv

LEMMA IcwInv ==
  ASSUME IInv, NEW ch \in {0, 1},
         WriteIcw1(ch) \/ WriteIcw(ch), UNCHANGED counter
  PROVE  IInv'
<1>1. UNCHANGED <<irr, imr, isr, cause, dropped, sio, chars, counter>>
  BY DEF WriteIcw1, WriteIcw
<1>2. init_mode' \in [0 .. 1 -> 0 .. 3]
  <2>1. CASE WriteIcw1(ch)
    <3>1. PICK icw4 \in 0 .. 1 :
            init_mode' = [init_mode EXCEPT ![ch] = 2 + icw4]
      BY <2>1 DEF WriteIcw1
    <3> QED
      BY <3>1 DEF IInv, InterruptTypeOK
  <2>2. CASE WriteIcw(ch)
    BY <2>2 DEF WriteIcw, IInv, InterruptTypeOK
  <2> QED
    BY <2>1, <2>2
<1>3. InterruptTypeOK'
  BY <1>1, <1>2 DEF IInv, InterruptTypeOK, cause, sio, chars, Pending
<1>4. LineFollows'
  BY <1>1 DEF IInv, LineFollows, Unmasked, cause
<1>5. RequestFollows' /\ InSequence'
  BY <1>1 DEF IInv, RequestFollows, Wanted, Pending, InSequence, sio, chars
<1> QED
  BY <1>3, <1>4, <1>5 DEF IInv

LEMMA CauseInv ==
  ASSUME IInv, ReadCause \/ WriteCause, UNCHANGED counter
  PROVE  IInv'
<1>1. UNCHANGED <<pic, dropped, sio, chars, counter>>
  BY DEF ReadCause, WriteCause
<1>2. InterruptTypeOK'
  BY <1>1 DEF ReadCause, WriteCause, IInv, InterruptTypeOK, pic, sio, chars,
              Pending
<1>3. LineFollows'
  BY <1>1 DEF ReadCause, WriteCause, IInv, LineFollows, Unmasked, pic
<1>4. RequestFollows' /\ InSequence'
  BY <1>1 DEF IInv, RequestFollows, Wanted, Pending, InSequence, pic, sio,
              chars
<1> QED
  BY <1>2, <1>3, <1>4 DEF IInv

-----------------------------------------------------------------------------
(* The accesses of the guest to the serial port that take no character.    *)
LEMMA DriveInv ==
  ASSUME IInv, NEW enabled \in SUBSET {"RX", "TX"},
         NEW status \in SUBSET {"RX", "TX", "NP"}, NEW allowed \in BOOLEAN,
         Drive(enabled, status, allowed),
         "RX" \in status <=> "RX" \in iir,
         UNCHANGED <<div, chars, counter>>
  PROVE  IInv'
<1>1. InterruptTypeOK
  BY DEF IInv
<1>2. /\ irr' \in Register /\ imr' \in Register /\ isr' \in Register
      /\ ip' \in BOOLEAN /\ ip_written' = FALSE
      /\ init_mode' = init_mode /\ ip_read' = ip_read
      /\ ier' = enabled /\ int' = allowed /\ dropped' = FALSE
      /\ iir' \in SUBSET {"RX", "TX", "NP"}
      /\ "RX" \in iir' <=> "RX" \in status
      /\ "NP" \in iir' <=> ~ Pending(ier', iir')
      /\ LineFollows'
      /\ RequestFollows'
  BY <1>1, DriveLines
<1>3. InterruptTypeOK'
  BY <1>1, <1>2 DEF InterruptTypeOK, Register, chars
<1>4. InSequence'
  BY <1>2 DEF IInv, InSequence, chars
<1> QED
  BY <1>2, <1>3, <1>4 DEF IInv

LEMMA SioInv ==
  ASSUME IInv, UNCHANGED counter,
         \/ ReadIir \/ WriteThr
         \/ \E data \in SUBSET {"RX", "TX"} : WriteIer(data)
         \/ \E data \in BOOLEAN : WriteLcr(data) \/ WriteMcr(data)
  PROVE  IInv'
<1>1. /\ ier \in SUBSET {"RX", "TX"} /\ iir \in SUBSET {"RX", "TX", "NP"}
      /\ int \in BOOLEAN
  BY DEF IInv, InterruptTypeOK
<1>2. CASE ReadIir
  <2>1. Drive(ier, iir \ {"TX"}, int) /\ UNCHANGED <<div, chars, counter>>
    BY <1>2 DEF ReadIir
  <2> QED
    BY <1>1, <2>1, DriveInv
<1>3. CASE WriteThr
  <2>1. /\ Drive(ier, iir \cup {"TX"}, int)
        /\ UNCHANGED <<div, chars, counter>>
    BY <1>3 DEF WriteThr
  <2> QED
    BY <1>1, <2>1, DriveInv
<1>4. ASSUME NEW data \in SUBSET {"RX", "TX"}, WriteIer(data) PROVE IInv'
  <2> DEFINE status == iir \cup (({"TX"} \cap data) \ ier)
  <2>1. Drive(data, status, int) /\ UNCHANGED <<div, chars, counter>>
    BY <1>4 DEF WriteIer
  <2>2. /\ status \in SUBSET {"RX", "TX", "NP"}
        /\ "RX" \in status <=> "RX" \in iir
    BY <1>1
  <2> HIDE DEF status
  <2> QED
    BY <1>1, <2>1, <2>2, DriveInv
<1>5. ASSUME NEW data \in BOOLEAN, WriteLcr(data) PROVE IInv'
  <2>1. /\ div' = data
        /\ UNCHANGED <<lines, ier, iir, int, chars, dropped, counter>>
    BY <1>5 DEF WriteLcr
  <2>2. InterruptTypeOK'
    BY <2>1 DEF IInv, InterruptTypeOK, lines, pic, cause, chars, Pending
  <2>3. LineFollows' /\ RequestFollows' /\ InSequence'
    BY <2>1 DEF IInv, LineFollows, Unmasked, RequestFollows, Wanted, Pending,
                InSequence, lines, pic, cause, chars
  <2> QED
    BY <2>2, <2>3 DEF IInv
<1>6. ASSUME NEW data \in BOOLEAN, WriteMcr(data) PROVE IInv'
  <2>1. Drive(ier, iir, data) /\ UNCHANGED <<div, chars, counter>>
    BY <1>6 DEF WriteMcr
  <2> QED
    BY <1>1, <2>1, DriveInv
<1> QED
  BY <1>2, <1>3, <1>4, <1>5, <1>6

(* The guest takes the character.                                          *)
LEMMA ReadInv ==
  ASSUME IInv, ReadRbr, UNCHANGED counter
  PROVE  IInv'
<1>1. InterruptTypeOK /\ InSequence
  BY DEF IInv
<1>2. /\ given' = IF currentchar = -1 THEN given
                  ELSE Append(given, currentchar)
      /\ currentchar' = -1
      /\ Drive(ier, iir \ {"RX"}, int)
      /\ UNCHANGED <<div, typed, taken, counter>>
  BY DEF ReadRbr
<1>3. /\ ier \in SUBSET {"RX", "TX"}
      /\ iir \ {"RX"} \in SUBSET {"RX", "TX", "NP"} /\ int \in BOOLEAN
  BY <1>1 DEF InterruptTypeOK
<1>4. /\ irr' \in Register /\ imr' \in Register /\ isr' \in Register
      /\ ip' \in BOOLEAN /\ ip_written' = FALSE
      /\ init_mode' = init_mode /\ ip_read' = ip_read
      /\ ier' = ier /\ int' = int /\ dropped' = FALSE
      /\ iir' \in SUBSET {"RX", "TX", "NP"}
      /\ "RX" \notin iir'
      /\ "NP" \in iir' <=> ~ Pending(ier', iir')
      /\ LineFollows'
      /\ RequestFollows'
  BY <1>1, <1>2, <1>3, DriveLines
<1>5. given' \in Seq(1 .. taken')
  <2>1. given \in Seq(1 .. taken) /\ taken' = taken
    BY <1>1, <1>2 DEF InterruptTypeOK
  <2>2. CASE currentchar = -1
    BY <1>2, <2>1, <2>2
  <2>3. CASE currentchar # -1
    <3>1. currentchar \in 1 .. taken
      BY <1>1, <2>3 DEF InterruptTypeOK
    <3>2. Append(given, currentchar) \in Seq(1 .. taken)
      BY <2>1, <3>1
    <3> QED
      BY <1>2, <2>1, <2>3, <3>2
  <2> QED
    BY <2>2, <2>3
<1>6. InterruptTypeOK'
  BY <1>1, <1>2, <1>4, <1>5 DEF InterruptTypeOK, Register
<1>7. InSequence'
  <2>1. CASE currentchar = -1
    BY <1>1, <1>2, <1>4, <2>1 DEF InSequence
  <2>2. CASE currentchar # -1
    <3>1. /\ currentchar = taken /\ taken = Len(given) + 1
          /\ given' = Append(given, taken)
          /\ given \in Seq(1 .. taken) /\ taken \in Nat
      BY <1>1, <1>2, <2>2 DEF InSequence, InterruptTypeOK
    <3>2. Len(given') = taken
      BY <3>1
    <3>3. \A i \in 1 .. Len(given') : given'[i] = i
      BY <1>1, <3>1 DEF InSequence
    <3> QED
      BY <1>2, <1>4, <3>2, <3>3 DEF InSequence
  <2> QED
    BY <2>1, <2>2
<1> QED
  BY <1>4, <1>6, <1>7 DEF IInv

(* SerialIO::step and the terminal.                                        *)
LEMMA StepInv ==
  ASSUME IInv, SioStep
  PROVE  IInv'
<1>1. InterruptTypeOK /\ InSequence
  BY DEF IInv
<1>2. CASE Unpolled
  <2>1. /\ counter' = counter + 1 /\ counter' < SIO_POLL_CYCLE
        /\ UNCHANGED <<lines, sio, chars, dropped>>
    BY <1>2 DEF Unpolled
  <2>2. InterruptTypeOK'
    BY <1>1, <2>1, InterruptAssumption
       DEF InterruptTypeOK, lines, pic, cause, sio, chars, Pending
  <2>3. LineFollows' /\ RequestFollows' /\ InSequence'
    BY <2>1 DEF IInv, LineFollows, Unmasked, RequestFollows, Wanted, Pending,
                InSequence, lines, pic, cause, sio, chars
  <2> QED
    BY <2>2, <2>3 DEF IInv
<1>3. CASE Poll
  <2>1. /\ counter' = 0
        /\ taken' = IF currentchar = -1 /\ taken < typed THEN taken + 1
                    ELSE taken
        /\ currentchar' = IF taken' # taken THEN taken' ELSE currentchar
        /\ IF currentchar' # -1 THEN Drive(ier, iir \cup {"RX"}, int)
           ELSE UNCHANGED <<lines, sio, dropped>>
        /\ UNCHANGED <<div, typed, given>>
    BY <1>3 DEF Poll
  <2>2. /\ taken' \in 0 .. typed' /\ currentchar' \in {-1} \cup (1 .. taken')
        /\ 1 .. taken \subseteq 1 .. taken'
        /\ taken' = Len(given') + (IF currentchar' = -1 THEN 0 ELSE 1)
        /\ currentchar' # -1 => currentchar' = taken'
        /\ currentchar' = -1 => currentchar = -1
    BY <1>1, <2>1 DEF InterruptTypeOK, InSequence
  <2>3. given' \in Seq(1 .. taken')
    BY <1>1, <2>1, <2>2 DEF InterruptTypeOK
  <2>4. 0 \in 0 .. SIO_POLL_CYCLE - 1
    BY InterruptAssumption
  <2>5. CASE currentchar' # -1
    <3>1. /\ ier \in SUBSET {"RX", "TX"} /\ int \in BOOLEAN
          /\ iir \cup {"RX"} \in SUBSET {"RX", "TX", "NP"}
          /\ Drive(ier, iir \cup {"RX"}, int)
      BY <1>1, <2>1, <2>5 DEF InterruptTypeOK
    <3>2. /\ irr' \in Register /\ imr' \in Register /\ isr' \in Register
          /\ ip' \in BOOLEAN /\ ip_written' = FALSE
          /\ init_mode' = init_mode /\ ip_read' = ip_read
          /\ ier' = ier /\ int' = int /\ dropped' = FALSE
          /\ iir' \in SUBSET {"RX", "TX", "NP"}
          /\ "RX" \in iir'
          /\ "NP" \in iir' <=> ~ Pending(ier', iir')
          /\ LineFollows'
          /\ RequestFollows'
      BY <1>1, <3>1, DriveLines
    <3>3. InterruptTypeOK'
      BY <1>1, <2>1, <2>2, <2>3, <2>4, <3>2 DEF InterruptTypeOK, Register
    <3>4. InSequence'
      BY <1>1, <2>1, <2>2, <2>5, <3>2 DEF InSequence
    <3> QED
      BY <3>2, <3>3, <3>4 DEF IInv
  <2>6. CASE currentchar' = -1
    <3>1. UNCHANGED <<lines, sio, dropped>>
      BY <2>1, <2>6
    <3>2. InterruptTypeOK'
      BY <1>1, <2>1, <2>2, <2>3, <2>4, <3>1
         DEF InterruptTypeOK, lines, pic, cause, sio, Pending
    <3>3. LineFollows' /\ RequestFollows'
      BY <3>1 DEF IInv, LineFollows, Unmasked, RequestFollows, Wanted,
                  Pending, lines, pic, cause, sio
    <3>4. InSequence'
      BY <1>1, <2>1, <2>2, <2>6, <3>1 DEF InSequence, sio
    <3> QED
      BY <3>2, <3>3, <3>4 DEF IInv
  <2> QED
    BY <2>5, <2>6
<1> QED
  BY <1>2, <1>3 DEF SioStep

LEMMA TypeInv ==
  ASSUME IInv, Type
  PROVE  IInv'
<1>1. /\ typed < MaxTyped /\ typed' = typed + 1
      /\ UNCHANGED <<lines, sio, counter, currentchar, taken, given, dropped>>
  BY DEF Type
<1>2. InterruptTypeOK'
  BY <1>1, InterruptAssumption
     DEF IInv, InterruptTypeOK, lines, pic, cause, sio, Pending
<1>3. LineFollows' /\ RequestFollows' /\ InSequence'
  BY <1>1 DEF IInv, LineFollows, Unmasked, RequestFollows, Wanted, Pending,
              InSequence, lines, pic, cause, sio
<1> QED
  BY <1>2, <1>3 DEF IInv

LEMMA GuestInv ==
  ASSUME IInv, Guest
  PROVE  IInv'
<1>1. UNCHANGED counter
  BY DEF Guest
<1>2. CASE GuestPic
  <2>1. PICK ch \in Channels :
          \/ Eoi(ch) \/ SpecificEoi(ch) \/ WriteIcw1(ch) \/ WriteIcw(ch)
          \/ \E mask \in Masks : WriteMask(ch, mask)
    BY <1>2 DEF GuestPic
  <2>2. ch \in {0, 1}
    BY InterruptAssumption
  <2>3. CASE Eoi(ch)
    <3>1. isr[ch] \in SUBSET (0 .. 7)
      BY <2>2 DEF IInv, InterruptTypeOK
    <3> QED
      BY <1>1, <2>2, <2>3, <3>1, DropInv DEF Eoi
  <2>4. CASE SpecificEoi(ch)
    <3>1. PICK irq \in 0 .. 7 : DropRequests(ch, {irq})
      BY <2>4 DEF SpecificEoi
    <3> QED
      BY <1>1, <2>2, <3>1, DropInv
  <2>5. CASE WriteIcw1(ch) \/ WriteIcw(ch)
    BY <1>1, <2>2, <2>5, IcwInv
  <2>6. ASSUME NEW mask \in Masks, WriteMask(ch, mask) PROVE IInv'
    <3>1. mask \in SUBSET (0 .. 7)
      BY InterruptAssumption
    <3> QED
      BY <1>1, <2>2, <2>6, <3>1, MaskInv
  <2> QED
    BY <2>1, <2>3, <2>4, <2>5, <2>6
<1>3. CASE GuestSio
  <2>1. CASE ReadRbr
    BY <1>1, <2>1, ReadInv
  <2>2. CASE ~ ReadRbr
    BY <1>1, <1>3, <2>2, SioInv DEF GuestSio
  <2> QED
    BY <2>1, <2>2
<1>4. CASE ReadCause \/ WriteCause
  BY <1>1, <1>4, CauseInv
<1> QED
  BY <1>2, <1>3, <1>4 DEF Guest

LEMMA NextInv == IInv /\ [Next]_vars => IInv'
<1> SUFFICES ASSUME IInv, [Next]_vars PROVE IInv'
  OBVIOUS
<1>1. CASE SioStep
  BY <1>1, StepInv
<1>2. CASE Guest
  BY <1>2, GuestInv
<1>3. CASE Type
  BY <1>3, TypeInv
<1>4. CASE UNCHANGED vars
  <2>1. UNCHANGED <<lines, sio, counter, chars, dropped>>
    BY <1>4 DEF vars
  <2>2. InterruptTypeOK'
    BY <2>1 DEF IInv, InterruptTypeOK, lines, pic, cause, sio, chars, Pending
  <2>3. LineFollows' /\ RequestFollows' /\ InSequence'
    BY <2>1 DEF IInv, LineFollows, Unmasked, RequestFollows, Wanted, Pending,
                InSequence, lines, pic, cause, sio, chars
  <2> QED
    BY <2>2, <2>3 DEF IInv
<1> QED
  BY <1>1, <1>2, <1>3, <1>4 DEF Next

LEMMA Inductive == Spec => []IInv
<1> QED
  BY InitInv, NextInv, PTL DEF Spec

(* The registers of the port and of the controllers stay in their types,   *)
(* and NP stays in step with the enabled causes.                           *)
THEOREM InterruptTypeCorrect == Spec => []InterruptTypeOK
<1>1. IInv => InterruptTypeOK
  BY DEF IInv
<1> QED
  BY <1>1, Inductive, PTL

(* The CPU sees an interrupt exactly when a request is unmasked, whatever  *)
(* the masks and the order of EOIs, devices and initialization words.      *)
THEOREM LineCorrect == Spec => []LineFollows
<1>1. IInv => LineFollows
  BY DEF IInv
<1> QED
  BY <1>1, Inductive, PTL

(* The serial port requests an interrupt exactly while it wants one, but   *)
(* for an EOI that came before the cause was served.                       *)
THEOREM RequestCorrect == Spec => []RequestFollows
<1>1. IInv => RequestFollows
  BY DEF IInv
<1> QED
  BY <1>1, Inductive, PTL

(* However many characters are typed, and whenever the guest reads, each   *)
(* is given once and in order.                                             *)
THEOREM SequenceCorrect == Spec => []InSequence
<1>1. IInv => InSequence
  BY DEF IInv
<1> QED
  BY <1>1, Inductive, PTL
=============================================================================
